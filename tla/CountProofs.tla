---------------------------- MODULE CountProofs ----------------------------
(***************************************************************************)
(* Sets of numbers have a least and, when bounded, a greatest element; how  *)
(* many elements of a sequence lie in a set changes by one with the step.  *)
(***************************************************************************)
EXTENDS Integers, FiniteSetTheorems, NaturalsInduction, SequenceTheorems, TLAPS

\* A nonempty set of naturals has a least element.
LEMMA LeastNatural ==
    ASSUME NEW T \in SUBSET Nat, T # {}
    PROVE  \E x \in T : \A y \in T : x <= y
<1> DEFINE R == {p \in Nat \X Nat : p[1] < p[2]}
<1>1. IsWellFoundedOn(R, Nat)
  BY NatLessThanWellFounded DEF OpToRel
<1> HIDE DEF R
<1>2. PICK x \in T : \A y \in T : ~(<<y, x>> \in R)
  BY <1>1, WFMin
<1>3. \A y \in T : ~(y < x)
  BY <1>2 DEF R
<1> QED
  BY <1>3

\* A nonempty set of naturals below a bound has a greatest element.
LEMMA GreatestBelow ==
    ASSUME NEW n \in Nat, NEW T \in SUBSET (0..(n - 1)), T # {}
    PROVE  \E x \in T : \A y \in T : y <= x
<1> DEFINE Below == {n - x : x \in T}
<1>1. Below # {}
  OBVIOUS
<1>2. \A x \in T : n - x \in Nat
  OBVIOUS
<1>3. Below \in SUBSET Nat
  BY <1>2
<1> HIDE DEF Below
<1>4. PICK m \in Below : \A k \in Below : m <= k
  BY <1>1, <1>3, LeastNatural
<1>5. PICK x \in T : m = n - x
  BY <1>4 DEF Below
<1>6. ASSUME NEW y \in T PROVE y <= x
  <2>1. n - y \in Below
    BY DEF Below
  <2> QED
    BY <1>4, <1>5, <2>1
<1> QED
  BY <1>6

\* Induction, as a fact about sets.
LEMMA AllNaturals ==
    ASSUME NEW T, 0 \in T, \A n \in Nat : n \in T => n + 1 \in T
    PROVE  Nat \subseteq T
<1> DEFINE Bad == Nat \ T
<1>1. ASSUME Bad # {} PROVE FALSE
  <2>1. PICK x \in Bad : \A y \in Bad : x <= y
    BY <1>1, LeastNatural
  <2>2. x - 1 \in Nat /\ x - 1 \in T
    BY <2>1
  <2> QED
    BY <2>1, <2>2
<1> QED
  BY <1>1

-----------------------------------------------------------------------------
(* How many elements of a sequence lie in a set.                           *)

PlacesOf(s, S) == {i \in 1..Len(s) : s[i] \in S}
HowMany(s, S) == Cardinality(PlacesOf(s, S))

LEMMA PlacesFinite ==
    ASSUME NEW S, NEW s \in Seq(S), NEW T
    PROVE  IsFiniteSet(PlacesOf(s, T)) /\ HowMany(s, T) \in Nat
<1>1. IsFiniteSet(1..Len(s))
  BY FS_Interval
<1>2. PlacesOf(s, T) \subseteq 1..Len(s)
  BY DEF PlacesOf
<1> QED
  BY <1>1, <1>2, FS_Subset, FS_CardinalityType DEF HowMany

LEMMA HowManyEmpty ==
    ASSUME NEW T
    PROVE  HowMany(<<>>, T) = 0
<1>1. PlacesOf(<<>>, T) = {}
  BY DEF PlacesOf
<1> QED
  BY <1>1, FS_EmptySet DEF HowMany

LEMMA HowManyNone ==
    ASSUME NEW S, NEW s \in Seq(S), NEW T
    PROVE  HowMany(s, T) = 0 <=> \A i \in 1..Len(s) : s[i] \notin T
<1>1. HowMany(s, T) = 0 <=> PlacesOf(s, T) = {}
  BY PlacesFinite, FS_EmptySet DEF HowMany
<1> QED
  BY <1>1 DEF PlacesOf

LEMMA HowManyAppend ==
    ASSUME NEW S, NEW s \in Seq(S), NEW x \in S, NEW T
    PROVE  HowMany(Append(s, x), T) = HowMany(s, T) + (IF x \in T THEN 1 ELSE 0)
<1>1. Len(s) \in Nat /\ Len(Append(s, x)) = Len(s) + 1 /\ Append(s, x)[Len(s) + 1] = x
      /\ \A i \in 1..Len(s) : Append(s, x)[i] = s[i]
  BY AppendProperties
<1>2. IsFiniteSet(PlacesOf(s, T)) /\ HowMany(s, T) \in Nat
  BY PlacesFinite
<1>3. CASE x \in T
  <2>1. PlacesOf(Append(s, x), T) = PlacesOf(s, T) \cup {Len(s) + 1}
    BY <1>1, <1>3 DEF PlacesOf
  <2>2. Len(s) + 1 \notin PlacesOf(s, T)
    BY <1>1 DEF PlacesOf
  <2> QED
    BY <2>1, <2>2, <1>2, <1>3, FS_AddElement DEF HowMany
<1>4. CASE x \notin T
  <2>1. PlacesOf(Append(s, x), T) = PlacesOf(s, T)
    BY <1>1, <1>4 DEF PlacesOf
  <2> QED
    BY <2>1, <1>2, <1>4 DEF HowMany
<1> QED
  BY <1>3, <1>4

LEMMA HowManyTail ==
    ASSUME NEW S, NEW s \in Seq(S), s # <<>>, NEW T
    PROVE  HowMany(Tail(s), T) = HowMany(s, T) - (IF Head(s) \in T THEN 1 ELSE 0)
<1> DEFINE P == PlacesOf(s, T) \ {1}
           Q == PlacesOf(Tail(s), T)
           f == [i \in Q |-> i + 1]
<1>1. /\ Len(s) \in Nat \ {0} /\ Tail(s) \in Seq(S) /\ Len(Tail(s)) = Len(s) - 1 /\ Head(s) = s[1]
      /\ \A i \in 1..Len(Tail(s)) : Tail(s)[i] = s[i + 1]
  BY HeadTailProperties
<1>2. IsFiniteSet(PlacesOf(s, T)) /\ HowMany(s, T) \in Nat /\ IsFiniteSet(Q) /\ HowMany(Tail(s), T) \in Nat
  BY <1>1, PlacesFinite
<1>3. f \in Bijection(Q, P)
  <2>1. \A i \in Q : i \in Nat /\ i + 1 \in P
    BY <1>1 DEF PlacesOf
  <2>2. \A j \in P : j - 1 \in Q /\ f[j - 1] = j
    <3> SUFFICES ASSUME NEW j \in P PROVE j - 1 \in Q /\ f[j - 1] = j
      OBVIOUS
    <3>1. j \in 1..Len(s) /\ j # 1 /\ s[j] \in T
      BY DEF PlacesOf
    <3>2. j - 1 \in 1..Len(Tail(s)) /\ Tail(s)[j - 1] = s[j]
      BY <3>1, <1>1
    <3>3. j - 1 \in Q
      BY <3>1, <3>2 DEF PlacesOf
    <3> QED
      BY <3>1, <3>3
  <2>3. f \in [Q -> P]
    BY <2>1
  <2>4. \A i, j \in Q : f[i] = f[j] => i = j
    BY <2>1
  <2>5. \A j \in P : \E i \in Q : f[i] = j
    BY <2>2
  <2> HIDE DEF f, P, Q
  <2>6. f \in Injection(Q, P)
    BY <2>3, <2>4 DEF Injection, IsInjective
  <2>7. f \in Surjection(Q, P)
    BY <2>3, <2>5 DEF Surjection
  <2> QED
    BY <2>6, <2>7 DEF Bijection
<1>4. Cardinality(P) = Cardinality(Q)
  <2>1. ExistsBijection(Q, P)
    BY <1>3 DEF ExistsBijection
  <2> QED
    BY <2>1, <1>2, FS_Bijection
<1>5. Cardinality(P) = IF 1 \in PlacesOf(s, T) THEN HowMany(s, T) - 1 ELSE HowMany(s, T)
  BY <1>2, FS_RemoveElement DEF HowMany
<1>6. 1 \in PlacesOf(s, T) <=> Head(s) \in T
  BY <1>1 DEF PlacesOf
<1> QED
  BY <1>2, <1>4, <1>5, <1>6 DEF HowMany

LEMMA MoreOfOne ==
    ASSUME NEW S, NEW s \in Seq(S), NEW n \in Nat, NEW x \in S
    PROVE  /\ s \o [i \in 1..n |-> x] \in Seq(S) /\ Len(s \o [i \in 1..n |-> x]) = Len(s) + n
           /\ \A i \in 1..Len(s) + n :
                 (s \o [k \in 1..n |-> x])[i] = IF i <= Len(s) THEN s[i] ELSE x
<1> DEFINE more == [i \in 1..n |-> x]
<1>1. more \in Seq(S) /\ Len(more) = n /\ \A i \in 1..n : more[i] = x
  <2>1. more \in [1..n -> S] /\ \A i \in 1..n : more[i] = x
    OBVIOUS
  <2> HIDE DEF more
  <2> QED
    BY <2>1, ElementOfSeq, LenProperties
<1> HIDE DEF more
<1>2. /\ s \o more \in Seq(S) /\ Len(s \o more) = Len(s) + n /\ Len(s) \in Nat
      /\ \A i \in 1..Len(s) + n : (s \o more)[i] = IF i <= Len(s) THEN s[i] ELSE more[i - Len(s)]
  <2>1. /\ s \o more \in Seq(S) /\ Len(s \o more) = Len(s) + Len(more)
        /\ \A i \in 1..Len(s) + Len(more) :
              (s \o more)[i] = IF i <= Len(s) THEN s[i] ELSE more[i - Len(s)]
    BY <1>1, ConcatProperties
  <2> QED
    BY <2>1, <1>1
<1>3. \A i \in 1..Len(s) + n : (s \o more)[i] = IF i <= Len(s) THEN s[i] ELSE x
  BY <1>1, <1>2
<1> QED
  BY <1>2, <1>3 DEF more

LEMMA HowManyMore ==
    ASSUME NEW S, NEW s \in Seq(S), NEW x \in S, NEW T, NEW t \in Seq(S),
           Len(s) <= Len(t), \A i \in 1..Len(t) : t[i] = IF i <= Len(s) THEN s[i] ELSE x
    PROVE  HowMany(t, T) = HowMany(s, T) + (IF x \in T THEN Len(t) - Len(s) ELSE 0)
<1> DEFINE n == Len(t) - Len(s)
           Q == (Len(s) + 1)..(Len(s) + n)
<1>1. Len(s) \in Nat /\ n \in Nat /\ Len(t) = Len(s) + n /\ IsFiniteSet(PlacesOf(s, T)) /\ Cardinality(PlacesOf(s, T)) \in Nat
  BY PlacesFinite DEF HowMany
<1>2. CASE x \in T
  <2>1. PlacesOf(t, T) = PlacesOf(s, T) \cup Q
    BY <1>1, <1>2 DEF PlacesOf
  <2>2. PlacesOf(s, T) \cap Q = {}
    BY <1>1 DEF PlacesOf
  <2>3. IsFiniteSet(Q) /\ Cardinality(Q) = n
    <3>1. Len(s) + 1 \in Int /\ Len(s) + n \in Int
      BY <1>1
    <3>2. IsFiniteSet(Q) /\ Cardinality(Q) = IF Len(s) + 1 > Len(s) + n THEN 0 ELSE (Len(s) + n) - (Len(s) + 1) + 1
      BY <3>1, FS_Interval
    <3> QED
      BY <3>2, <1>1
  <2>4. Cardinality(PlacesOf(s, T) \cap Q) = 0
    BY <2>2, FS_EmptySet
  <2> HIDE DEF Q
  <2>5. Cardinality(PlacesOf(s, T) \cup Q)
          = Cardinality(PlacesOf(s, T)) + Cardinality(Q) - Cardinality(PlacesOf(s, T) \cap Q)
    BY <2>3, <1>1, FS_Union
  <2>6. Cardinality(PlacesOf(t, T)) = Cardinality(PlacesOf(s, T)) + n
    BY <2>1, <2>3, <2>4, <2>5, <1>1
  <2> QED
    BY <2>6, <1>2 DEF HowMany
<1>3. CASE x \notin T
  <2>1. PlacesOf(t, T) = PlacesOf(s, T)
    BY <1>1, <1>3 DEF PlacesOf
  <2> QED
    BY <2>1, <1>1, <1>3 DEF HowMany
<1> QED
  BY <1>2, <1>3
-----------------------------------------------------------------------------
(* One element of a sequence taken out, and one put in.                    *)

TakenOut(r, s, k) == /\ Len(r) = Len(s) - 1
                     /\ \A i \in 1..Len(s) - 1 : r[i] = IF i < k THEN s[i] ELSE s[i + 1]
PutIn(r, s, k, e) ==
    /\ Len(r) = Len(s) + 1
    /\ \A i \in 1..Len(s) + 1 : r[i] = IF i < k THEN s[i] ELSE IF i = k THEN e ELSE s[i - 1]

LEMMA OneTakenOut ==
    ASSUME NEW T, NEW s \in Seq(T), NEW k \in 1..Len(s)
    PROVE  \E r \in Seq(T) : /\ r = SubSeq(s, 1, k - 1) \o SubSeq(s, k + 1, Len(s))
                             /\ TakenOut(r, s, k)
<1> DEFINE whole == SubSeq(s, 1, k - 1) \o SubSeq(s, k + 1, Len(s))
<1>1. Len(s) \in Nat /\ k - 1 \in Nat /\ k - 1 <= Len(s) /\ k + 1 \in 1..Len(s) + 1
  OBVIOUS
<1>2. /\ SubSeq(s, 1, k - 1) \in Seq(T) /\ Len(SubSeq(s, 1, k - 1)) = k - 1
      /\ \A i \in 1..k - 1 : SubSeq(s, 1, k - 1)[i] = s[i]
  BY <1>1
<1>3. /\ SubSeq(s, k + 1, Len(s)) \in Seq(T) /\ Len(SubSeq(s, k + 1, Len(s))) = Len(s) - k
      /\ \A i \in 1..Len(s) - k : SubSeq(s, k + 1, Len(s))[i] = s[k + i]
  BY <1>1
<1> PICK left \in Seq(T), right \in Seq(T) :
        /\ whole = left \o right
        /\ Len(left) = k - 1 /\ Len(right) = Len(s) - k
        /\ \A i \in 1..k - 1 : left[i] = s[i]
        /\ \A i \in 1..Len(s) - k : right[i] = s[k + i]
  BY <1>2, <1>3
<1> HIDE DEF whole
<1>5. /\ left \o right \in Seq(T) /\ Len(left \o right) = Len(s) - 1
      /\ \A i \in 1..Len(s) - 1 : (left \o right)[i] = IF i <= k - 1 THEN left[i] ELSE right[i - (k - 1)]
  <2>1. /\ left \o right \in Seq(T) /\ Len(left \o right) = Len(left) + Len(right)
        /\ \A i \in 1..Len(left) + Len(right) :
              (left \o right)[i] = IF i <= Len(left) THEN left[i] ELSE right[i - Len(left)]
    BY ConcatProperties
  <2>2. Len(left) + Len(right) = Len(s) - 1
    BY <1>1
  <2> QED
    BY <2>1, <2>2
<1>6. ASSUME NEW i \in 1..Len(s) - 1 PROVE (left \o right)[i] = IF i < k THEN s[i] ELSE s[i + 1]
  <2>1. CASE i < k
    BY <1>1, <1>5, <2>1
  <2>2. CASE i >= k
    <3>1. i - (k - 1) \in 1..Len(s) - k /\ k + (i - (k - 1)) = i + 1 /\ ~ (i <= k - 1)
      <4>1. i \in Int /\ k \in Int /\ Len(s) \in Int /\ i <= Len(s) - 1
        BY <1>1
      <4>2. \A x, y, z \in Int : x >= y /\ x <= z - 1 =>
                x - (y - 1) \in 1..z - y /\ y + (x - (y - 1)) = x + 1 /\ ~ (x <= y - 1)
        OBVIOUS
      <4> QED
        BY <2>2, <4>1, <4>2
    <3>2. (left \o right)[i] = right[i - (k - 1)]
      BY <1>5, <3>1
    <3>3. right[i - (k - 1)] = s[k + (i - (k - 1))]
      BY <3>1
    <3>4. s[k + (i - (k - 1))] = s[i + 1] /\ ~ (i < k)
      BY <2>2, <3>1
    <3> QED
      BY <3>2, <3>3, <3>4
  <2> QED
    BY <1>1, <2>1, <2>2
<1>7. TakenOut(left \o right, s, k)
  BY <1>5, <1>6 DEF TakenOut
<1> QED
  BY <1>5, <1>7 DEF whole

LEMMA OnePutIn ==
    ASSUME NEW T, NEW s \in Seq(T), NEW e \in T, NEW k \in 1..Len(s) + 1
    PROVE  \E r \in Seq(T) : /\ r = SubSeq(s, 1, k - 1) \o <<e>> \o SubSeq(s, k, Len(s))
                             /\ PutIn(r, s, k, e)
<1> DEFINE whole == SubSeq(s, 1, k - 1) \o <<e>> \o SubSeq(s, k, Len(s))
<1>1. Len(s) \in Nat /\ k - 1 \in 0..Len(s) /\ k \in Int /\ k - 1 <= Len(s)
  OBVIOUS
<1>2. /\ SubSeq(s, 1, k - 1) \in Seq(T) /\ Len(SubSeq(s, 1, k - 1)) = k - 1
      /\ \A i \in 1..k - 1 : SubSeq(s, 1, k - 1)[i] = s[i]
  BY <1>1
<1>3. /\ SubSeq(s, k, Len(s)) \in Seq(T) /\ Len(SubSeq(s, k, Len(s))) = Len(s) - (k - 1)
      /\ \A i \in 1..Len(s) - (k - 1) : SubSeq(s, k, Len(s))[i] = s[(k - 1) + i]
  BY <1>1
<1> PICK left \in Seq(T), right \in Seq(T) :
        /\ whole = left \o <<e>> \o right
        /\ Len(left) = k - 1 /\ Len(right) = Len(s) - (k - 1)
        /\ \A i \in 1..k - 1 : left[i] = s[i]
        /\ \A i \in 1..Len(s) - (k - 1) : right[i] = s[(k - 1) + i]
  BY <1>2, <1>3
<1> HIDE DEF whole
<1> DEFINE longer == Append(left, e)
<1>0. left \o <<e>> = longer /\ longer \in Seq(T)
  OBVIOUS
<1>4. Len(longer) = k /\ longer[k] = e /\ \A i \in 1..k - 1 : longer[i] = s[i]
  <2>1. /\ Len(Append(left, e)) = Len(left) + 1 /\ Append(left, e)[Len(left) + 1] = e
        /\ \A i \in 1..Len(left) : Append(left, e)[i] = left[i]
    BY AppendProperties
  <2>2. Len(left) + 1 = k
    BY <1>1
  <2> QED
    BY <2>1, <2>2
<1> HIDE DEF longer
<1> DEFINE r == longer \o right
<1>5. /\ r \in Seq(T) /\ Len(r) = Len(s) + 1
      /\ \A i \in 1..Len(s) + 1 : r[i] = IF i <= k THEN longer[i] ELSE right[i - k]
  <2>1. /\ r \in Seq(T) /\ Len(r) = Len(longer) + Len(right)
        /\ \A i \in 1..Len(longer) + Len(right) :
              r[i] = IF i <= Len(longer) THEN longer[i] ELSE right[i - Len(longer)]
    BY <1>0, ConcatProperties, ZenonT(60)
  <2>2. Len(longer) + Len(right) = Len(s) + 1
    BY <1>1, <1>4
  <2> QED
    BY <1>4, <2>1, <2>2
<1> HIDE DEF r
<1>6. ASSUME NEW i \in 1..Len(s) + 1
      PROVE  r[i] = IF i < k THEN s[i] ELSE IF i = k THEN e ELSE s[i - 1]
  <2>1. CASE i <= k
    BY <1>1, <1>4, <1>5, <2>1
  <2>2. CASE i > k
    <3>1. i - k \in 1..Len(s) - (k - 1) /\ (k - 1) + (i - k) = i - 1
      <4>1. i \in Int /\ k \in Int /\ Len(s) \in Int /\ i <= Len(s) + 1
        BY <1>1
      <4> QED
        BY <2>2, <4>1
    <3>2. r[i] = right[i - k] /\ right[i - k] = s[(k - 1) + (i - k)]
      BY <1>1, <1>5, <2>2, <3>1
    <3> QED
      BY <1>1, <2>2, <3>1, <3>2
  <2> QED
    BY <1>1, <2>1, <2>2
<1>7. r = whole
  BY <1>0 DEF r
<1>8. PutIn(r, s, k, e)
  BY <1>5, <1>6 DEF PutIn
<1> QED
  BY <1>5, <1>7, <1>8 DEF whole

=============================================================================
