--------------------------- MODULE SequenceLemmas ---------------------------
(***************************************************************************)
(* Facts about the sequence operators the models use: removing elements,   *)
(* selecting some, and a sequence used as a stack.                         *)
(***************************************************************************)
EXTENDS Integers, SequencesExt, Selection, SequenceTheorems,
        FiniteSetTheorems, WellFoundedInduction, TLAPS

(* A nonempty set of natural numbers has a least element.                  *)
LEMMA LeastOfNaturals ==
  ASSUME NEW S \in SUBSET Nat, S # {}
  PROVE  \E x \in S : \A y \in S : x <= y
<1> DEFINE Below == {ss \in Nat \X Nat : ss[1] < ss[2]}
<1>1. OpToRel(<, Nat) = Below
  BY Zenon DEF OpToRel
<1>2. IsWellFoundedOn(Below, Nat)
  BY <1>1, NatLessThanWellFounded, Zenon
<1> HIDE DEF Below
<1>3. PICK x \in S : \A y \in S : ~ (<<y, x>> \in Below)
  BY <1>2, WFMin, Zenon
<1>4. \A y \in S : x \in Nat /\ y \in Nat /\ (y < x => <<y, x>> \in Below)
  BY DEF Below
<1>5. ASSUME NEW y \in S PROVE x <= y
  <2>1. x \in Nat /\ y \in Nat /\ ~ (y < x)
    BY <1>3, <1>4
  <2>2. QED
    BY <2>1
<1>6. QED
  BY <1>5

LEMMA MinOfNaturals ==
  ASSUME NEW S \in SUBSET Nat, S # {}
  PROVE  Min(S) \in S
BY LeastOfNaturals DEF Min

(* The least element, when it is known.                                    *)
LEMMA MinIs ==
  ASSUME NEW S \in SUBSET Nat, NEW m \in S, \A y \in S : m <= y
  PROVE  Min(S) = m
<1>1. Min(S) \in S /\ \A y \in S : Min(S) <= y
  BY DEF Min
<1>2. Min(S) \in Nat /\ m \in Nat /\ Min(S) <= m /\ m <= Min(S)
  BY <1>1
<1> HIDE DEF Min
<1> QED
  BY <1>2

(* Removing the element at a position keeps the others in their order.     *)
LEMMA RemoveAtProperties ==
  ASSUME NEW S, NEW s \in Seq(S), NEW i \in 1 .. Len(s)
  PROVE  /\ RemoveAt(s, i) \in Seq(S)
         /\ Len(RemoveAt(s, i)) = Len(s) - 1
         /\ \A j \in 1 .. Len(s) - 1 :
              RemoveAt(s, i)[j] = IF j < i THEN s[j] ELSE s[j + 1]
<1> DEFINE before == SubSeq(s, 1, i - 1)
           after  == SubSeq(s, i + 1, Len(s))
<1>1. PICK n \in Nat : n = Len(s) /\ \A j \in 1 .. n : s[j] \in S
  BY LenProperties, ElementOfSeq
<1>2. /\ before \in Seq(S)
      /\ Len(before) = i - 1
      /\ \A j \in 1 .. i - 1 : before[j] = s[j]
  BY <1>1, SubSeqProperties
<1>3. /\ after \in Seq(S)
      /\ Len(after) = n - i
      /\ \A j \in 1 .. n - i : after[j] = s[i + j]
  BY <1>1, SubSeqProperties
<1>4. RemoveAt(s, i) = before \o after
  BY DEF RemoveAt
<1> HIDE DEF before, after
<1>5. /\ before \o after \in Seq(S)
      /\ Len(before \o after) = Len(before) + Len(after)
      /\ \A j \in 1 .. Len(before) + Len(after) :
           (before \o after)[j] = IF j <= Len(before) THEN before[j]
                                  ELSE after[j - Len(before)]
  BY <1>2, <1>3, ConcatProperties
<1>6. i \in 1 .. n /\ Len(before) + Len(after) = n - 1
  BY <1>1, <1>2, <1>3
<1>7. ASSUME NEW j \in 1 .. n - 1
      PROVE  (before \o after)[j] = IF j < i THEN s[j] ELSE s[j + 1]
  <2>1. CASE j < i
    <3>1. j \in 1 .. i - 1 /\ j <= i - 1
      BY <1>6, <2>1
    <3>2. QED
      BY <1>2, <1>5, <1>6, <2>1, <3>1
  <2>2. CASE ~ (j < i)
    <3>1. /\ j - (i - 1) \in 1 .. n - i
          /\ i + (j - (i - 1)) = j + 1
          /\ ~ (j <= i - 1)
      BY <1>6, <2>2
    <3>2. (before \o after)[j] = after[j - (i - 1)]
      BY <1>2, <1>5, <1>6, <3>1
    <3>3. QED
      BY <1>3, <2>2, <3>1, <3>2
  <2>3. QED
    BY <2>1, <2>2
<1>8. QED
  BY <1>1, <1>4, <1>5, <1>6, <1>7

(* RemoveFirst stays within the set of the elements.                       *)
LEMMA RemoveFirstType ==
  ASSUME NEW S, NEW s \in Seq(S), NEW e
  PROVE  RemoveFirst(s, e) \in Seq(S)
<1> DEFINE I == {i \in 1 .. Len(s) : s[i] = e}
<1>1. CASE I # {}
  <2>1. Min(I) \in I
    <3>1. I \in SUBSET Nat
      OBVIOUS
    <3> HIDE DEF I
    <3>2. QED
      BY <1>1, <3>1, MinOfNaturals
  <2>2. RemoveFirst(s, e) = RemoveAt(s, Min(I))
    BY <1>1 DEF RemoveFirst, SelectInSeq
  <2>3. QED
    BY <2>1, <2>2, RemoveAtProperties
<1>2. CASE I = {}
  BY <1>2 DEF RemoveFirst
<1>3. QED
  BY <1>1, <1>2

(* Dropping the last element of a nonempty sequence.                       *)
LEMMA PopProperties ==
  ASSUME NEW S, NEW s \in Seq(S), s # << >>
  PROVE  /\ Len(s) \in Nat \ {0}
         /\ s[Len(s)] \in S
         /\ SubSeq(s, 1, Len(s) - 1) \in Seq(S)
         /\ Len(SubSeq(s, 1, Len(s) - 1)) = Len(s) - 1
         /\ \A i \in 1 .. Len(s) - 1 : SubSeq(s, 1, Len(s) - 1)[i] = s[i]
<1>1. PICK n \in Nat : n = Len(s) /\ n # 0 /\ \A i \in 1 .. n : s[i] \in S
  BY EmptySeq, ElementOfSeq
<1>2. /\ SubSeq(s, 1, n - 1) \in Seq(S)
      /\ Len(SubSeq(s, 1, n - 1)) = IF 1 <= n - 1 THEN (n - 1) - 1 + 1 ELSE 0
      /\ \A i \in 1 .. (n - 1) - 1 + 1 : SubSeq(s, 1, n - 1)[i] = s[1 + i - 1]
  BY <1>1, SubSeqProperties
<1>3. QED
  BY <1>1, <1>2

(* A function whose domain is 1 .. n is a sequence.                        *)
LEMMA FunctionIsSeq ==
  ASSUME NEW S, NEW n \in Nat, NEW f \in [1 .. n -> S]
  PROVE  f \in Seq(S) /\ Len(f) = n
OBVIOUS

-----------------------------------------------------------------------------
(* Selecting elements of a sequence.                                       *)

(* How many of some places come up to one.                                 *)
LEMMA RankProperties ==
  ASSUME NEW n \in Nat, NEW places \in SUBSET (1 .. n)
  PROVE  /\ IsFiniteSet(places) /\ Cardinality(places) \in Nat
         /\ \A i \in 0 .. n : /\ IsFiniteSet({j \in places : j <= i})
                              /\ Rank(places, i) \in 0 .. Cardinality(places)
         /\ \A i \in 1 .. n :
              Rank(places, i) = Rank(places, i - 1) + IF i \in places THEN 1 ELSE 0
         /\ Rank(places, 0) = 0
         /\ Rank(places, n) = Cardinality(places)
<1> DEFINE Upto(i) == {j \in places : j <= i}
<1>1. IsFiniteSet(1 .. n)
  BY FS_Interval
<1>2. IsFiniteSet(places) /\ Cardinality(places) \in Nat
  BY <1>1, FS_Subset, FS_CardinalityType
<1>3. ASSUME NEW i \in 0 .. n
      PROVE  IsFiniteSet(Upto(i)) /\ Cardinality(Upto(i)) \in 0 .. Cardinality(places)
  <2>1. Upto(i) \in SUBSET places
    OBVIOUS
  <2> HIDE DEF Upto
  <2>2. /\ IsFiniteSet(Upto(i)) /\ Cardinality(Upto(i)) <= Cardinality(places)
    BY <1>2, <2>1, FS_Subset
  <2>3. Cardinality(Upto(i)) \in Nat
    BY <2>2, FS_CardinalityType
  <2> QED
    BY <1>2, <2>2, <2>3
<1>4. ASSUME NEW i \in 1 .. n
      PROVE  Cardinality(Upto(i)) = Cardinality(Upto(i - 1)) + IF i \in places THEN 1 ELSE 0
  <2>0. i - 1 \in 0 .. n /\ i \in Nat /\ ~ (i <= i - 1) /\ i <= i
    OBVIOUS
  <2>1. \A j \in places : j <= i <=> j <= i - 1 \/ j = i
    <3>1. \A j \in places : j \in Nat
      OBVIOUS
    <3> QED
      BY <2>0, <3>1
  <2>2. CASE i \in places
    <3>1. Upto(i) = Upto(i - 1) \cup {i}
      BY <2>0, <2>1, <2>2, Zenon
    <3>3. i \notin Upto(i - 1)
      BY <2>0, Zenon
    <3> HIDE DEF Upto
    <3>2. IsFiniteSet(Upto(i - 1))
      BY <1>3, <2>0
    <3>4. Cardinality(Upto(i - 1) \cup {i}) = Cardinality(Upto(i - 1)) + 1
      BY <3>2, <3>3, FS_AddElement
    <3> QED
      BY <2>2, <3>1, <3>4
  <2>3. CASE i \notin places
    <3>1. Upto(i) = Upto(i - 1)
      BY <2>1, <2>3, Zenon
    <3> HIDE DEF Upto
    <3>2. Cardinality(Upto(i - 1)) \in Nat
      BY <1>2, <1>3, <2>0
    <3> QED
      BY <2>3, <3>1, <3>2
  <2> QED
    BY <2>2, <2>3
<1>5. Upto(0) = {} /\ Upto(n) = places
  <2>1. \A j \in places : ~ (j <= 0) /\ j <= n
    OBVIOUS
  <2> QED
    BY <2>1, Zenon
<1>6. Cardinality(Upto(0)) = 0
  BY <1>5, FS_EmptySet
<1> QED
  BY <1>2, <1>3, <1>4, <1>5, <1>6 DEF Rank

(* No two places have as many up to them.                                  *)
LEMMA SameRank ==
  ASSUME NEW n \in Nat, NEW places \in SUBSET (1 .. n),
         NEW a \in places, NEW b \in places,
         Rank(places, a) = Rank(places, b)
  PROVE  a = b
<1> DEFINE Upto(i) == {j \in places : j <= i}
<1>1. ASSUME NEW c \in places, NEW d \in places, c < d
      PROVE  Cardinality(Upto(c)) < Cardinality(Upto(d))
  <2>0. d - 1 \in 0 .. n /\ d \in 0 .. n /\ d > 0
    OBVIOUS
  <2>a. \A j \in places : j <= c => j <= d - 1
    <3>1. \A j \in places : j \in Nat
      OBVIOUS
    <3> QED
      BY <1>1, <3>1
  <2>1. Upto(c) \subseteq Upto(d - 1)
    BY <2>a, Zenon
  <2>2. /\ IsFiniteSet(Upto(d - 1)) /\ Cardinality(Upto(d - 1)) \in Nat
        /\ Cardinality(Upto(d)) = Cardinality(Upto(d - 1)) + 1
    BY <2>0, RankProperties DEF Rank
  <2> HIDE DEF Upto
  <2>3. IsFiniteSet(Upto(c)) /\ Cardinality(Upto(c)) <= Cardinality(Upto(d - 1))
    BY <2>1, <2>2, FS_Subset
  <2>4. Cardinality(Upto(c)) \in Nat
    BY <2>3, FS_CardinalityType
  <2> QED
    BY <2>2, <2>3, <2>4
<1>2. ~ Cardinality(Upto(a)) < Cardinality(Upto(a)) /\ Cardinality(Upto(b)) = Cardinality(Upto(a))
  <2>1. Cardinality(Upto(a)) \in Nat
    BY RankProperties DEF Rank
  <2> QED
    BY <2>1 DEF Rank
<1> HIDE DEF Upto
<1>3. a \in Nat /\ b \in Nat
  OBVIOUS
<1> QED
  BY <1>1, <1>2, <1>3

(* Each of the first places, as many as there are, is somewhere.           *)
LEMMA NthIsAPlace ==
  ASSUME NEW n \in Nat, NEW places \in SUBSET (1 .. n),
         NEW k \in 1 .. Cardinality(places)
  PROVE  Nth(places, k) \in places /\ Rank(places, Nth(places, k)) = k
<1> DEFINE S == {i \in 0 .. n : Rank(places, i) >= k}
<1>1. /\ Cardinality(places) \in Nat
      /\ Rank(places, 0) = 0 /\ Rank(places, n) = Cardinality(places)
      /\ \A i \in 0 .. n : Rank(places, i) \in 0 .. Cardinality(places)
      /\ \A i \in 1 .. n :
           Rank(places, i) = Rank(places, i - 1) + IF i \in places THEN 1 ELSE 0
  BY RankProperties
<1>2. n \in S /\ S \in SUBSET Nat
  BY <1>1
<1>3. PICK i \in S : \A y \in S : i <= y
  BY <1>2, LeastOfNaturals
<1>4. i \in 0 .. n /\ Rank(places, i) >= k
  OBVIOUS
<1>5. i # 0
  BY <1>1, <1>4
<1>6. i - 1 \in 0 .. n /\ i - 1 \notin S
  BY <1>3, <1>4, <1>5
<1>7. Rank(places, i - 1) < k
  BY <1>1, <1>6
<1>8. i \in places /\ Rank(places, i) = k
  BY <1>1, <1>4, <1>5, <1>6, <1>7
<1> QED
  BY <1>8 DEF Nth

LEMMA SelectedProperties ==
  ASSUME NEW S, NEW s \in Seq(S), NEW places \in SUBSET (DOMAIN s)
  PROVE  /\ Selected(s, places) \in Seq(S)
         /\ Len(Selected(s, places)) = Cardinality(places)
         /\ DOMAIN Selected(s, places) = 1 .. Cardinality(places)
         /\ \A k \in DOMAIN Selected(s, places) :
              \E i \in places : Selected(s, places)[k] = s[i]
<1>1. PICK n \in Nat : n = Len(s) /\ DOMAIN s = 1 .. n /\ \A i \in 1 .. n : s[i] \in S
  BY LenProperties, ElementOfSeq
<1>2. Cardinality(places) \in Nat
  BY <1>1, RankProperties
<1>3. \A k \in 1 .. Cardinality(places) : Nth(places, k) \in places
  BY <1>1, NthIsAPlace
<1>4. Selected(s, places) \in [1 .. Cardinality(places) -> S]
  BY <1>1, <1>3 DEF Selected
<1>5. \A k \in 1 .. Cardinality(places) : Selected(s, places)[k] = s[Nth(places, k)]
  BY DEF Selected
<1> HIDE DEF Selected
<1> QED
  BY <1>2, <1>3, <1>4, <1>5, FunctionIsSeq

(* Another element, selected or not.                                       *)
LEMMA SelectedAppend ==
  ASSUME NEW S, NEW s \in Seq(S), NEW e \in S, NEW places \in SUBSET (DOMAIN s)
  PROVE  /\ Selected(Append(s, e), places) = Selected(s, places)
         /\ Selected(Append(s, e), places \cup {Len(s) + 1}) = Append(Selected(s, places), e)
<1>1. PICK n \in Nat : n = Len(s) /\ DOMAIN s = 1 .. n
  BY LenProperties
<1> DEFINE t == Append(s, e)
           more == places \cup {n + 1}
<1>2. /\ t \in Seq(S) /\ Len(t) = n + 1 /\ DOMAIN t = 1 .. n + 1
      /\ \A i \in 1 .. n : t[i] = s[i]
      /\ t[n + 1] = e
  BY <1>1, AppendProperties, LenProperties
<1> HIDE DEF t
<1>3. PICK m \in Nat : m = Cardinality(places)
  BY <1>1, RankProperties
<1>4. \A k \in 1 .. m : Nth(places, k) \in places
  BY <1>1, <1>3, NthIsAPlace
<1>5. Selected(t, places) = Selected(s, places)
  BY <1>1, <1>2, <1>3, <1>4 DEF Selected
<1>6. n \in Nat /\ more \in SUBSET (1 .. n + 1) /\ Cardinality(more) = m + 1
  <2>1. n + 1 \notin places /\ more \in SUBSET (1 .. n + 1)
    BY <1>1
  <2>2. IsFiniteSet(places)
    BY <1>1, RankProperties
  <2>3. Cardinality(places \cup {n + 1}) = Cardinality(places) + 1
    BY <2>1, <2>2, FS_AddElement
  <2> QED
    BY <1>3, <2>1, <2>3
<1>7. /\ \A i \in 1 .. n : Rank(more, i) = Rank(places, i)
      /\ Rank(more, n + 1) = m + 1
  <2>1. \A i \in 1 .. n : {j \in more : j <= i} = {j \in places : j <= i}
    BY <1>1
  <2>2. {j \in more : j <= n + 1} = more
    BY <1>1
  <2> QED
    BY <1>6, <2>1, <2>2 DEF Rank
<1> HIDE DEF more
<1>8. ASSUME NEW k \in 1 .. m + 1
      PROVE  Nth(more, k) \in more /\ Rank(more, Nth(more, k)) = k
  <2>1. n + 1 \in Nat /\ k \in 1 .. Cardinality(more)
    BY <1>6
  <2> QED
    BY <1>6, <2>1, NthIsAPlace
<1>10. \A i \in more : i = n + 1 \/ (i \in places /\ i \in 1 .. n)
  BY <1>1 DEF more
<1>11. ASSUME NEW k \in 1 .. m PROVE Nth(more, k) = Nth(places, k)
  <2>1. k \in 1 .. m + 1 /\ k # m + 1
    BY <1>3
  <2>2. Nth(more, k) \in places /\ Rank(places, Nth(more, k)) = k
    BY <1>7, <1>8, <1>10, <2>1
  <2>3. Nth(places, k) \in places /\ Rank(places, Nth(places, k)) = k
    BY <1>1, <1>3, NthIsAPlace
  <2> QED
    BY <1>1, <2>2, <2>3, SameRank
<1>12. Nth(more, m + 1) = n + 1
  <2>1. ASSUME NEW i \in 1 .. n PROVE Rank(places, i) \in 0 .. m
    <3>1. i \in 0 .. n
      OBVIOUS
    <3> QED
      BY <1>1, <1>3, <3>1, RankProperties
  <2>2. m + 1 \in 1 .. m + 1
    BY <1>3
  <2> QED
    BY <1>3, <1>7, <1>8, <1>10, <2>1, <2>2
<1>9. Selected(t, more) = Append(Selected(s, places), e)
  <2> DEFINE u == Selected(s, places)
             v == Append(u, e)
             w == Selected(t, more)
  <2>1. u \in Seq(S) /\ Len(u) = m /\ \A k \in 1 .. m : u[k] = s[Nth(places, k)]
    BY <1>3, SelectedProperties DEF Selected
  <2>2. w = [k \in 1 .. m + 1 |-> t[Nth(more, k)]]
    BY <1>6 DEF Selected
  <2>3. w \in Seq(S) /\ Len(w) = m + 1
    BY <1>2, <1>6, SelectedProperties
  <2> HIDE DEF u, w
  <2>4. v \in Seq(S) /\ Len(v) = m + 1 /\ v[m + 1] = e /\ \A k \in 1 .. m : v[k] = u[k]
    BY <1>3, <2>1, AppendProperties
  <2> HIDE DEF v
  <2>5. ASSUME NEW k \in 1 .. m + 1 PROVE w[k] = v[k]
    <3>1. CASE k = m + 1
      BY <1>2, <1>12, <2>2, <2>4, <3>1
    <3>2. CASE k \in 1 .. m
      BY <1>1, <1>2, <1>4, <1>11, <2>1, <2>2, <2>4, <3>2
    <3> QED
      BY <1>3, <3>1, <3>2
  <2>6. w = v
    BY <1>3, <2>3, <2>4, <2>5, SeqEqual
  <2> QED
    BY <2>6 DEF u, v, w
<1> QED
  BY <1>1, <1>5, <1>9 DEF t, more

(* The first places, if all of them are selected.                          *)
LEMMA SelectedFirst ==
  ASSUME NEW S, NEW s \in Seq(S), NEW places \in SUBSET (DOMAIN s), NEW m \in Nat,
         1 .. m \subseteq places
  PROVE  /\ m <= Len(Selected(s, places))
         /\ \A k \in 1 .. m : Selected(s, places)[k] = s[k]
<1>1. PICK n \in Nat : n = Len(s) /\ DOMAIN s = 1 .. n
  BY LenProperties
<1>2. m <= n
  <2>1. CASE m = 0
    BY <1>1, <2>1
  <2>2. CASE m # 0
    <3>1. m \in places
      BY <2>2
    <3> QED
      BY <1>1, <3>1
  <2> QED
    BY <2>1, <2>2
<1>3. ASSUME NEW k \in 0 .. m PROVE Rank(places, k) = k
  <2>1. {j \in places : j <= k} = 1 .. k
    <3>1. \A j \in places : j \in Nat /\ j >= 1
      BY <1>1
    <3>2. \A j \in 1 .. k : j \in 1 .. m /\ j <= k
      OBVIOUS
    <3>3. \A j \in places : j <= k => j \in 1 .. k
      BY <3>1
    <3> QED
      BY <3>2, <3>3
  <2>2. Cardinality(1 .. k) = k
    BY FS_Interval
  <2> QED
    BY <2>1, <2>2 DEF Rank
<1>4. m <= Cardinality(places) /\ Cardinality(places) \in Nat
  <2>0. m \in 0 .. n /\ places \in SUBSET (1 .. n)
    BY <1>1, <1>2
  <2>1. Rank(places, m) \in 0 .. Cardinality(places) /\ Cardinality(places) \in Nat
    BY <2>0, RankProperties
  <2> QED
    BY <1>3, <2>1
<1>5. ASSUME NEW k \in 1 .. m PROVE Nth(places, k) = k
  <2>1. k \in 1 .. Cardinality(places) /\ k \in places /\ Rank(places, k) = k
    BY <1>3, <1>4
  <2>2. Nth(places, k) \in places /\ Rank(places, Nth(places, k)) = k
    BY <1>1, <2>1, NthIsAPlace
  <2> QED
    BY <1>1, <2>1, <2>2, SameRank
<1>6. \A k \in 1 .. m : Selected(s, places)[k] = s[k]
  BY <1>4, <1>5 DEF Selected
<1>7. Len(Selected(s, places)) = Cardinality(places)
  BY SelectedProperties
<1> QED
  BY <1>4, <1>6, <1>7

-----------------------------------------------------------------------------
(* Sequences, of whatever elements.                                        *)
IsSequence(s) == s \in Seq({s[i] : i \in DOMAIN s})

LEMMA SeqIsSequence ==
  ASSUME NEW S, NEW s \in Seq(S) PROVE IsSequence(s)
<1> DEFINE T == {s[i] : i \in DOMAIN s}
<1>1. PICK n \in Nat : n = Len(s) /\ DOMAIN s = 1 .. n
  BY LenProperties
<1>2. \A i \in 1 .. n : s[i] \in T
  BY <1>1
<1>3. s = [i \in 1 .. n |-> s[i]]
  BY <1>1
<1> HIDE DEF T
<1>4. s \in [1 .. n -> T]
  BY <1>2, <1>3
<1>5. s \in Seq(T)
  BY <1>4, FunctionIsSeq
<1> QED
  BY <1>5 DEF T, IsSequence

LEMMA SequenceProperties ==
  ASSUME NEW s, IsSequence(s)
  PROVE  Len(s) \in Nat /\ DOMAIN s = 1 .. Len(s)
BY LenProperties DEF IsSequence

LEMMA ConcatIsSequence ==
  ASSUME NEW a, IsSequence(a), NEW b, IsSequence(b)
  PROVE  /\ IsSequence(a \o b)
         /\ Len(a \o b) = Len(a) + Len(b)
         /\ DOMAIN (a \o b) = 1 .. Len(a) + Len(b)
         /\ \A i \in 1 .. Len(a) + Len(b) :
              (a \o b)[i] = IF i <= Len(a) THEN a[i] ELSE b[i - Len(a)]
<1> DEFINE A == {a[i] : i \in DOMAIN a}
           B == {b[i] : i \in DOMAIN b}
           S == A \cup B
<1>1. a \in Seq(A) /\ b \in Seq(B)
  BY DEF IsSequence
<1> HIDE DEF A, B
<1>2. a \in Seq(S) /\ b \in Seq(S)
  BY <1>1
<1> HIDE DEF S
<1>3. /\ a \o b \in Seq(S)
      /\ Len(a \o b) = Len(a) + Len(b)
      /\ \A i \in 1 .. Len(a) + Len(b) :
           (a \o b)[i] = IF i <= Len(a) THEN a[i] ELSE b[i - Len(a)]
  BY <1>2, ConcatProperties
<1>4. IsSequence(a \o b)
  BY <1>3, SeqIsSequence
<1>5. DOMAIN (a \o b) = 1 .. Len(a) + Len(b)
  BY <1>3, <1>4, SequenceProperties
<1> QED
  BY <1>3, <1>4, <1>5

-----------------------------------------------------------------------------
(* Subsequences, blocks of a sequence and the places of a set of its places. *)
LEMMA SequenceIsFunction ==
  ASSUME NEW s, IsSequence(s) PROVE s = [i \in DOMAIN s |-> s[i]]
<1> DEFINE T == {s[i] : i \in DOMAIN s}
<1>1. s \in Seq(T)
  BY DEF IsSequence
<1> HIDE DEF T
<1> QED
  BY <1>1

(* What a count comes to, by what it gains at each place.                  *)
LEMMA RankIs ==
  ASSUME NEW n \in Nat, NEW places \in SUBSET (1 .. n), NEW f \in [0 .. n -> Nat],
         f[0] = 0, \A i \in 1 .. n : f[i] = f[i - 1] + IF i \in places THEN 1 ELSE 0
  PROVE  \A i \in 0 .. n : Rank(places, i) = f[i]
<1> DEFINE S == {i \in 0 .. n : Rank(places, i) # f[i]}
<1>1. /\ Rank(places, 0) = 0
      /\ \A i \in 1 .. n :
           Rank(places, i) = Rank(places, i - 1) + IF i \in places THEN 1 ELSE 0
  BY RankProperties
<1>3. S \in SUBSET Nat
  OBVIOUS
<1>2. CASE S # {}
  <2>1. PICK i \in S : \A y \in S : i <= y
    BY <1>2, <1>3, LeastOfNaturals
  <2>2. i # 0 /\ i \in 0 .. n /\ Rank(places, i) # f[i]
    BY <1>1
  <2>3. i - 1 \in 0 .. n /\ i - 1 \notin S
    BY <2>1, <2>2
  <2> QED
    BY <1>1, <2>2, <2>3
<1> QED
  BY <1>2

LEMMA NthIs ==
  ASSUME NEW n \in Nat, NEW places \in SUBSET (1 .. n), NEW i \in places
  PROVE  /\ Rank(places, i) \in 1 .. Cardinality(places)
         /\ Nth(places, Rank(places, i)) = i
<1>1. /\ Rank(places, i) = Rank(places, i - 1) + 1 /\ i \in 1 .. n /\ i - 1 \in 0 .. n
      /\ Rank(places, i) \in 0 .. Cardinality(places)
      /\ Rank(places, i - 1) \in 0 .. Cardinality(places)
      /\ Cardinality(places) \in Nat
  <2>1. i \in 1 .. n /\ i - 1 \in 0 .. n /\ i \in 0 .. n
    OBVIOUS
  <2> QED
    BY <2>1, RankProperties
<1>2. Rank(places, i) \in 1 .. Cardinality(places)
  BY <1>1
<1>3. /\ Nth(places, Rank(places, i)) \in places
      /\ Rank(places, Nth(places, Rank(places, i))) = Rank(places, i)
  BY <1>2, NthIsAPlace
<1> QED
  BY <1>2, <1>3, SameRank

(* Blocks of fifteen, one after the other.                                 *)
LEMMA Residues ==
  ASSUME NEW k \in Nat, k >= 1, NEW o \in 1 .. 15
  PROVE  /\ ((15 * (k - 1) + o - 1) \div 15) + 1 = k
         /\ ((15 * (k - 1) + o - 1) % 15) + 1 = o
OBVIOUS

LEMMA BlockIsInside ==
  ASSUME NEW n \in Nat, NEW k \in 1 .. n, NEW o \in 1 .. 15
  PROVE  15 * (k - 1) + o \in 1 .. 15 * n
OBVIOUS

LEMMA PlaceInBlock ==
  ASSUME NEW n \in Nat, NEW p \in 1 .. 15 * n
  PROVE  \E k \in 1 .. n, o \in 1 .. 15 : p = 15 * (k - 1) + o
<1> DEFINE k == ((p - 1) \div 15) + 1
           o == ((p - 1) % 15) + 1
<1>1. /\ k \in 1 .. n /\ o \in 1 .. 15 /\ p = 15 * (k - 1) + o
  OBVIOUS
<1> QED
  BY <1>1

(* Pieces of a sequence that follow each other make up the sequence.       *)
Pieces(seqs, n, s, c) ==
  /\ n \in Nat /\ n >= 1 /\ IsSequence(s) /\ IsSequence(seqs) /\ Len(seqs) = n
  /\ c[0] = 0 /\ c[n] = Len(s) /\ \A k \in 0 .. n : c[k] \in 0 .. Len(s)
  /\ \A k \in 1 .. n : /\ IsSequence(seqs[k])
                       /\ c[k - 1] + Len(seqs[k]) = c[k]
                       /\ \A o \in 1 .. Len(seqs[k]) : seqs[k][o] = s[c[k - 1] + o]

LEMMA FlattenPieces ==
  ASSUME NEW seqs, NEW n, NEW s, NEW c, Pieces(seqs, n, s, c)
  PROVE  FlattenSeq(seqs) = s
<1> USE DEF Pieces
<1> DEFINE G(i) == [p \in 1 .. c[i] |-> s[p]]
           F == [i \in 1 .. n |-> G(i)]
           Rec(f) == f = [i \in 1 .. Len(seqs) |-> IF i = 1 THEN seqs[1] ELSE f[i - 1] \o seqs[i]]
           flat == CHOOSE f : Rec(f)
<1>1. Len(s) \in Nat /\ DOMAIN s = 1 .. Len(s)
  BY SequenceProperties
<1>2. ASSUME NEW i \in 0 .. n
      PROVE  /\ c[i] \in Nat /\ c[i] <= Len(s)
             /\ IsSequence(G(i)) /\ Len(G(i)) = c[i]
             /\ \A p \in 1 .. c[i] : G(i)[p] = s[p]
  <2> DEFINE T == {s[p] : p \in 1 .. c[i]}
  <2>1. c[i] \in Nat /\ c[i] <= Len(s)
    BY <1>1
  <2>2. G(i) \in [1 .. c[i] -> T]
    OBVIOUS
  <2> HIDE DEF T
  <2>3. G(i) \in Seq(T) /\ Len(G(i)) = c[i]
    <3> DEFINE m == c[i]
    <3>1. m \in Nat /\ G(i) \in [1 .. m -> T]
      BY <2>1, <2>2
    <3> HIDE DEF G, m
    <3>2. G(i) \in Seq(T) /\ Len(G(i)) = m
      BY <3>1, FunctionIsSeq
    <3> QED
      BY <3>2 DEF m
  <2>4. IsSequence(G(i))
    BY <2>3, SeqIsSequence
  <2> QED
    BY <2>1, <2>3, <2>4
<1>3. G(1) = seqs[1]
  <2>1. 1 \in 1 .. n /\ 1 - 1 = 0
    OBVIOUS
  <2>2. /\ IsSequence(seqs[1]) /\ 0 + Len(seqs[1]) = c[1]
        /\ \A o \in 1 .. Len(seqs[1]) : seqs[1][o] = s[0 + o]
    BY <2>1
  <2>3. Len(seqs[1]) \in Nat /\ DOMAIN seqs[1] = 1 .. Len(seqs[1])
    BY <2>2, SequenceProperties
  <2>4. Len(seqs[1]) = c[1] /\ \A o \in 1 .. c[1] : seqs[1][o] = s[o]
    BY <2>2, <2>3
  <2>5. seqs[1] = [p \in 1 .. c[1] |-> seqs[1][p]]
    BY <2>2, <2>3, <2>4, SequenceIsFunction
  <2> QED
    BY <2>4, <2>5
<1>4. ASSUME NEW i \in 1 .. n, i # 1
      PROVE  G(i) = G(i - 1) \o seqs[i]
  <2> DEFINE a == G(i - 1)
             b == seqs[i]
             u == a \o b
  <2>1. i \in 0 .. n /\ i - 1 \in 0 .. n
    OBVIOUS
  <2>2. /\ IsSequence(a) /\ Len(a) = c[i - 1] /\ c[i - 1] \in Nat
        /\ \A p \in 1 .. c[i - 1] : a[p] = s[p]
    BY <1>2, <2>1
  <2>3. /\ IsSequence(b) /\ c[i - 1] + Len(b) = c[i] /\ c[i] \in Nat
        /\ \A o \in 1 .. Len(b) : b[o] = s[c[i - 1] + o]
    BY <1>2, <2>1
  <2> HIDE DEF a, b
  <2>4. Len(b) \in Nat
    BY <2>3, SequenceProperties
  <2>5. /\ IsSequence(u) /\ DOMAIN u = 1 .. Len(a) + Len(b)
        /\ \A p \in 1 .. Len(a) + Len(b) : u[p] = IF p <= Len(a) THEN a[p] ELSE b[p - Len(a)]
    <3>1. IsSequence(a) /\ IsSequence(b)
      BY <2>2, <2>3
    <3> QED
      BY <3>1, ConcatIsSequence, ZenonT(40)
  <2> HIDE DEF u
  <2>6. ASSUME NEW p \in 1 .. c[i] PROVE u[p] = s[p]
    <3>1. p \in 1 .. Len(a) + Len(b)
      BY <2>2, <2>3
    <3>2. CASE p <= Len(a)
      BY <2>2, <2>5, <3>1, <3>2
    <3>3. CASE ~ (p <= Len(a))
      <4>1. p - Len(a) \in 1 .. Len(b) /\ c[i - 1] + (p - Len(a)) = p
        <5>1. Len(a) \in Nat /\ Len(a) + Len(b) = c[i] /\ p \in Nat /\ p <= c[i]
          BY <2>2, <2>3
        <5>2. p - Len(a) \in 1 .. Len(b)
          BY <2>4, <3>3, <5>1
        <5> QED
          BY <2>2, <5>1, <5>2
      <4>2. b[p - Len(a)] = s[p]
        BY <2>3, <4>1
      <4> QED
        BY <2>5, <3>1, <3>3, <4>2
    <3> QED
      BY <3>2, <3>3
  <2>7. u = [p \in 1 .. c[i] |-> u[p]]
    <3>1. DOMAIN u = 1 .. c[i]
      BY <2>2, <2>3, <2>5
    <3> QED
      BY <2>5, <3>1, SequenceIsFunction
  <2>8. u = [p \in 1 .. c[i] |-> s[p]]
    BY <2>6, <2>7
  <2> QED
    BY <2>8 DEF u, a, b
<1> HIDE DEF G
<1>5. Rec(F)
  <2>1. ASSUME NEW i \in 1 .. n
        PROVE  F[i] = IF i = 1 THEN seqs[1] ELSE F[i - 1] \o seqs[i]
    <3>1. CASE i = 1
      BY <1>3, <3>1
    <3>2. CASE i # 1
      <4>1. i - 1 \in 1 .. n
        BY <3>2
      <4>2. F[i] = G(i) /\ F[i - 1] = G(i - 1)
        BY <4>1
      <4> QED
        BY <1>4, <3>2, <4>2
    <3> QED
      BY <3>1, <3>2
  <2>2. F = [i \in 1 .. n |-> IF i = 1 THEN seqs[1] ELSE F[i - 1] \o seqs[i]]
    BY <2>1
  <2> HIDE DEF F
  <2> QED
    BY <2>2
<1>6. Rec(flat)
  BY <1>5
<1> HIDE DEF flat
<1>7. \A i \in 1 .. n : flat[i] = IF i = 1 THEN seqs[1] ELSE flat[i - 1] \o seqs[i]
  BY <1>6
<1>8. \A i \in 1 .. n : flat[i] = G(i)
  <2> DEFINE S == {i \in 1 .. n : flat[i] # G(i)}
  <2>1. CASE S # {}
    <3>1. S \in SUBSET Nat
      OBVIOUS
    <3>2. PICK i \in S : \A y \in S : i <= y
      BY <2>1, <3>1, LeastOfNaturals
    <3>3. i \in 1 .. n /\ flat[i] # G(i)
      OBVIOUS
    <3>4. i # 1
      BY <1>3, <1>7, <3>3
    <3>5. i - 1 \in 1 .. n /\ i - 1 \notin S
      BY <3>2, <3>3, <3>4
    <3>6. flat[i - 1] = G(i - 1) /\ flat[i] = flat[i - 1] \o seqs[i]
      BY <1>7, <3>3, <3>4, <3>5
    <3> QED
      BY <1>4, <3>3, <3>4, <3>6
  <2> QED
    BY <2>1
<1>9. FlattenSeq(seqs) = flat[n]
  <2>1. Len(seqs) # 0
    OBVIOUS
  <2>2. FlattenSeq(seqs) = flat[Len(seqs)]
    BY <2>1, ZenonT(40) DEF FlattenSeq, flat
  <2> QED
    BY <2>2
<1>10. G(n) = s
  <2>1. s = [p \in 1 .. Len(s) |-> s[p]]
    BY <1>1, SequenceIsFunction
  <2> QED
    BY <2>1 DEF G
<1> QED
  BY <1>8, <1>9, <1>10

LEMMA FlattenBlocks ==
  ASSUME NEW n \in Nat, n >= 1, NEW seqs, IsSequence(seqs), Len(seqs) = n,
         \A k \in 1 .. n : IsSequence(seqs[k]) /\ Len(seqs[k]) = 15
  PROVE  /\ IsSequence(FlattenSeq(seqs)) /\ Len(FlattenSeq(seqs)) = 15 * n
         /\ \A k \in 1 .. n, o \in 1 .. 15 :
              FlattenSeq(seqs)[15 * (k - 1) + o] = seqs[k][o]
<1> DEFINE at(p) == seqs[((p - 1) \div 15) + 1][((p - 1) % 15) + 1]
           m == 15 * n
           s == [p \in 1 .. m |-> at(p)]
           c == [k \in 0 .. n |-> 15 * k]
           T == {at(p) : p \in 1 .. m}
<1>1. ASSUME NEW k \in 1 .. n, NEW o \in 1 .. 15
      PROVE  15 * (k - 1) + o \in 1 .. m /\ s[15 * (k - 1) + o] = seqs[k][o]
  <2> DEFINE p == 15 * (k - 1) + o
  <2>1. ((p - 1) \div 15) + 1 = k /\ ((p - 1) % 15) + 1 = o
    BY Residues
  <2>2. p \in 1 .. m
    BY BlockIsInside
  <2> HIDE DEF p, m
  <2>3. s[p] = seqs[k][o]
    BY <2>1, <2>2
  <2> QED
    BY <2>2, <2>3 DEF p
<1>2. m \in Nat
  OBVIOUS
<1>3. s \in [1 .. m -> T]
  OBVIOUS
<1> HIDE DEF s, T, at
<1>4. IsSequence(s) /\ Len(s) = m
  <2> HIDE DEF m
  <2>1. s \in Seq(T) /\ Len(s) = m
    BY <1>2, <1>3, FunctionIsSeq
  <2> QED
    BY <2>1, SeqIsSequence
<1>5. /\ c[0] = 0 /\ c[n] = Len(s) /\ \A k \in 0 .. n : c[k] \in 0 .. Len(s)
  BY <1>4
<1>6. \A k \in 1 .. n : c[k - 1] = 15 * (k - 1) /\ c[k - 1] + 15 = c[k]
  OBVIOUS
<1> HIDE DEF c
<1>7. ASSUME NEW k \in 1 .. n
      PROVE  /\ IsSequence(seqs[k]) /\ c[k - 1] + Len(seqs[k]) = c[k]
             /\ \A o \in 1 .. Len(seqs[k]) : seqs[k][o] = s[c[k - 1] + o]
  <2>1. IsSequence(seqs[k]) /\ Len(seqs[k]) = 15
    OBVIOUS
  <2>2. \A o \in 1 .. 15 : seqs[k][o] = s[c[k - 1] + o]
    <3> SUFFICES ASSUME NEW o \in 1 .. 15 PROVE seqs[k][o] = s[c[k - 1] + o]
      OBVIOUS
    <3>1. s[15 * (k - 1) + o] = seqs[k][o] /\ c[k - 1] = 15 * (k - 1)
      BY <1>1, <1>6
    <3> QED
      BY <3>1, Zenon
  <2> QED
    BY <1>6, <2>1, <2>2
<1>8. FlattenSeq(seqs) = s
  <2>1. Pieces(seqs, n, s, c)
    BY <1>4, <1>5, <1>7 DEF Pieces
  <2> QED
    BY <2>1, FlattenPieces
<1> QED
  BY <1>1, <1>4, <1>8

(* A subsequence, and what its places are.                                 *)
LEMMA SubSequence ==
  ASSUME NEW s, IsSequence(s), NEW a \in Nat, NEW b \in Nat, 1 <= a, b <= Len(s)
  PROVE  /\ IsSequence(SubSeq(s, a, b))
         /\ Len(SubSeq(s, a, b)) = IF a <= b THEN b - a + 1 ELSE 0
         /\ \A i \in 1 .. b - a + 1 : SubSeq(s, a, b)[i] = s[a + i - 1]
<1> DEFINE T == {s[i] : i \in DOMAIN s}
<1>1. s \in Seq(T) /\ Len(s) \in Nat /\ DOMAIN s = 1 .. Len(s)
  BY SequenceProperties DEF IsSequence
<1> HIDE DEF T
<1>2. /\ SubSeq(s, a, b) \in Seq(T)
      /\ Len(SubSeq(s, a, b)) = IF a <= b THEN b - a + 1 ELSE 0
      /\ \A i \in 1 .. b - a + 1 : SubSeq(s, a, b)[i] = s[a + i - 1]
  BY <1>1, SubSeqProperties
<1> QED
  BY <1>2, SeqIsSequence

(* Short sequences.                                                        *)
LEMMA ShortSequences ==
  /\ \A a : /\ IsSequence(<<a>>) /\ Len(<<a>>) = 1 /\ DOMAIN <<a>> = 1 .. 1
            /\ <<a>>[1] = a
  /\ \A a, b, c : /\ IsSequence(<<a, b, c>>) /\ Len(<<a, b, c>>) = 3
                  /\ DOMAIN <<a, b, c>> = 1 .. 3
  /\ \A s : IsSequence(s) /\ Len(s) = 1 => s = <<s[1]>>
  /\ \A s : IsSequence(s) /\ Len(s) = 2 => s = <<s[1], s[2]>>
  /\ \A s : IsSequence(s) /\ Len(s) = 3 => s = <<s[1], s[2], s[3]>>
  /\ \A s : IsSequence(s) /\ Len(s) = 7 => s = <<s[1], s[2], s[3], s[4], s[5], s[6], s[7]>>
  /\ \A s : IsSequence(s) /\ Len(s) = 8 =>
              s = <<s[1], s[2], s[3], s[4], s[5], s[6], s[7], s[8]>>
<1>1. \A s : IsSequence(s) => s = [i \in 1 .. Len(s) |-> s[i]]
  BY SequenceProperties, SequenceIsFunction
<1>2. \A a : /\ IsSequence(<<a>>) /\ Len(<<a>>) = 1 /\ DOMAIN <<a>> = 1 .. 1
            /\ <<a>>[1] = a
  BY DEF IsSequence
<1>3. \A a, b, c : /\ IsSequence(<<a, b, c>>) /\ Len(<<a, b, c>>) = 3
                   /\ DOMAIN <<a, b, c>> = 1 .. 3
  BY DEF IsSequence
<1>4. ASSUME NEW s, s = [i \in 1 .. 1 |-> s[i]] PROVE s = <<s[1]>>
  BY <1>4
<1>5. ASSUME NEW s, s = [i \in 1 .. 2 |-> s[i]] PROVE s = <<s[1], s[2]>>
  BY <1>5
<1>6. ASSUME NEW s, s = [i \in 1 .. 3 |-> s[i]] PROVE s = <<s[1], s[2], s[3]>>
  BY <1>6
<1>7. ASSUME NEW s, s = [i \in 1 .. 7 |-> s[i]]
      PROVE  s = <<s[1], s[2], s[3], s[4], s[5], s[6], s[7]>>
  BY <1>7
<1>8. ASSUME NEW s, s = [i \in 1 .. 8 |-> s[i]]
      PROVE  s = <<s[1], s[2], s[3], s[4], s[5], s[6], s[7], s[8]>>
  BY <1>8
<1> QED
  BY <1>1, <1>2, <1>3, <1>4, <1>5, <1>6, <1>7, <1>8

LEMMA TwoTokens ==
  ASSUME NEW s, IsSequence(s), NEW k \in Nat, k >= 1, NEW l, l = k + 1, l <= Len(s)
  PROVE  SubSeq(s, k, l) = <<s[k], s[l]>>
<1> DEFINE t == SubSeq(s, k, l)
<1>1. l \in Nat /\ 1 <= k
  OBVIOUS
<1>2. /\ IsSequence(t) /\ Len(t) = IF k <= l THEN l - k + 1 ELSE 0
      /\ \A i \in 1 .. l - k + 1 : t[i] = s[k + i - 1]
  BY <1>1, SubSequence
<1> HIDE DEF t
<1>3. Len(t) = 2 /\ t[1] = s[k] /\ t[2] = s[l]
  BY <1>1, <1>2
<1>4. t = <<s[k], s[l]>>
  BY <1>2, <1>3, ShortSequences
<1> QED
  BY <1>4 DEF t

LEMMA OneToken ==
  ASSUME NEW s, IsSequence(s), NEW k \in 1 .. Len(s)
  PROVE  SubSeq(s, k, k) = <<s[k]>>
<1> DEFINE t == SubSeq(s, k, k)
<1>1. Len(s) \in Nat /\ k \in Nat /\ 1 <= k /\ k <= Len(s)
  BY SequenceProperties
<1>2. /\ IsSequence(t) /\ Len(t) = IF k <= k THEN k - k + 1 ELSE 0
      /\ \A i \in 1 .. k - k + 1 : t[i] = s[k + i - 1]
  BY <1>1, SubSequence
<1> HIDE DEF t
<1>3. Len(t) = 1 /\ t[1] = s[k]
  BY <1>1, <1>2
<1>4. t = <<s[k]>>
  BY <1>2, <1>3, ShortSequences
<1> QED
  BY <1>4 DEF t

LEMMA TailIs ==
  ASSUME NEW s, IsSequence(s), Len(s) >= 1
  PROVE  /\ IsSequence(Tail(s)) /\ Len(Tail(s)) = Len(s) - 1
         /\ \A i \in 1 .. Len(s) - 1 : Tail(s)[i] = s[i + 1]
<1> DEFINE T == {s[i] : i \in DOMAIN s}
<1>1. s \in Seq(T) /\ Len(s) \in Nat /\ s # << >>
  BY SequenceProperties DEF IsSequence
<1> HIDE DEF T
<1>2. /\ Tail(s) \in Seq(T) /\ Len(Tail(s)) = Len(s) - 1
      /\ \A i \in 1 .. Len(Tail(s)) : Tail(s)[i] = s[i + 1]
  BY <1>1, HeadTailProperties
<1> QED
  BY <1>1, <1>2, SeqIsSequence

(* What is no cut is in a part.                                            *)
LEMMA RankIsMonotone ==
  ASSUME NEW n \in Nat, NEW places \in SUBSET (1 .. n), NEW a \in 0 .. n, NEW b \in 0 .. n,
         a <= b
  PROVE  /\ Rank(places, a) <= Rank(places, b)
         /\ b \in places /\ a < b => Rank(places, a) < Rank(places, b)
<1> DEFINE Upto(i) == {j \in places : j <= i}
<1>1. ASSUME NEW x \in 0 .. n, NEW y \in 0 .. n, x <= y
      PROVE  Cardinality(Upto(x)) <= Cardinality(Upto(y))
  <2>1. Upto(x) \subseteq Upto(y)
    <3>1. \A j \in places : j <= x => j <= y
      <4>1. \A j \in places : j \in Nat
        OBVIOUS
      <4> QED
        BY <1>1, <4>1
    <3> QED
      BY <3>1, Zenon
  <2>2. IsFiniteSet(Upto(y))
    BY RankProperties
  <2> HIDE DEF Upto
  <2> QED
    BY <2>1, <2>2, FS_Subset
<1>2. \A x \in 0 .. n, y \in 0 .. n : x <= y => Rank(places, x) <= Rank(places, y)
  BY <1>1 DEF Rank
<1>3. ASSUME b \in places, a < b PROVE Rank(places, a) < Rank(places, b)
  <2>1. b - 1 \in 0 .. n /\ a <= b - 1 /\ b \in 1 .. n
    BY <1>3
  <2>2. /\ Rank(places, a) <= Rank(places, b - 1)
        /\ Rank(places, b) = Rank(places, b - 1) + 1
        /\ Rank(places, b - 1) \in 0 .. Cardinality(places)
        /\ Rank(places, a) \in 0 .. Cardinality(places)
        /\ Cardinality(places) \in Nat
    BY <1>2, <1>3, <2>1, RankProperties
  <2> QED
    BY <2>2
<1> QED
  BY <1>2, <1>3

LEMMA MaxIs ==
  ASSUME NEW S \in SUBSET Nat, NEW m \in S, \A y \in S : y <= m
  PROVE  Max(S) = m
<1>1. Max(S) \in S /\ \A y \in S : Max(S) >= y
  BY DEF Max
<1>2. Max(S) \in Nat /\ m \in Nat /\ Max(S) <= m /\ m <= Max(S)
  BY <1>1
<1> HIDE DEF Max
<1> QED
  BY <1>2

LEMMA ThreeTokens ==
  ASSUME NEW s, IsSequence(s), NEW k \in Nat, k >= 1, NEW l, l = k + 2, l <= Len(s)
  PROVE  SubSeq(s, k, l) = <<s[k], s[k + 1], s[l]>>
<1> DEFINE t == SubSeq(s, k, l)
<1>1. l \in Nat /\ 1 <= k
  OBVIOUS
<1>2. /\ IsSequence(t) /\ Len(t) = IF k <= l THEN l - k + 1 ELSE 0
      /\ \A i \in 1 .. l - k + 1 : t[i] = s[k + i - 1]
  BY <1>1, SubSequence
<1> HIDE DEF t
<1>3. Len(t) = 3 /\ t[1] = s[k] /\ t[2] = s[k + 1] /\ t[3] = s[l]
  BY <1>1, <1>2
<1>4. t = <<s[k], s[k + 1], s[l]>>
  BY <1>2, <1>3, ShortSequences
<1> QED
  BY <1>4 DEF t

LEMMA PlaceInTriple ==
  ASSUME NEW n \in Nat, NEW j \in 1 .. 3 * n
  PROVE  \E k \in 1 .. n, o \in 1 .. 3 : j = 3 * (k - 1) + o
<1> DEFINE q == ((j - 1) \div 3) + 1
           p == ((j - 1) % 3) + 1
<1>1. q \in 1 .. n /\ p \in 1 .. 3 /\ j = 3 * (q - 1) + p
  OBVIOUS
<1> QED
  BY <1>1

LEMMA OneBeforeSix ==
  \A a, b, c, d, e, f, g : <<a>> \o <<b, c, d, e, f, g>> = <<a, b, c, d, e, f, g>>
<1> SUFFICES ASSUME NEW a, NEW b, NEW c, NEW d, NEW e, NEW f, NEW g
             PROVE  <<a>> \o <<b, c, d, e, f, g>> = <<a, b, c, d, e, f, g>>
  OBVIOUS
<1> DEFINE s == <<a>>
           t == <<b, c, d, e, f, g>>
<1>1. /\ IsSequence(s) /\ Len(s) = 1 /\ s[1] = a
      /\ IsSequence(t) /\ Len(t) = 6
      /\ t[1] = b /\ t[2] = c /\ t[3] = d /\ t[4] = e /\ t[5] = f /\ t[6] = g
  BY DEF IsSequence
<1> HIDE DEF s, t
<1> DEFINE u == s \o t
<1>2. /\ IsSequence(u) /\ Len(u) = Len(s) + Len(t)
      /\ \A i \in 1 .. Len(s) + Len(t) :
           u[i] = IF i <= Len(s) THEN s[i] ELSE t[i - Len(s)]
  BY <1>1, ConcatIsSequence
<1> HIDE DEF u
<1>3. /\ Len(u) = 7 /\ u[1] = a /\ u[2] = b /\ u[3] = c /\ u[4] = d
      /\ u[5] = e /\ u[6] = f /\ u[7] = g
  BY <1>1, <1>2
<1>4. u = <<u[1], u[2], u[3], u[4], u[5], u[6], u[7]>>
  BY <1>2, <1>3, ShortSequences
<1> QED
  BY <1>3, <1>4, Zenon DEF u, s, t

(* Cuts in their order, between the ends of the sequence.                  *)
CutsAre(s, cuts, m, c) ==
  /\ m \in Nat /\ Cardinality(cuts) = m /\ c[0] = 0 /\ c[m + 1] = Len(s) + 1
  /\ \A k \in 1 .. m : c[k] \in cuts /\ Rank(cuts, c[k]) = k
  /\ \A k \in 1 .. m + 1 : c[k - 1] \in Nat /\ c[k] \in Nat /\ c[k - 1] < c[k]
  /\ \A k \in 0 .. m + 1 : c[k] \in 0 .. Len(s) + 1

LEMMA CutsIncrease ==
  ASSUME NEW s, IsSequence(s), NEW cuts \in SUBSET (DOMAIN s)
  PROVE  \E m, c : CutsAre(s, cuts, m, c)
<1>1. PICK l \in Nat : l = Len(s) /\ DOMAIN s = 1 .. l
  BY SequenceProperties
<1>2. PICK m \in Nat : m = Cardinality(cuts)
  BY <1>1, RankProperties
<1> DEFINE c == [k \in 0 .. m + 1 |-> CASE k = 0 -> 0 [] k = m + 1 -> l + 1
                                         [] OTHER -> Nth(cuts, k)]
<1>3. /\ c[0] = 0 /\ c[m + 1] = Len(s) + 1
      /\ \A k \in 1 .. m : c[k] = Nth(cuts, k)
  <2>1. m + 1 # 0 /\ \A k \in 1 .. m : k # 0 /\ k # m + 1 /\ k \in 0 .. m + 1
    OBVIOUS
  <2> QED
    BY <1>1, <2>1
<1> HIDE DEF c
<1>4. \A k \in 1 .. m : c[k] \in cuts /\ Rank(cuts, c[k]) = k
  <2>1. \A k \in 1 .. m : Nth(cuts, k) \in cuts /\ Rank(cuts, Nth(cuts, k)) = k
    <3>1. cuts \in SUBSET (1 .. l)
      BY <1>1
    <3> QED
      BY <1>2, <3>1, NthIsAPlace
  <2> QED
    BY <1>3, <2>1
<1>5. \A k \in 1 .. m : c[k] \in 1 .. l
  BY <1>1, <1>4
<1>6. ASSUME NEW k \in 0 .. m + 1 PROVE c[k] \in 0 .. Len(s) + 1
  <2>1. k = 0 \/ k \in 1 .. m \/ k = m + 1
    BY <1>2
  <2> QED
    BY <1>1, <1>3, <1>5, <2>1
<1>7. ASSUME NEW k \in 1 .. m + 1 PROVE c[k - 1] \in Nat /\ c[k] \in Nat /\ c[k - 1] < c[k]
  <2>1. k \in 0 .. m + 1 /\ k - 1 \in 0 .. m + 1
    BY <1>2
  <2>2. c[k] \in 0 .. l + 1 /\ c[k - 1] \in 0 .. l + 1
    BY <1>1, <1>6, <2>1
  <2>3. CASE k = 1
    <3>1. k = m + 1 \/ k \in 1 .. m
      BY <1>2
    <3>2. c[k] >= 1
      BY <1>1, <1>3, <1>5, <3>1
    <3>3. c[k - 1] = 0
      BY <1>3, <2>3
    <3> QED
      BY <2>2, <3>2, <3>3
  <2>4. CASE k = m + 1 /\ k # 1
    <3>1. k - 1 \in 1 .. m
      BY <1>2, <2>4
    <3>2. c[k - 1] <= l
      BY <1>5, <3>1
    <3>3. c[k] = l + 1
      BY <1>1, <1>3, <2>4
    <3> QED
      BY <2>2, <3>2, <3>3
  <2>5. CASE k # m + 1 /\ k # 1
    <3>1. k - 1 \in 1 .. m /\ k \in 1 .. m
      BY <1>2, <2>5
    <3>2. Rank(cuts, c[k - 1]) = k - 1 /\ Rank(cuts, c[k]) = k
      BY <1>4, <3>1
    <3>3. ~ (c[k] <= c[k - 1])
      <4>1. CASE c[k] <= c[k - 1]
        <5>1. cuts \in SUBSET (1 .. l) /\ c[k] \in 0 .. l /\ c[k - 1] \in 0 .. l
          BY <1>1, <1>5, <3>1
        <5>2. Rank(cuts, c[k]) <= Rank(cuts, c[k - 1])
          BY <4>1, <5>1, RankIsMonotone
        <5> QED
          BY <3>2, <5>2
      <4> QED
        BY <4>1
    <3> QED
      BY <2>2, <3>3
  <2> QED
    BY <2>2, <2>3, <2>4, <2>5
<1>8. CutsAre(s, cuts, m, c)
  BY <1>2, <1>3, <1>4, <1>6, <1>7 DEF CutsAre
<1> QED
  BY <1>8
=============================================================================
