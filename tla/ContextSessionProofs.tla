-------------------------- MODULE ContextSessionProofs --------------------------
(***************************************************************************)
(* Proofs about ContextSession: type correctness and every safety property  *)
(* of the compaction of a session's requests.  First what the operators of  *)
(* HistoryCompaction return for every history and every list (the picked    *)
(* places, the lists of directives and facts, the cut and the folded body), *)
(* then the invariants of the requests that run side by side.               *)
(***************************************************************************)
EXTENDS ContextSession, FiniteSetTheorems, SequenceTheorems, TLAPS

-----------------------------------------------------------------------------
(* Places of a sequence.                                                    *)

LEMMA LeastNat ==
  ASSUME NEW T \in SUBSET Nat, T # {}
  PROVE  \E x \in T : \A y \in T : x <= y
  <1>1. PICK x \in T : \A y \in T : ~ (<<y, x>> \in OpToRel(<, Nat))
    <2> DEFINE R == OpToRel(<, Nat)
    <2> HIDE DEF R
    <2>1. IsWellFoundedOn(R, Nat)
      BY NatLessThanWellFounded DEF R
    <2>2. \E x \in T : \A y \in T : ~ (<<y, x>> \in R)
      BY <2>1, WFMin
    <2>3. QED BY <2>2 DEF R
  <1>2. ASSUME NEW y \in T PROVE x <= y
    <2>1. ~(y < x)
      BY <1>1 DEF OpToRel
    <2>2. QED BY <2>1
  <1>3. QED BY <1>2

LEMMA FullInterval ==
  ASSUME NEW m \in Nat, NEW T, 0 \in T,
         \A n \in 0..(m - 1) : n \in T => n + 1 \in T
  PROVE  0..m \subseteq T
  <1> DEFINE U == (0..m) \ T
  <1>1. SUFFICES ASSUME U # {} PROVE FALSE
    OBVIOUS
  <1>2. PICK x \in U : \A y \in U : x <= y
    <2>1. U \in SUBSET Nat
      OBVIOUS
    <2> HIDE DEF U
    <2>2. QED BY <1>1, <2>1, LeastNat
  <1>3. x # 0 /\ x \in 0..m
    OBVIOUS
  <1>4. x - 1 \in 0..(m - 1) /\ x - 1 \notin U
    BY <1>2, <1>3
  <1>5. x - 1 \in T
    BY <1>4
  <1>6. x \in T
    BY <1>4, <1>5, <1>3
  <1>7. QED BY <1>6

LEMMA MinIn ==
  ASSUME NEW S \in SUBSET Nat, S # {}
  PROVE  Min(S) \in S /\ \A y \in S : Min(S) <= y
  BY LeastNat DEF Min

LEMMA MaxIn ==
  ASSUME NEW S \in SUBSET Nat, S # {}, NEW n \in Nat, \A x \in S : x <= n
  PROVE  Max(S) \in S /\ \A y \in S : y <= Max(S)
  <1> DEFINE T == {n - x : x \in S}
  <1>1. T \in SUBSET Nat
    <2>1. \A x \in S : n - x \in Nat
      OBVIOUS
    <2>2. QED BY <2>1
  <1>2. T # {}
    OBVIOUS
  <1>3. PICK y \in T : \A z \in T : y <= z
    <2> HIDE DEF T
    <2>1. QED BY <1>1, <1>2, LeastNat
  <1>4. PICK x \in S : y = n - x
    OBVIOUS
  <1>5. \A z \in S : z <= x
    <2>1. TAKE z \in S
    <2>2. n - x <= n - z
      BY <1>3, <1>4
    <2>3. QED BY <2>2
  <1>6. QED BY <1>5 DEF Max

\* The rank of a place: how many of the places are not after it.
Rank(places, i) == Cardinality({j \in places : j <= i})

LEMMA PlacesFinite ==
  ASSUME NEW n \in Nat, NEW I \in SUBSET (1..n)
  PROVE  IsFiniteSet(I) /\ Cardinality(I) \in Nat
  BY FS_Interval, FS_Subset, FS_CardinalityType, 1 \in Int, n \in Int

LEMMA RankType ==
  ASSUME NEW n \in Nat, NEW I \in SUBSET (1..n), NEW i \in I
  PROVE  Rank(I, i) \in 1..Cardinality(I)
  <1> DEFINE A == {j \in I : j <= i}
  <1>1. A \in SUBSET I /\ A # {}
    OBVIOUS
  <1> HIDE DEF A
  <1>2. /\ IsFiniteSet(A) /\ Cardinality(A) \in Nat
        /\ Cardinality(A) <= Cardinality(I)
    BY <1>1, PlacesFinite, FS_Subset, FS_CardinalityType
  <1>3. Cardinality(A) # 0
    BY <1>1, <1>2, FS_EmptySet
  <1>4. Cardinality(A) \in 1..Cardinality(I)
    BY <1>2, <1>3, PlacesFinite
  <1>5. QED BY <1>4 DEF A, Rank

LEMMA RankGrows ==
  ASSUME NEW n \in Nat, NEW I \in SUBSET (1..n), NEW i \in I, NEW l \in I, i < l
  PROVE  Rank(I, i) < Rank(I, l)
  <1> DEFINE A == {j \in I : j <= i}
             B == {j \in I : j <= l}
  <1>1. A \in SUBSET B /\ B \in SUBSET I
    <2>1. ASSUME NEW j \in A PROVE j \in B
      <3>1. j \in I /\ j <= i /\ j \in Int /\ i \in Int /\ l \in Int
        OBVIOUS
      <3>2. j <= l
        BY <3>1
      <3>3. QED BY <3>1, <3>2
    <2>2. QED BY <2>1
  <1>2. l \in B /\ l \notin A
    OBVIOUS
  <1>3. Rank(I, i) = Cardinality(A) /\ Rank(I, l) = Cardinality(B)
    BY DEF Rank
  <1> HIDE DEF A, B
  <1>4. IsFiniteSet(B) /\ Cardinality(B) \in Nat
    BY <1>1, PlacesFinite, FS_Subset, FS_CardinalityType
  <1>5. /\ Cardinality(A) <= Cardinality(B) /\ Cardinality(A) \in Nat
        /\ Cardinality(B) = Cardinality(A) => B = A
    BY <1>1, <1>4, FS_Subset, FS_CardinalityType
  <1>6. QED BY <1>2, <1>3, <1>4, <1>5

LEMMA RankHit ==
  ASSUME NEW n \in Nat, NEW I \in SUBSET (1..n), NEW k \in 1..Cardinality(I)
  PROVE  \E i \in I : Rank(I, i) = k
  <1> DEFINE rank == [i \in I |-> Rank(I, i)]
             T == 1..Cardinality(I)
  <1>1. rank \in [I -> T]
    BY RankType
  <1>2. \A i, l \in I : rank[i] = rank[l] => i = l
    <2>1. TAKE i, l \in I
    <2>2. rank[i] = Rank(I, i) /\ rank[l] = Rank(I, l)
      OBVIOUS
    <2> HIDE DEF rank, T
    <2>3. i \in Nat /\ l \in Nat
      OBVIOUS
    <2>4. Rank(I, i) \in Nat /\ Rank(I, l) \in Nat
      <3>1. Rank(I, i) \in 1..Cardinality(I) /\ Rank(I, l) \in 1..Cardinality(I)
        BY RankType
      <3>2. QED BY <3>1, PlacesFinite
    <2>5. i < l => Rank(I, i) < Rank(I, l)
      BY RankGrows
    <2>6. l < i => Rank(I, l) < Rank(I, i)
      BY RankGrows
    <2>7. QED BY <2>2, <2>3, <2>4, <2>5, <2>6
  <1>3. IsFiniteSet(T) /\ Cardinality(T) = Cardinality(I)
    <2>1. Cardinality(I) \in Nat
      BY PlacesFinite
    <2>2. QED BY <2>1, FS_Interval
  <1>4. \A l \in T : \E i \in I : rank[i] = l
    <2> HIDE DEF rank, T
    <2>1. rank \in Injection(I, T)
      BY <1>1, <1>2 DEF Injection, IsInjective
    <2>2. rank \in Surjection(I, T)
      BY <2>1, <1>3, PlacesFinite, FS_Injection
    <2>3. QED BY <2>2 DEF Surjection
  <1>5. QED BY <1>4

LEMMA NthPlace ==
  ASSUME NEW n \in Nat, NEW I \in SUBSET (1..n), NEW k \in 1..Cardinality(I)
  PROVE  Nth(I, k) \in I /\ Rank(I, Nth(I, k)) = k
  <1>1. Nth(I, k) = CHOOSE i \in I : Rank(I, i) = k
    BY DEF Nth, Rank
  <1>2. QED BY <1>1, RankHit

LEMMA NthOfRank ==
  ASSUME NEW n \in Nat, NEW I \in SUBSET (1..n), NEW i \in I
  PROVE  Rank(I, i) \in 1..Cardinality(I) /\ Nth(I, Rank(I, i)) = i
  <1>1. Rank(I, i) \in 1..Cardinality(I)
    BY RankType
  <1>2. PICK l : l = Nth(I, Rank(I, i))
    OBVIOUS
  <1>3. l \in I /\ Rank(I, l) = Rank(I, i)
    BY <1>1, <1>2, NthPlace
  <1>4. i \in Nat /\ l \in Nat /\ Rank(I, i) \in Nat
    BY <1>1, <1>3, PlacesFinite
  <1>5. i < l => Rank(I, i) < Rank(I, l)
    BY <1>3, RankGrows
  <1>6. l < i => Rank(I, l) < Rank(I, i)
    BY <1>3, RankGrows
  <1>7. QED BY <1>1, <1>2, <1>3, <1>4, <1>5, <1>6

LEMMA NthGrows ==
  ASSUME NEW n \in Nat, NEW I \in SUBSET (1..n),
         NEW k \in 1..Cardinality(I), NEW l \in 1..Cardinality(I), k < l
  PROVE  Nth(I, k) < Nth(I, l)
  <1>1. PICK a : a = Nth(I, k)
    OBVIOUS
  <1>2. PICK b : b = Nth(I, l)
    OBVIOUS
  <1>3. a \in I /\ Rank(I, a) = k /\ b \in I /\ Rank(I, b) = l
    BY <1>1, <1>2, NthPlace
  <1>4. k \in Nat /\ l \in Nat /\ a \in Nat /\ b \in Nat
    BY <1>3, PlacesFinite
  <1>5. ~(b < a)
    <2>1. b < a => Rank(I, b) < Rank(I, a)
      BY <1>3, RankGrows
    <2>2. QED BY <2>1, <1>3, <1>4
  <1>6. QED BY <1>1, <1>2, <1>3, <1>4, <1>5

-----------------------------------------------------------------------------
(* What is picked of a sequence.                                            *)

LEMMA PickedFacts ==
  ASSUME NEW S, NEW s \in Seq(S), NEW I \in SUBSET (DOMAIN s)
  PROVE  /\ Picked(s, I) \in Seq(S)
         /\ Cardinality(I) \in Nat
         /\ Len(Picked(s, I)) = Cardinality(I)
         /\ DOMAIN Picked(s, I) = 1..Cardinality(I)
         /\ \A k \in 1..Cardinality(I) :
              Nth(I, k) \in I /\ Picked(s, I)[k] = s[Nth(I, k)]
         /\ ToSet(Picked(s, I)) = {s[i] : i \in I}
  <1> DEFINE p == Picked(s, I)
             m == Cardinality(I)
  <1>1. Len(s) \in Nat /\ I \in SUBSET (1..Len(s))
    BY LenProperties
  <1>2. m \in Nat
    BY <1>1, PlacesFinite
  <1>3. \A k \in 1..m : Nth(I, k) \in I
    BY <1>1, NthPlace
  <1>4. \A k \in 1..m : s[Nth(I, k)] \in S
    BY <1>1, <1>3, ElementOfSeq
  <1>5. p = [k \in 1..m |-> s[Nth(I, k)]]
    BY DEF Picked
  <1>6. p \in [1..m -> S]
    BY <1>4, <1>5
  <1>7. p \in Seq(S) /\ DOMAIN p = 1..m /\ Len(p) = m
    <2>1. p \in Seq(S) /\ DOMAIN p = 1..m
      <3> HIDE DEF p, m
      <3>1. QED BY <1>2, <1>6, SeqDef
    <2> HIDE DEF p, m
    <2>2. Len(p) \in Nat /\ DOMAIN p = 1..Len(p)
      BY <2>1, LenProperties
    <2>3. QED BY <2>1, <2>2, <1>2
  <1>8. \A k \in 1..m : p[k] = s[Nth(I, k)]
    BY <1>5
  <1>9. \A i \in I : \E k \in 1..m : Nth(I, k) = i
    BY <1>1, NthOfRank
  <1>10. ToSet(p) = {s[i] : i \in I}
    <2> HIDE DEF p, m
    <2>1. ASSUME NEW x \in ToSet(p) PROVE x \in {s[i] : i \in I}
      <3>1. PICK k \in 1..m : x = p[k]
        BY <1>7 DEF ToSet
      <3>2. QED BY <3>1, <1>3, <1>8
    <2>2. ASSUME NEW i \in I PROVE s[i] \in ToSet(p)
      <3>1. PICK k \in 1..m : Nth(I, k) = i
        BY <1>9
      <3>2. p[k] = s[i] /\ k \in DOMAIN p
        BY <3>1, <1>7, <1>8
      <3>3. QED BY <3>2 DEF ToSet
    <2>3. QED BY <2>1, <2>2
  <1>11. QED BY <1>2, <1>3, <1>7, <1>8, <1>10

LEMMA NthOfAll ==
  ASSUME NEW n \in Nat, NEW k \in 1..n
  PROVE  Cardinality(1..n) = n /\ Nth(1..n, k) = k
  <1>1. Cardinality(1..n) = n
    BY FS_Interval
  <1>2. {j \in 1..n : j <= k} = 1..k
    OBVIOUS
  <1>3. Rank(1..n, k) = k
    <2>1. Cardinality(1..k) = k
      BY FS_Interval
    <2>2. QED BY <1>2, <2>1 DEF Rank
  <1>4. QED BY <1>1, <1>3, NthOfRank

LEMMA PickedAll ==
  ASSUME NEW S, NEW s \in Seq(S)
  PROVE  Picked(s, DOMAIN s) = s
  <1> DEFINE p == Picked(s, DOMAIN s)
  <1>1. Len(s) \in Nat /\ DOMAIN s = 1..Len(s)
    BY LenProperties
  <1>2. Cardinality(DOMAIN s) = Len(s)
    BY <1>1, FS_Interval, SMTT(30)
  <1>3. p \in Seq(S) /\ Len(p) = Len(s)
    BY <1>2, PickedFacts
  <1>4. \A k \in 1..Len(s) : p[k] = s[k]
    BY <1>1, <1>2, NthOfAll, PickedFacts
  <1>5. QED
    <2> HIDE DEF p
    <2>1. p = s
      BY <1>1, <1>3, <1>4, SeqEqual
    <2>2. QED BY <2>1 DEF p

LEMMA MaxOfTwo ==
  ASSUME NEW a \in Int, NEW b \in Int
  PROVE  Max({a, b}) = IF a >= b THEN a ELSE b
  <1> DEFINE m == IF a >= b THEN a ELSE b
  <1>1. m \in {a, b} /\ \A y \in {a, b} : m >= y
    OBVIOUS
  <1>2. \A x \in {a, b} : (\A y \in {a, b} : x >= y) => x = m
    OBVIOUS
  <1> HIDE DEF m
  <1>3. Max({a, b}) = m
    BY <1>1, <1>2 DEF Max
  <1>4. QED BY <1>3 DEF m

\* No element comes twice.
NoRepeat(s) == \A i, j \in DOMAIN s : s[i] = s[j] => i = j

LEMMA LastFewFacts ==
  ASSUME NEW S, NEW s \in Seq(S), NEW n \in Nat \ {0}
  PROVE  /\ LastFew(s, n) \in Seq(S)
         /\ ToSet(LastFew(s, n)) \subseteq ToSet(s)
         /\ Len(LastFew(s, n)) <= n
         /\ s # <<>> => /\ LastFew(s, n) # <<>>
                        /\ LastFew(s, n)[Len(LastFew(s, n))] = s[Len(s)]
         /\ Len(s) <= n => LastFew(s, n) = s
         /\ NoRepeat(s) => NoRepeat(LastFew(s, n))
  <1>1. Len(s) \in Nat /\ DOMAIN s = 1..Len(s)
    BY LenProperties
  <1>2. PICK m : m = Max({1, Len(s) - n + 1})
    OBVIOUS
  <1>3. m = IF 1 >= Len(s) - n + 1 THEN 1 ELSE Len(s) - n + 1
    BY <1>1, <1>2, MaxOfTwo
  <1>4. m \in Nat /\ m >= 1 /\ m >= Len(s) - n + 1 /\ m <= Len(s) + 1
    BY <1>1, <1>3
  <1>5. PICK t : t = SubSeq(s, m, Len(s))
    OBVIOUS
  <1>6. t = LastFew(s, n)
    BY <1>2, <1>5 DEF LastFew
  <1>7. \A i \in m..Len(s) : s[i] \in S
    BY <1>1, <1>4, ElementOfSeq
  <1>8. /\ t \in Seq(S)
        /\ Len(t) = Len(s) - m + 1
        /\ \A i \in 1..(Len(s) - m + 1) : t[i] = s[m + i - 1]
    BY <1>1, <1>4, <1>5, <1>7, SubSeqProperties
  <1>9. DOMAIN t = 1..Len(t)
    BY <1>8, LenProperties
  <1>10. ToSet(t) \subseteq ToSet(s)
    <2>1. \A i \in DOMAIN t : m + i - 1 \in DOMAIN s /\ t[i] = s[m + i - 1]
      BY <1>1, <1>4, <1>8, <1>9
    <2>2. QED BY <2>1 DEF ToSet
  <1>11. Len(t) <= n
    BY <1>1, <1>4, <1>8
  <1>12. s # <<>> => t # <<>> /\ t[Len(t)] = s[Len(s)]
    <2>1. SUFFICES ASSUME s # <<>> PROVE t # <<>> /\ t[Len(t)] = s[Len(s)]
      OBVIOUS
    <2>2. Len(s) >= 1
      BY <2>1, <1>1, EmptySeq
    <2>3. Len(t) >= 1
      BY <2>2, <1>1, <1>3, <1>8
    <2>4. t # <<>>
      BY <2>3
    <2>5. t[Len(t)] = s[Len(s)]
      BY <2>3, <1>1, <1>4, <1>8
    <2>6. QED BY <2>4, <2>5
  <1>13. Len(s) <= n => t = s
    <2>1. Len(s) <= n => m = 1
      BY <1>1, <1>3
    <2>2. SubSeq(s, 1, Len(s)) = s
      BY SubSeqFull
    <2>3. QED BY <2>1, <2>2, <1>5
  <1>14. NoRepeat(s) => NoRepeat(t)
    <2>1. \A i \in DOMAIN t : /\ m + i - 1 \in DOMAIN s /\ t[i] = s[m + i - 1]
                              /\ i \in Int
      BY <1>1, <1>4, <1>8, <1>9
    <2>2. \A i, j \in DOMAIN t : m + i - 1 = m + j - 1 => i = j
      BY <2>1, <1>4
    <2>3. QED BY <2>1, <2>2 DEF NoRepeat
  <1>15. QED BY <1>6, <1>8, <1>10, <1>11, <1>12, <1>13, <1>14

LEMMA ToSetConcat ==
  ASSUME NEW S, NEW s \in Seq(S), NEW t \in Seq(S)
  PROVE  /\ s \o t \in Seq(S)
         /\ ToSet(s \o t) = ToSet(s) \cup ToSet(t)
  <1>1. /\ s \o t \in Seq(S)
        /\ Len(s \o t) = Len(s) + Len(t)
        /\ \A i \in 1..Len(s) + Len(t) :
             (s \o t)[i] = IF i <= Len(s) THEN s[i] ELSE t[i - Len(s)]
    BY ConcatProperties
  <1>2. /\ Len(s) \in Nat /\ DOMAIN s = 1..Len(s)
        /\ Len(t) \in Nat /\ DOMAIN t = 1..Len(t)
        /\ DOMAIN (s \o t) = 1..(Len(s) + Len(t))
    BY <1>1, LenProperties
  <1>3. PICK u : u = s \o t
    OBVIOUS
  <1>4. \A i \in DOMAIN u : \/ i \in DOMAIN s /\ u[i] = s[i]
                            \/ i - Len(s) \in DOMAIN t /\ u[i] = t[i - Len(s)]
    BY <1>1, <1>2, <1>3
  <1>5. \A i \in DOMAIN s : i \in DOMAIN u /\ u[i] = s[i]
    BY <1>1, <1>2, <1>3
  <1>6. \A i \in DOMAIN t : i + Len(s) \in DOMAIN u /\ u[i + Len(s)] = t[i]
    BY <1>1, <1>2, <1>3
  <1>7. ToSet(u) = ToSet(s) \cup ToSet(t)
    BY <1>4, <1>5, <1>6 DEF ToSet
  <1>8. QED BY <1>1, <1>3, <1>7

-----------------------------------------------------------------------------
(* The durable facts.                                                       *)

LEMMA AppendedSet ==
  ASSUME NEW S, NEW s \in Seq(S), NEW x \in S
  PROVE  /\ Append(s, x) \in Seq(S)
         /\ Len(Append(s, x)) \in Nat
         /\ ToSet(Append(s, x)) = ToSet(s) \cup {x}
         /\ NoRepeat(s) /\ x \notin ToSet(s) => NoRepeat(Append(s, x))
  <1>0. PICK t : t = Append(s, x)
    OBVIOUS
  <1>1. /\ t \in Seq(S) /\ Len(t) = Len(s) + 1
        /\ \A i \in 1..Len(s) : t[i] = s[i]
        /\ t[Len(s) + 1] = x
    BY <1>0, AppendProperties
  <1>2. /\ DOMAIN t = 1..(Len(s) + 1) /\ DOMAIN s = 1..Len(s) /\ Len(s) \in Nat
    BY <1>1, LenProperties
  <1>3. DOMAIN t = DOMAIN s \cup {Len(s) + 1}
    BY <1>2
  <1>4. ToSet(t) = ToSet(s) \cup {x}
    BY <1>1, <1>2, <1>3 DEF ToSet
  <1>5. NoRepeat(s) /\ x \notin ToSet(s) => NoRepeat(t)
    BY <1>1, <1>2, <1>3 DEF ToSet, NoRepeat
  <1>6. QED BY <1>0, <1>1, <1>2, <1>4, <1>5

LEMMA AddFactFacts ==
  ASSUME NEW S, NEW facts \in Seq(S), NEW fact \in S
  PROVE  /\ AddFact(facts, fact) \in Seq(S)
         /\ ToSet(AddFact(facts, fact)) \subseteq ToSet(facts) \cup {fact}
         /\ NoRepeat(facts) => NoRepeat(AddFact(facts, fact))
  <1>1. CASE fact \in ToSet(facts)
    BY <1>1 DEF AddFact
  <1>2. CASE fact \notin ToSet(facts)
    <2>1. PICK t : t = Append(facts, fact)
      OBVIOUS
    <2>2. AddFact(facts, fact) = LastFew(t, FactLimit)
      BY <1>2, <2>1 DEF AddFact
    <2>0. /\ Append(facts, fact) \in Seq(S)
          /\ Len(Append(facts, fact)) \in Nat
          /\ ToSet(Append(facts, fact)) = ToSet(facts) \cup {fact}
          /\ NoRepeat(facts) => NoRepeat(Append(facts, fact))
      BY <1>2, AppendedSet, ZenonT(60)
    <2>3. FactLimit \in Nat \ {0}
      BY CompactionAssumption
    <2>4. /\ t \in Seq(S) /\ ToSet(t) = ToSet(facts) \cup {fact}
          /\ NoRepeat(facts) => NoRepeat(t)
      BY <2>0, <2>1
    <2>5. QED BY <2>2, <2>3, <2>4, LastFewFacts
  <1>3. QED BY <1>1, <1>2

LEMMA LenOfDistinct ==
  ASSUME NEW S, NEW s \in Seq(S), NoRepeat(s),
         NEW D, IsFiniteSet(D), ToSet(s) \subseteq D
  PROVE  Len(s) <= Cardinality(D)
  <1>1. Len(s) \in Nat /\ DOMAIN s = 1..Len(s) /\ s \in [1..Len(s) -> S]
    BY LenProperties
  <1>2. s \in [1..Len(s) -> D]
    BY <1>1 DEF ToSet
  <1>3. s \in Injection(1..Len(s), D)
    BY <1>1, <1>2 DEF NoRepeat, Injection, IsInjective
  <1>4. Cardinality(1..Len(s)) <= Cardinality(D)
    BY <1>3, FS_Injection
  <1>5. Cardinality(1..Len(s)) = Len(s)
    BY <1>1, FS_Interval, SMTT(30)
  <1>6. QED BY <1>4, <1>5

LEMMA AddFactKeeps ==
  ASSUME NEW S, NEW facts \in Seq(S), NEW fact \in S, NoRepeat(facts),
         NEW D, IsFiniteSet(D), Cardinality(D) <= FactLimit,
         ToSet(facts) \subseteq D, fact \in D
  PROVE  ToSet(AddFact(facts, fact)) = ToSet(facts) \cup {fact}
  <1>1. CASE fact \in ToSet(facts)
    BY <1>1 DEF AddFact
  <1>2. CASE fact \notin ToSet(facts)
    <2>1. PICK t : t = Append(facts, fact)
      OBVIOUS
    <2>2. AddFact(facts, fact) = LastFew(t, FactLimit)
      BY <1>2, <2>1 DEF AddFact
    <2>0. /\ Append(facts, fact) \in Seq(S)
          /\ Len(Append(facts, fact)) \in Nat
          /\ ToSet(Append(facts, fact)) = ToSet(facts) \cup {fact}
          /\ NoRepeat(facts) => NoRepeat(Append(facts, fact))
      BY <1>2, AppendedSet
    <2>3. FactLimit \in Nat \ {0}
      BY CompactionAssumption
    <2>4. /\ t \in Seq(S) /\ ToSet(t) = ToSet(facts) \cup {fact} /\ NoRepeat(t)
          /\ Len(t) \in Nat
      BY <2>0, <2>1
    <2>5. Len(t) <= Cardinality(D) /\ Cardinality(D) \in Nat
      BY <2>4, LenOfDistinct, FS_CardinalityType
    <2>6. Len(t) <= FactLimit
      BY <2>3, <2>4, <2>5
    <2>7. LastFew(t, FactLimit) = t
      BY <2>3, <2>4, <2>6, LastFewFacts
    <2>8. QED BY <2>2, <2>4, <2>7
  <1>3. QED BY <1>1, <1>2

LEMMA WithFactsSteps ==
  ASSUME NEW facts, NEW found, Len(found) \in Nat
  PROVE  \E g : /\ g = [n \in 0..Len(found) |->
                          IF n = 0 THEN facts ELSE AddFact(g[n - 1], found[n])]
                /\ WithFacts(facts, found) = g[Len(found)]
  <1> DEFINE m == Len(found)
             T == {n \in 0..m : \E g : g = [k \in 0..n |->
                     IF k = 0 THEN facts ELSE AddFact(g[k - 1], found[k])]}
  <1>1. 0 \in T
    <2> DEFINE g == [k \in 0..0 |-> facts]
    <2>1. g = [k \in 0..0 |-> IF k = 0 THEN facts ELSE AddFact(g[k - 1], found[k])]
      OBVIOUS
    <2>2. \E f : f = [k \in 0..0 |-> IF k = 0 THEN facts ELSE AddFact(f[k - 1], found[k])]
      BY <2>1, Zenon
    <2>3. 0 \in 0..m
      OBVIOUS
    <2>4. QED BY <2>2, <2>3, Zenon
  <1>2. ASSUME NEW n \in 0..(m - 1), n \in T PROVE n + 1 \in T
    <2>1. PICK g : g = [k \in 0..n |->
                     IF k = 0 THEN facts ELSE AddFact(g[k - 1], found[k])]
      BY <1>2
    <2> DEFINE G(k) == IF k = n + 1 THEN AddFact(g[n], found[n + 1]) ELSE g[k]
               h == [k \in 0..(n + 1) |->
                       IF k = n + 1 THEN AddFact(g[n], found[n + 1]) ELSE g[k]]
    <2>2. ASSUME NEW k \in 0..(n + 1)
          PROVE  h[k] = IF k = 0 THEN facts ELSE AddFact(h[k - 1], found[k])
      <3>1. CASE k = n + 1
        <4>1. h[k] = AddFact(g[n], found[n + 1]) /\ h[n] = g[n] /\ k # 0 /\ k - 1 = n
          BY <3>1
        <4>2. QED BY <3>1, <4>1
      <3>2. CASE k # n + 1
        <4>1. k \in 0..n /\ h[k] = g[k]
          BY <3>2
        <4>2. k # 0 => k - 1 \in 0..n /\ h[k - 1] = g[k - 1]
          BY <3>2
        <4>3. g[k] = IF k = 0 THEN facts ELSE AddFact(g[k - 1], found[k])
          BY <2>1, <4>1
        <4>4. QED BY <4>1, <4>2, <4>3
      <3>3. QED BY <3>1, <3>2
    <2>3. DOMAIN h = 0..(n + 1) /\ h = [k \in 0..(n + 1) |-> h[k]]
      OBVIOUS
    <2> HIDE DEF h
    <2>4. h = [k \in 0..(n + 1) |->
                 IF k = 0 THEN facts ELSE AddFact(h[k - 1], found[k])]
      BY <2>2, <2>3
    <2>5. n + 1 \in 0..m
      OBVIOUS
    <2>6. QED BY <2>4, <2>5
  <1>3. m \in T
    <2>1. m \in Nat /\ m \in 0..m
      OBVIOUS
    <2> HIDE DEF T, m
    <2>2. 0..m \subseteq T
      BY <1>1, <1>2, <2>1, FullInterval
    <2>3. QED BY <2>1, <2>2
  <1>4. \E g : g = [n \in 0..m |->
                      IF n = 0 THEN facts ELSE AddFact(g[n - 1], found[n])]
    BY <1>3
  <1>5. QED BY <1>4, Zenon DEF WithFacts

LEMMA WithFactsFacts ==
  ASSUME NEW S, NEW facts \in Seq(S), NEW found \in Seq(S)
  PROVE  /\ WithFacts(facts, found) \in Seq(S)
         /\ ToSet(WithFacts(facts, found)) \subseteq ToSet(facts) \cup ToSet(found)
         /\ NoRepeat(facts) => NoRepeat(WithFacts(facts, found))
         /\ \A D : /\ NoRepeat(facts)
                   /\ IsFiniteSet(D) /\ Cardinality(D) <= FactLimit
                   /\ ToSet(facts) \subseteq D /\ ToSet(found) \subseteq D
                   => ToSet(WithFacts(facts, found)) = ToSet(facts) \cup ToSet(found)
  <1> DEFINE m == Len(found)
  <1>1. m \in Nat /\ DOMAIN found = 1..m
    BY LenProperties
  <1>2. PICK g : /\ g = [n \in 0..m |->
                          IF n = 0 THEN facts ELSE AddFact(g[n - 1], found[n])]
                 /\ WithFacts(facts, found) = g[m]
    BY <1>1, WithFactsSteps
  <1>3. /\ g[0] = facts
        /\ \A n \in 0..(m - 1) : g[n + 1] = AddFact(g[n], found[n + 1])
    <2>1. g[0] = facts
      BY <1>1, <1>2
    <2>2. ASSUME NEW n \in 0..(m - 1) PROVE g[n + 1] = AddFact(g[n], found[n + 1])
      <3>1. n + 1 \in 0..m /\ n + 1 # 0 /\ (n + 1) - 1 = n
        BY <1>1
      <3>2. g[n + 1] = AddFact(g[(n + 1) - 1], found[n + 1])
        BY <1>2, <3>1
      <3>3. QED BY <3>1, <3>2
    <2>3. QED BY <2>1, <2>2
  <1>4. \A n \in 0..(m - 1) : found[n + 1] \in S /\ found[n + 1] \in ToSet(found)
    <2>1. \A n \in 0..(m - 1) : n + 1 \in 1..m
      BY <1>1
    <2>2. QED BY <2>1, <1>1, ElementOfSeq DEF ToSet
  <1>5. /\ g[m] \in Seq(S) /\ ToSet(g[m]) \subseteq ToSet(facts) \cup ToSet(found)
        /\ NoRepeat(facts) => NoRepeat(g[m])
    <2> DEFINE T == {n \in 0..m :
                /\ g[n] \in Seq(S) /\ ToSet(g[n]) \subseteq ToSet(facts) \cup ToSet(found)
                /\ NoRepeat(facts) => NoRepeat(g[n])}
    <2>1. 0 \in T
      BY <1>1, <1>3
    <2>2. ASSUME NEW n \in 0..(m - 1), n \in T PROVE n + 1 \in T
      <3>1. n + 1 \in 0..m
        BY <1>1
      <3>2. /\ g[n] \in Seq(S) /\ ToSet(g[n]) \subseteq ToSet(facts) \cup ToSet(found)
            /\ NoRepeat(facts) => NoRepeat(g[n])
        BY <2>2
      <3>3. PICK f : f = found[n + 1]
        OBVIOUS
      <3>4. f \in S /\ f \in ToSet(found) /\ g[n + 1] = AddFact(g[n], f)
        BY <3>3, <1>3, <1>4
      <3>5. /\ AddFact(g[n], f) \in Seq(S)
            /\ ToSet(AddFact(g[n], f)) \subseteq ToSet(g[n]) \cup {f}
            /\ NoRepeat(g[n]) => NoRepeat(AddFact(g[n], f))
        BY <3>2, <3>4, AddFactFacts, Zenon
      <3>6. QED BY <3>1, <3>2, <3>4, <3>5
    <2>3. 0..m \subseteq T
      <3> HIDE DEF T, m
      <3>1. QED BY <1>1, <2>1, <2>2, FullInterval
    <2>4. QED BY <1>1, <2>3
  <1>6. ASSUME NEW D, NoRepeat(facts), IsFiniteSet(D), Cardinality(D) <= FactLimit,
               ToSet(facts) \subseteq D, ToSet(found) \subseteq D
        PROVE  ToSet(g[m]) = ToSet(facts) \cup ToSet(found)
    <2> DEFINE First(n) == {found[k] : k \in 1..n}
               T == {n \in 0..m :
                       /\ g[n] \in Seq(S) /\ NoRepeat(g[n])
                       /\ ToSet(g[n]) = ToSet(facts) \cup {found[k] : k \in 1..n}}
    <2>1. 0 \in T
      BY <1>1, <1>3, <1>6
    <2>2. ASSUME NEW n \in 0..(m - 1), n \in T PROVE n + 1 \in T
      <3>1. n + 1 \in 0..m /\ n \in 0..m
        BY <1>1
      <3>2. 1..(n + 1) = (1..n) \cup {n + 1} /\ 1..(n + 1) \subseteq 1..m
        BY <1>1
      <3>3. /\ {found[k] : k \in 1..(n + 1)} = {found[k] : k \in 1..n} \cup {found[n + 1]}
            /\ {found[k] : k \in 1..(n + 1)} \subseteq ToSet(found)
        BY <3>2, <1>1 DEF ToSet
      <3>4. /\ g[n] \in Seq(S) /\ NoRepeat(g[n])
            /\ ToSet(g[n]) = ToSet(facts) \cup {found[k] : k \in 1..n}
        BY <2>2
      <3>5. ToSet(g[n]) \subseteq D /\ found[n + 1] \in D
        BY <3>3, <3>4, <1>4, <1>6
      <3>A. found[n + 1] \in S /\ found[n + 1] \in D
        BY <1>4, <3>5
      <3>B. g[n + 1] = AddFact(g[n], found[n + 1])
        BY <1>3
      <3>C. ToSet(AddFact(g[n], found[n + 1])) = ToSet(g[n]) \cup {found[n + 1]}
        BY <3>4, <3>5, <3>A, <1>6, AddFactKeeps
      <3>6. ToSet(g[n + 1]) = ToSet(g[n]) \cup {found[n + 1]}
        BY <3>B, <3>C
      <3>D. /\ AddFact(g[n], found[n + 1]) \in Seq(S)
            /\ NoRepeat(AddFact(g[n], found[n + 1]))
        <4>1. PICK f : f = found[n + 1]
          OBVIOUS
        <4>2. /\ AddFact(g[n], f) \in Seq(S)
              /\ NoRepeat(g[n]) => NoRepeat(AddFact(g[n], f))
          BY <4>1, <3>4, <3>A, AddFactFacts
        <4>3. QED BY <4>1, <4>2, <3>4
      <3>7. g[n + 1] \in Seq(S) /\ NoRepeat(g[n + 1])
        BY <3>B, <3>D
      <3>8. QED BY <3>1, <3>3, <3>4, <3>6, <3>7
    <2>3. 0..m \subseteq T
      <3> HIDE DEF T, m
      <3>1. QED BY <1>1, <2>1, <2>2, FullInterval
    <2>4. {found[k] : k \in 1..m} = ToSet(found)
      BY <1>1 DEF ToSet
    <2>5. QED BY <1>1, <2>3, <2>4, SMTT(30)
  <1>7. QED BY <1>2, <1>5, <1>6

-----------------------------------------------------------------------------
(* The restore state.                                                       *)

LEMMA UserLinesFacts ==
  ASSUME NEW segments \in Seq(Segment)
  PROVE  /\ UserLines(segments) \in Seq(Lines)
         /\ ToSet(UserLines(segments)) =
              {segments[i].line : i \in {i \in DOMAIN segments :
                 segments[i].role = "user" /\ segments[i].line # Silent}}
  <1> DEFINE I == {i \in DOMAIN segments :
                     segments[i].role = "user" /\ segments[i].line # Silent}
  <1>1. PICK said : said = Picked(segments, I)
    OBVIOUS
  <1>2. \A i \in I : segments[i].line \in Lines
    <2>1. \A i \in DOMAIN segments : segments[i] \in Segment
      BY LenProperties, ElementOfSeq
    <2>2. QED BY <2>1 DEF Segment
  <1>3. I \in SUBSET (DOMAIN segments)
    OBVIOUS
  <1>4. /\ said \in Seq(Segment) /\ Cardinality(I) \in Nat
        /\ DOMAIN said = 1..Cardinality(I)
        /\ ToSet(said) = {segments[i] : i \in I}
    <2> HIDE DEF I
    <2>1. QED BY <1>1, <1>3, PickedFacts
  <1>5. PICK t : t = [i \in DOMAIN said |-> said[i].line]
    OBVIOUS
  <1>6. t = UserLines(segments)
    BY <1>1, <1>5 DEF UserLines
  <1>7. \A i \in DOMAIN said : \E j \in I : said[i] = segments[j]
    BY <1>4 DEF ToSet
  <1>8. \A j \in I : \E i \in DOMAIN said : said[i] = segments[j]
    BY <1>4 DEF ToSet
  <1>9. t \in Seq(Lines)
    <2>1. t \in [1..Cardinality(I) -> Lines]
      BY <1>2, <1>4, <1>5, <1>7
    <2> HIDE DEF I
    <2>2. QED BY <1>4, <2>1, SeqDef
  <1>10. ToSet(t) = {segments[i].line : i \in I}
    <2> HIDE DEF I
    <2>1. DOMAIN t = DOMAIN said /\ \A i \in DOMAIN said : t[i] = said[i].line
      BY <1>5
    <2>2. ASSUME NEW x \in ToSet(t) PROVE x \in {segments[i].line : i \in I}
      BY <2>1, <2>2, <1>7 DEF ToSet
    <2>3. ASSUME NEW i \in I PROVE segments[i].line \in ToSet(t)
      BY <2>1, <2>3, <1>8 DEF ToSet
    <2>4. QED BY <2>2, <2>3
  <1>11. QED BY <1>6, <1>9, <1>10

LEMMA SetOfSeq ==
  ASSUME NEW S, NEW s \in Seq(S)
  PROVE  ToSet(s) \subseteq S
  BY LenProperties, ElementOfSeq DEF ToSet

LEMMA LastOrFacts ==
  ASSUME NEW S, NEW s \in Seq(S), NEW other
  PROVE  LastOr(s, other) \in ToSet(s) \cup {other}
  <1>1. CASE s = <<>>
    BY <1>1 DEF LastOr
  <1>2. CASE s # <<>>
    <2>1. Len(s) \in Nat \ {0} /\ DOMAIN s = 1..Len(s)
      BY <1>2, EmptySeq, LenProperties
    <2>2. QED BY <1>2, <2>1 DEF LastOr, ToSet
  <1>3. QED BY <1>1, <1>2

LEMMA DirectivesFacts ==
  ASSUME NEW lines \in Seq(Lines), NEW kind
  PROVE  /\ Directives(lines, kind) \in Seq(Lines)
         /\ ToSet(Directives(lines, kind)) \subseteq ToSet(lines) \cap Mark[kind]
  <1>1. PICK I : I = FirstPlaces(lines, kind)
    OBVIOUS
  <1>2. I \in SUBSET (DOMAIN lines) /\ \A i \in I : lines[i] \in Mark[kind]
    BY <1>1 DEF FirstPlaces
  <1>3. PICK p : p = Picked(lines, I)
    OBVIOUS
  <1>4. p \in Seq(Lines) /\ ToSet(p) = {lines[i] : i \in I}
    BY <1>2, <1>3, PickedFacts
  <1>5. ToSet(p) \subseteq ToSet(lines) \cap Mark[kind]
    BY <1>2, <1>4 DEF ToSet
  <1>6. LineLimit \in Nat \ {0}
    BY CompactionAssumption
  <1>7. /\ LastFew(p, LineLimit) \in Seq(Lines)
        /\ ToSet(LastFew(p, LineLimit)) \subseteq ToSet(p)
    BY <1>4, <1>6, LastFewFacts
  <1>8. Directives(lines, kind) = LastFew(p, LineLimit)
    BY <1>1, <1>3 DEF Directives
  <1>9. QED BY <1>5, <1>7, <1>8

LEMMA LatestInFacts ==
  ASSUME NEW lines \in Seq(Lines)
  PROVE  LatestIn(lines) \in ToSet(lines) \cup {Silent}
  BY DirectivesFacts, LastOrFacts DEF LatestIn

LEMMA FactLinesFacts ==
  ASSUME NEW lines \in Seq(Lines)
  PROVE  /\ FactLines(lines) \in Seq(Lines)
         /\ ToSet(FactLines(lines)) = ToSet(lines) \cap Mark.fact
  <1> DEFINE I == {i \in DOMAIN lines : lines[i] \in Mark.fact}
  <1>1. I \in SUBSET (DOMAIN lines)
    OBVIOUS
  <1>2. {lines[i] : i \in I} = ToSet(lines) \cap Mark.fact
    BY DEF ToSet
  <1>3. FactLines(lines) = Picked(lines, I)
    BY DEF FactLines
  <1> HIDE DEF I
  <1>4. QED BY <1>1, <1>2, <1>3, PickedFacts

LEMMA NothingRepeats ==
  <<>> \in Seq(Lines) /\ ToSet(<<>>) = {} /\ NoRepeat(<<>>)
  BY DEF ToSet, NoRepeat

\* What a compaction remembers of facts: those it was given and those it read.
LEMMA DurableFactsFacts ==
  ASSUME NEW previous, previous.facts \in Seq(Lines), NEW lines \in Seq(Lines)
  PROVE  /\ DurableFacts(previous, lines) \in Seq(Lines)
         /\ ToSet(DurableFacts(previous, lines)) \subseteq
              ToSet(previous.facts) \cup (ToSet(lines) \cap Mark.fact)
         /\ NoRepeat(previous.facts) => NoRepeat(DurableFacts(previous, lines))
         /\ \A D : /\ NoRepeat(previous.facts)
                   /\ IsFiniteSet(D) /\ Cardinality(D) <= FactLimit
                   /\ ToSet(previous.facts) \cup (ToSet(lines) \cap Mark.fact) \subseteq D
                   => ToSet(DurableFacts(previous, lines)) =
                        ToSet(previous.facts) \cup (ToSet(lines) \cap Mark.fact)
  <1>1. PICK f : f = FactLines(lines)
    OBVIOUS
  <1>2. f \in Seq(Lines) /\ ToSet(f) = ToSet(lines) \cap Mark.fact
    BY <1>1, FactLinesFacts
  <1>3. PICK g : g = WithFacts(<<>>, f)
    OBVIOUS
  <1>4. /\ g \in Seq(Lines) /\ ToSet(g) \subseteq ToSet(f)
        /\ \A D : IsFiniteSet(D) /\ Cardinality(D) <= FactLimit /\ ToSet(f) \subseteq D
                  => ToSet(g) = ToSet(f)
    <2>1. PICK e : e = <<>>
      OBVIOUS
    <2>2. e \in Seq(Lines) /\ ToSet(e) = {} /\ NoRepeat(e) /\ g = WithFacts(e, f)
      BY <2>1, <1>3, NothingRepeats
    <2>3. QED BY <1>2, <2>2, WithFactsFacts
  <1>5. PICK p : p = previous.facts
    OBVIOUS
  <1>6. DurableFacts(previous, lines) = WithFacts(p, g)
    BY <1>1, <1>3, <1>5 DEF DurableFacts
  <1>7. /\ WithFacts(p, g) \in Seq(Lines)
        /\ ToSet(WithFacts(p, g)) \subseteq ToSet(p) \cup ToSet(g)
        /\ NoRepeat(p) => NoRepeat(WithFacts(p, g))
        /\ \A D : /\ NoRepeat(p) /\ IsFiniteSet(D) /\ Cardinality(D) <= FactLimit
                  /\ ToSet(p) \subseteq D /\ ToSet(g) \subseteq D
                  => ToSet(WithFacts(p, g)) = ToSet(p) \cup ToSet(g)
    BY <1>4, <1>5, WithFactsFacts
  <1>8. ASSUME NEW D, NoRepeat(p), IsFiniteSet(D), Cardinality(D) <= FactLimit,
               ToSet(p) \cup ToSet(f) \subseteq D
        PROVE  ToSet(WithFacts(p, g)) = ToSet(p) \cup ToSet(f)
    <2>1. ToSet(g) = ToSet(f)
      BY <1>4, <1>8
    <2>2. QED BY <1>7, <1>8, <2>1
  <1>9. QED BY <1>2, <1>4, <1>5, <1>6, <1>7, <1>8

LEMMA ResolveFacts ==
  ASSUME NEW pins \in Seq(Lines), NEW latest \in Lines \cup {Silent}
  PROVE  ResolveConflicts(pins, latest) \in Seq(Lines)
  <1> DEFINE I == {i \in DOMAIN pins : /\ latest \in Mark.allow => ~Stops(pins[i])
                                       /\ Stops(latest) => pins[i] \notin Mark.allow}
  <1>1. I \in SUBSET (DOMAIN pins)
    OBVIOUS
  <1>2. ResolveConflicts(pins, latest) \in {Picked(pins, I)} \cup
          (IF latest # Silent THEN {<<latest>>} ELSE {})
    BY DEF ResolveConflicts
  <1> HIDE DEF I
  <1>3. Picked(pins, I) \in Seq(Lines)
    BY <1>1, PickedFacts
  <1>4. latest # Silent => <<latest>> \in Seq(Lines)
    OBVIOUS
  <1>5. QED BY <1>2, <1>3, <1>4

RestoredParts(s, previous, lines) ==
  \E latestHere, latest, goal \in Lines \cup {Silent}, pins \in Seq(Lines) :
    /\ s.goal = goal /\ s.latest = latest
    /\ goal \in ToSet(lines) \cup {previous.goal, Silent}
    /\ latest \in ToSet(lines) \cup {previous.latest, Silent}
    /\ s.phase = TaskPhase(latest, pins)
    /\ s.facts = DurableFacts(previous, lines)
    /\ s.mustNotDo =
         (IF s.phase = "stopped"
             /\ Prohibitions(latest, latestHere, pins, previous) = {}
          THEN {StandStill} ELSE Prohibitions(latest, latestHere, pins, previous))
    /\ s.confirm \in BOOLEAN
    /\ s = [goal |-> s.goal, latest |-> s.latest, phase |-> s.phase,
            facts |-> s.facts, mustNotDo |-> s.mustNotDo, confirm |-> s.confirm]

LEMMA RestoreParts ==
  ASSUME NEW previous \in State, NEW segments \in Seq(Segment)
  PROVE  RestoredParts(RestoreState(previous, segments), previous, UserLines(segments))
  <1>1. PICK lines : lines = UserLines(segments)
    OBVIOUS
  <1>2. lines \in Seq(Lines) /\ ToSet(lines) \subseteq Lines
    BY <1>1, UserLinesFacts, SetOfSeq
  <1>3. PICK dp : dp = Directives(lines, "pinned")
    OBVIOUS
  <1>4. PICK dg : dg = Directives(lines, "goal")
    OBVIOUS
  <1>5. /\ dp \in Seq(Lines) /\ dg \in Seq(Lines)
        /\ ToSet(dp) \subseteq ToSet(lines) /\ ToSet(dg) \subseteq ToSet(lines)
    BY <1>2, <1>3, <1>4, DirectivesFacts
  <1>6. PICK pinned : pinned = LastFew(dp, PinLimit)
    OBVIOUS
  <1>7. pinned \in Seq(Lines) /\ ToSet(pinned) \subseteq ToSet(lines)
    <2>1. PinLimit \in Nat \ {0}
      BY CompactionAssumption
    <2>2. QED BY <2>1, <1>5, <1>6, LastFewFacts
  <1>8. PICK latestHere : latestHere = LatestIn(lines)
    OBVIOUS
  <1>9. latestHere \in ToSet(lines) \cup {Silent}
    BY <1>2, <1>8, LatestInFacts
  <1>10. PICK latest : latest = IF latestHere # Silent THEN latestHere
                                ELSE LastOr(pinned, previous.latest)
    OBVIOUS
  <1>11. previous.latest \in Lines \cup {Silent} /\ previous.goal \in Lines \cup {Silent}
    BY DEF State
  <1>12. /\ latest \in ToSet(lines) \cup {previous.latest, Silent}
         /\ latest \in Lines \cup {Silent}
    BY <1>2, <1>7, <1>9, <1>10, <1>11, LastOrFacts
  <1>13. PICK pins : pins = ResolveConflicts(pinned, latest)
    OBVIOUS
  <1>14. pins \in Seq(Lines)
    BY <1>7, <1>12, <1>13, ResolveFacts
  <1>15. PICK goal : goal = LastOr(dg, IF latestHere # Silent THEN latestHere
                                       ELSE previous.goal)
    OBVIOUS
  <1>16. /\ goal \in ToSet(lines) \cup {previous.goal, Silent}
         /\ goal \in Lines \cup {Silent}
    BY <1>2, <1>5, <1>9, <1>11, <1>15, LastOrFacts
  <1> DEFINE standing == Prohibitions(latest, latestHere, pins, previous)
             phase == TaskPhase(latest, pins)
             allowed == latest \in Mark.allow /\ standing = {}
  <1>17. RestoreState(previous, segments) =
           [goal |-> goal, latest |-> latest, phase |-> phase,
            facts |-> DurableFacts(previous, lines),
            mustNotDo |-> IF phase = "stopped" /\ standing = {} THEN {StandStill}
                          ELSE standing,
            confirm |-> /\ ~allowed
                        /\ \/ phase # "executing"
                           \/ goal = Silent \/ latest = Silent
                           \/ (standing \cup {latest}) \cap Mark.confirm # {}]
    BY <1>1, <1>3, <1>4, <1>6, <1>8, <1>10, <1>13, <1>15, Zenon DEF RestoreState
  <1>18. PICK s : s = RestoreState(previous, segments)
    OBVIOUS
  <1>19. /\ s.goal = goal /\ s.latest = latest /\ s.phase = phase
         /\ s.facts = DurableFacts(previous, lines)
         /\ s.mustNotDo = (IF s.phase = "stopped" /\ standing = {} THEN {StandStill}
                           ELSE standing)
         /\ s.confirm \in BOOLEAN
         /\ s = [goal |-> s.goal, latest |-> s.latest, phase |-> s.phase,
                 facts |-> s.facts, mustNotDo |-> s.mustNotDo, confirm |-> s.confirm]
    <2> HIDE DEF standing, phase
    <2>1. QED BY <1>17, <1>18
  <1>20. latestHere \in Lines \cup {Silent}
    BY <1>2, <1>9
  <1>21. RestoredParts(s, previous, lines)
    <2> HIDE DEF phase
    <2>1. s.phase = TaskPhase(latest, pins)
      BY <1>19 DEF phase
    <2>2. QED BY <2>1, <1>12, <1>14, <1>16, <1>19, <1>20 DEF RestoredParts
  <1>22. QED BY <1>1, <1>18, <1>21, Zenon

LEMMA RestoreType ==
  ASSUME NEW previous \in State, NEW segments \in Seq(Segment)
  PROVE  RestoreState(previous, segments) \in State
  <1>1. PICK s : s = RestoreState(previous, segments)
    OBVIOUS
  <1>2. PICK lines : lines = UserLines(segments)
    OBVIOUS
  <1>3. PICK latestHere \in Lines \cup {Silent}, latest \in Lines \cup {Silent},
             goal \in Lines \cup {Silent}, pins \in Seq(Lines) :
          /\ s.goal = goal /\ s.latest = latest
          /\ s.phase = TaskPhase(latest, pins)
          /\ s.facts = DurableFacts(previous, lines)
          /\ s.mustNotDo = (IF s.phase = "stopped"
                                 /\ Prohibitions(latest, latestHere, pins, previous) = {}
                            THEN {StandStill}
                            ELSE Prohibitions(latest, latestHere, pins, previous))
          /\ s.confirm \in BOOLEAN
          /\ s = [goal |-> s.goal, latest |-> s.latest, phase |-> s.phase,
                  facts |-> s.facts, mustNotDo |-> s.mustNotDo, confirm |-> s.confirm]
    <2>1. RestoredParts(s, previous, lines)
      BY <1>1, <1>2, RestoreParts, Zenon
    <2>2. QED BY <2>1, Zenon DEF RestoredParts
  <1>4. s.facts \in Seq(Lines)
    <2>1. previous.facts \in Seq(Lines) /\ lines \in Seq(Lines)
      BY <1>2, UserLinesFacts DEF State
    <2>2. QED BY <2>1, <1>3, DurableFactsFacts
  <1>5. Prohibitions(latest, latestHere, pins, previous)
          \in SUBSET (Lines \cup {StandStill})
    <2>1. previous.mustNotDo \in SUBSET (Lines \cup {StandStill})
      BY DEF State
    <2>2. ToSet(pins) \subseteq Lines
      BY SetOfSeq
    <2>3. QED BY <2>1, <2>2 DEF Prohibitions
  <1>6. s.phase \in {"executing", "stopped", "waiting_for_user"}
    BY <1>3 DEF TaskPhase
  <1>7. s.mustNotDo \in SUBSET (Lines \cup {StandStill})
    BY <1>3, <1>5
  <1>8. QED BY <1>1, <1>3, <1>4, <1>6, <1>7 DEF State

\* A restore state does not contradict itself.
LEMMA RestoreSaysOneThing ==
  ASSUME NEW previous, NEW segments, NEW s, s = RestoreState(previous, segments)
  PROVE  /\ s.latest \in Mark.allow =>
              s.phase = "executing" /\ s.mustNotDo = {} /\ ~s.confirm
         /\ s.phase = "stopped" => s.mustNotDo # {} /\ s.confirm
  BY Zenon DEF RestoreState, TaskPhase, Prohibitions

-----------------------------------------------------------------------------
(* Where a history is cut.                                                  *)

LEMMA ItemsOf ==
  ASSUME NEW h \in Seq(Item)
  PROVE  /\ Len(h) \in Nat /\ DOMAIN h = 1..Len(h)
         /\ \A i \in DOMAIN h : h[i] \in Item
         /\ Bigs(h) \in SUBSET (DOMAIN h)
  <1>1. Len(h) \in Nat /\ DOMAIN h = 1..Len(h)
    BY LenProperties
  <1>2. \A i \in DOMAIN h : h[i] \in Item
    BY <1>1, ElementOfSeq
  <1>3. QED BY <1>1, <1>2 DEF Bigs

LEMMA LeadFacts ==
  ASSUME NEW h \in Seq(Item), NEW form
  PROVE  /\ Lead(form, h) \in 0..Len(h)
         /\ form = "responses" => Lead(form, h) = 0
         /\ \A i \in 1..Lead(form, h) : h[i].role = "system"
  <1> DEFINE K == {k \in 0..Len(h) : \A i \in 1..k : h[i].role = "system"}
  <1>1. Len(h) \in Nat
    BY ItemsOf
  <1>2. K \in SUBSET Nat /\ 0 \in K /\ \A k \in K : k <= Len(h)
    BY <1>1
  <1>3. Max(K) \in K
    <2> HIDE DEF K
    <2>1. QED BY <1>1, <1>2, MaxIn
  <1>4. Lead(form, h) = IF form = "responses" THEN 0 ELSE Max(K)
    BY DEF Lead
  <1>5. QED BY <1>1, <1>3, <1>4

LEMMA BoundaryFacts ==
  ASSUME NEW h \in Seq(Item), NEW form
  PROVE  LET lead == Lead(form, h)
             b == Boundary(form, h)
         IN /\ b \in lead..Len(h)
            /\ b > lead => b + 2 <= Len(h) /\ ~NeedsPrevious(h[b + 1])
  <1>1. PICK lead : lead = Lead(form, h)
    OBVIOUS
  <1>2. lead \in 0..Len(h) /\ Len(h) \in Nat
    BY <1>1, LeadFacts, ItemsOf
  <1>3. PICK start : start = KeepStart(form, h)
    OBVIOUS
  <1>4. start = IF Len(h) - Keep >= lead THEN Len(h) - Keep ELSE lead
    BY <1>1, <1>2, <1>3, MaxOfTwo, CompactionAssumption DEF KeepStart
  <1>5. start \in lead..Len(h) /\ (start > lead => start + 2 <= Len(h))
    BY <1>2, <1>4, CompactionAssumption
  <1> DEFINE K == {k \in lead..start : k = lead \/ ~NeedsPrevious(h[k + 1])}
  <1>6. K \in SUBSET Nat /\ lead \in K /\ start \in Nat /\ \A k \in K : k <= start
    BY <1>2, <1>5
  <1>7. Max(K) \in K
    <2> HIDE DEF K
    <2>1. QED BY <1>6, MaxIn
  <1>8. Boundary(form, h) = Max(K)
    BY <1>1, <1>3 DEF Boundary
  <1>9. PICK b : b = Boundary(form, h)
    OBVIOUS
  <1>10. b \in lead..start /\ (b = lead \/ ~NeedsPrevious(h[b + 1]))
    BY <1>7, <1>8, <1>9
  <1>11. QED BY <1>1, <1>2, <1>5, <1>9, <1>10

\* An item when its long text is cut, and when what it has beside it is cut too:
\* an item of the body when the compaction is done.
Shortened(item) == IF item.size = "big" THEN Cut(item) ELSE item
Squeezed(item) ==
  IF item.side.size = "big" THEN [Shortened(item) EXCEPT !.side = CutText] ELSE Shortened(item)

LEMMA TextTypes == CutText \in Text /\ NoText \in Text
  BY DEF CutText, NoText, Text

LEMMA CutFacts ==
  ASSUME NEW item \in Item
  PROVE  /\ Cut(item) \in Item /\ Cut(item).size = "cut" /\ Cut(item).side = item.side
         /\ item.size = "big" => Squeezed(Cut(item)) = Squeezed(item)
  BY DEF Cut, Squeezed, Shortened, Item

LEMMA ShortenedFacts ==
  ASSUME NEW item \in Item
  PROVE  /\ Shortened(item) \in Item
         /\ Shortened(item).size # "big" /\ Shortened(item).side = item.side
         /\ Squeezed(Shortened(item)) = Squeezed(item)
  BY DEF Cut, Squeezed, Shortened, Item

LEMMA SqueezedFacts ==
  ASSUME NEW item \in Item
  PROVE  /\ Squeezed(item) \in Item
         /\ Squeezed(item).role = item.role
         /\ Squeezed(item).calls = item.calls /\ Squeezed(item).answers = item.answers
         /\ Squeezed(item).size = IF item.size = "big" THEN "cut" ELSE item.size
  <1>1. /\ Shortened(item) \in Item
        /\ Shortened(item).role = item.role
        /\ Shortened(item).calls = item.calls /\ Shortened(item).answers = item.answers
        /\ Shortened(item).size = IF item.size = "big" THEN "cut" ELSE item.size
    BY DEF Cut, Shortened, Item
  <1>2. PICK t : t = Shortened(item)
    OBVIOUS
  <1>3. /\ [t EXCEPT !.side = CutText] \in Item
        /\ [t EXCEPT !.side = CutText].role = t.role
        /\ [t EXCEPT !.side = CutText].calls = t.calls
        /\ [t EXCEPT !.side = CutText].answers = t.answers
        /\ [t EXCEPT !.side = CutText].size = t.size
    BY <1>1, <1>2, TextTypes DEF Item
  <1>4. QED BY <1>1, <1>2, <1>3 DEF Squeezed

\* A history whose items are replaced one by one.
LEMMA ReplacedItems ==
  ASSUME NEW h \in Seq(Item), NEW t, t = [i \in DOMAIN h |-> t[i]],
         \A i \in DOMAIN h : t[i] \in Item
  PROVE  t \in Seq(Item) /\ Len(t) = Len(h) /\ DOMAIN t = DOMAIN h
  <1>1. t \in [1..Len(h) -> Item]
    BY ItemsOf
  <1>2. t \in Seq(Item)
    BY <1>1, ItemsOf, SeqDef
  <1>3. QED BY <1>1, <1>2, ItemsOf

LEMMA CutAllFacts ==
  ASSUME NEW h \in Seq(Item)
  PROVE  /\ CutAll(h) \in Seq(Item)
         /\ Len(CutAll(h)) = Len(h) /\ DOMAIN CutAll(h) = DOMAIN h
         /\ \A i \in DOMAIN h : CutAll(h)[i] = Shortened(h[i])
  <1>1. PICK t : t = CutAll(h)
    OBVIOUS
  <1>2. DOMAIN t = DOMAIN h /\ \A i \in DOMAIN h : t[i] = Shortened(h[i])
    BY <1>1 DEF CutAll, Bigs, Shortened
  <1>3. \A i \in DOMAIN h : t[i] \in Item
    BY <1>2, ItemsOf, ShortenedFacts
  <1>4. t = [i \in DOMAIN h |-> t[i]]
    BY <1>1, <1>2 DEF CutAll
  <1>5. t \in Seq(Item) /\ Len(t) = Len(h) /\ DOMAIN t = DOMAIN h
    BY <1>3, <1>4, ReplacedItems
  <1>6. QED BY <1>1, <1>2, <1>5

\* What the last pass leaves of the items.
LEMMA CutSidesFacts ==
  ASSUME NEW h \in Seq(Item)
  PROVE  /\ CutSides(CutAll(h)) \in Seq(Item)
         /\ Len(CutSides(CutAll(h))) = Len(h)
         /\ \A i \in DOMAIN h : CutSides(CutAll(h))[i] = Squeezed(h[i])
  <1>1. PICK g : g = CutAll(h)
    OBVIOUS
  <1>2. /\ g \in Seq(Item) /\ Len(g) = Len(h) /\ DOMAIN g = DOMAIN h
        /\ \A i \in DOMAIN h : g[i] = Shortened(h[i])
    BY <1>1, CutAllFacts
  <1>3. PICK t : t = CutSides(g)
    OBVIOUS
  <1>4. DOMAIN t = DOMAIN g /\ t = [i \in DOMAIN g |-> t[i]]
    BY <1>3 DEF CutSides
  <1>5. \A i \in DOMAIN h : t[i] = Squeezed(h[i])
    <2>1. TAKE i \in DOMAIN h
    <2>2. t[i] = IF g[i].side.size = "big" THEN [g[i] EXCEPT !.side = CutText] ELSE g[i]
      BY <1>2, <1>3 DEF CutSides
    <2>3. g[i] = Shortened(h[i]) /\ Shortened(h[i]).side = h[i].side
      BY <1>2, ItemsOf, ShortenedFacts
    <2>4. QED BY <2>2, <2>3 DEF Squeezed
  <1>6. \A i \in DOMAIN g : t[i] \in Item
    BY <1>2, <1>5, ItemsOf, SqueezedFacts
  <1>7. t \in Seq(Item) /\ Len(t) = Len(g)
    BY <1>2, <1>4, <1>6, ReplacedItems
  <1>8. QED BY <1>1, <1>2, <1>3, <1>5, <1>7

LEMMA SegmentsOfFacts ==
  ASSUME NEW h \in Seq(Item)
  PROVE  /\ SegmentsOf(h) \in Seq(Segment)
         /\ DOMAIN SegmentsOf(h) = DOMAIN h
         /\ \A i \in DOMAIN h : /\ SegmentsOf(h)[i].role = h[i].role
                                /\ SegmentsOf(h)[i].line = h[i].line
  <1>1. PICK t : t = SegmentsOf(h)
    OBVIOUS
  <1>2. t = [i \in DOMAIN h |-> [role |-> h[i].role, line |-> h[i].line]]
    BY <1>1 DEF SegmentsOf
  <1>3. t \in [1..Len(h) -> Segment]
    <2>1. \A i \in DOMAIN h : [role |-> h[i].role, line |-> h[i].line] \in Segment
      BY ItemsOf DEF Item, Segment
    <2>2. QED BY <1>2, <2>1, ItemsOf
  <1>4. t \in Seq(Segment)
    BY <1>3, ItemsOf, SeqDef
  <1>5. QED BY <1>1, <1>2, <1>4

LEMMA LongItemsFacts ==
  ASSUME NEW h \in Seq(Item)
  PROVE  /\ LongItems(h) \in Seq(Item)
         /\ ToSet(LongItems(h)) = {h[i] : i \in Bigs(h)}
  BY ItemsOf, PickedFacts DEF LongItems

-----------------------------------------------------------------------------
(* The folded history.                                                      *)

LEMMA Shifted ==
  ASSUME NEW lead \in Nat, NEW n \in Nat, NEW b \in 0..n,
         NEW i \in (lead + 2)..(lead + 1 + (n - b))
  PROVE  /\ i - (lead + 1) \in 1..(n - b)
         /\ b + (i - (lead + 1)) = b + i - (lead + 1)
         /\ b + i - (lead + 1) \in (b + 1)..n
  OBVIOUS

LEMMA ShiftedBack ==
  ASSUME NEW lead \in Nat, NEW n \in Nat, NEW b \in 0..n, NEW i \in (b + 1)..n
  PROVE  /\ i - b + (lead + 1) \in (lead + 2)..(lead + 1 + (n - b))
         /\ b + (i - b + (lead + 1)) - (lead + 1) = i
  OBVIOUS

LEMMA Joined ==
  ASSUME NEW S, NEW s \in Seq(S), NEW t \in Seq(S)
  PROVE  /\ s \o t \in Seq(S) /\ Len(s) \in Nat /\ Len(t) \in Nat
         /\ Len(s \o t) = Len(s) + Len(t)
         /\ \A i \in 1..Len(s) : (s \o t)[i] = s[i]
         /\ \A i \in (Len(s) + 1)..(Len(s) + Len(t)) : (s \o t)[i] = t[i - Len(s)]
  <1>1. PICK u : u = s \o t
    OBVIOUS
  <1>2. /\ u \in Seq(S) /\ Len(u) = Len(s) + Len(t)
        /\ \A i \in 1..Len(s) + Len(t) : u[i] = IF i <= Len(s) THEN s[i] ELSE t[i - Len(s)]
    BY <1>1, ConcatProperties
  <1>3. Len(s) \in Nat /\ Len(t) \in Nat
    BY LenProperties
  <1>4. /\ \A i \in 1..Len(s) : u[i] = s[i]
        /\ \A i \in (Len(s) + 1)..(Len(s) + Len(t)) : u[i] = t[i - Len(s)]
    BY <1>2, <1>3
  <1>5. QED BY <1>1, <1>2, <1>3, <1>4

\* The segments of some texts say what the texts say, each under its role.
\* The segments of some texts say what the texts say, each under its role.
LEMMA SegmentsSay ==
  ASSUME NEW h \in Seq(Item)
  PROVE  \A y \in ToSet(SegmentsOf(h)) : \E x \in ToSet(h) :
           y.line = x.line /\ y.role = x.role
  BY SegmentsOfFacts DEF ToSet

\* The kept items lose only long texts; a Responses input hands these over.
RecentCut(form, recent, k) ==
  /\ k.body \in Seq(Item) /\ k.segments \in Seq(Segment)
  /\ Len(k.body) = Len(recent)
  /\ \A i \in DOMAIN recent :
       /\ Squeezed(k.body[i]) = Squeezed(recent[i])
       /\ k.body[i].side = recent[i].side
       /\ form = "responses" => k.body[i].size # "big"
  /\ \A y \in ToSet(k.segments) : \E i \in DOMAIN recent :
       y.line = recent[i].line /\ y.role = recent[i].role

LEMMA CutRecentFacts ==
  ASSUME NEW form, NEW recent \in Seq(Item), NEW k, k = CutRecent(form, recent)
  PROVE  RecentCut(form, recent, k)
  <1> USE DEF RecentCut
  <1>1. CASE form = "responses"
    <2>1. PICK long : long = LongItems(recent)
      OBVIOUS
    <2>2. PICK segments : segments = SegmentsOf(long)
      OBVIOUS
    <2>3. PICK t : t = CutAll(recent)
      OBVIOUS
    <2>4. k.body = t /\ k.segments = segments
      BY <1>1, <2>1, <2>2, <2>3 DEF CutRecent
    <2>5. /\ long \in Seq(Item)
          /\ ToSet(long) = {recent[i] : i \in Bigs(recent)}
          /\ Bigs(recent) \in SUBSET (DOMAIN recent)
      BY <2>1, LongItemsFacts, ItemsOf
    <2>6. /\ segments \in Seq(Segment)
          /\ \A y \in ToSet(segments) : \E x \in ToSet(long) :
               y.line = x.line /\ y.role = x.role
      BY <2>2, <2>5, SegmentsOfFacts, SegmentsSay
    <2>7. /\ t \in Seq(Item) /\ Len(t) = Len(recent)
          /\ \A i \in DOMAIN recent : t[i] = Shortened(recent[i])
      BY <2>3, CutAllFacts
    <2>8. \A i \in DOMAIN recent : /\ Squeezed(t[i]) = Squeezed(recent[i])
                                   /\ t[i].side = recent[i].side /\ t[i].size # "big"
      BY <2>7, ItemsOf, ShortenedFacts
    <2>9. \A y \in ToSet(segments) : \E i \in DOMAIN recent :
             y.line = recent[i].line /\ y.role = recent[i].role
      BY <2>5, <2>6
    <2>10. QED BY <1>1, <2>4, <2>6, <2>7, <2>8, <2>9
  <1>2. CASE form # "responses"
    <2>1. k.body = recent /\ k.segments = <<>>
      BY <1>2 DEF CutRecent
    <2>2. QED BY <1>2, <2>1 DEF ToSet
  <1>3. QED BY <1>1, <1>2

LEMMA SummaryIsItem ==
  SummaryMessage \in Item /\ SummaryMessage.size = "cut" /\ SummaryMessage.side = NoText
    /\ Squeezed(SummaryMessage) = SummaryMessage
  BY DEF SummaryMessage, Item, Roles, Squeezed, Shortened, NoText, Text

\* What is left of the items after a boundary, and what was folded.
EarlierFolded(form, h, k, lead, b) ==
  /\ lead \in 0..Len(h) /\ b \in lead..Len(h)
  /\ k.body \in Seq(Item) /\ k.segments \in Seq(Segment)
  /\ Len(k.body) = lead + 1 + (Len(h) - b)
  /\ \A i \in 1..lead : k.body[i] = h[i]
  /\ k.body[lead + 1] = SummaryMessage
  /\ \A i \in (lead + 2)..Len(k.body) :
       /\ b + i - (lead + 1) \in (b + 1)..Len(h)
       /\ Squeezed(k.body[i]) = Squeezed(h[b + i - (lead + 1)])
       /\ k.body[i].side = h[b + i - (lead + 1)].side
       /\ form = "responses" => k.body[i].size # "big"
  /\ \A y \in ToSet(k.segments) : \E i \in DOMAIN h :
       y.line = h[i].line /\ y.role = h[i].role

LEMMA FoldEarlierFacts ==
  ASSUME NEW form, NEW h \in Seq(Item), NEW k, k = FoldEarlier(form, h),
         NEW lead, lead = Lead(form, h), NEW b, b = Boundary(form, h)
  PROVE  EarlierFolded(form, h, k, lead, b)
  <1>1. /\ Len(h) \in Nat /\ DOMAIN h = 1..Len(h)
        /\ \A i \in DOMAIN h : h[i] \in Item
        /\ lead \in 0..Len(h) /\ b \in lead..Len(h)
    BY ItemsOf, LeadFacts, BoundaryFacts
  <1>2. PICK recent : recent = SubSeq(h, b + 1, Len(h))
    OBVIOUS
  <1>3. /\ recent \in Seq(Item) /\ Len(recent) = Len(h) - b
        /\ \A i \in 1..(Len(h) - b) : recent[i] = h[b + i]
    <2>1. \A i \in (b + 1)..Len(h) : h[i] \in Item
      BY <1>1
    <2>2. /\ recent \in Seq(Item)
          /\ Len(recent) = IF b + 1 <= Len(h) THEN Len(h) - (b + 1) + 1 ELSE 0
          /\ \A i \in 1..(Len(h) - (b + 1) + 1) : recent[i] = h[(b + 1) + i - 1]
      BY <1>1, <1>2, <2>1, SubSeqProperties
    <2>3. Len(recent) = Len(h) - b
      BY <1>1, <2>2
    <2>4. ASSUME NEW i \in 1..(Len(h) - b) PROVE recent[i] = h[b + i]
      <3>1. i \in 1..(Len(h) - (b + 1) + 1) /\ (b + 1) + i - 1 = b + i
        BY <1>1
      <3>2. recent[i] = h[(b + 1) + i - 1]
        BY <2>2, <3>1
      <3>3. QED BY <3>1, <3>2
    <2>5. QED BY <2>2, <2>3, <2>4
  <1>4. PICK r : r = CutRecent(form, recent)
    OBVIOUS
  <1>5. /\ r.body \in Seq(Item) /\ r.segments \in Seq(Segment)
        /\ Len(r.body) = Len(h) - b
        /\ \A i \in 1..(Len(h) - b) :
             /\ Squeezed(r.body[i]) = Squeezed(h[b + i])
             /\ r.body[i].side = h[b + i].side
             /\ form = "responses" => r.body[i].size # "big"
        /\ \A y \in ToSet(r.segments) : \E i \in 1..(Len(h) - b) :
             y.line = h[b + i].line /\ y.role = h[b + i].role
    <2>1. DOMAIN recent = 1..(Len(h) - b)
      BY <1>3, LenProperties
    <2>0. RecentCut(form, recent, r)
      BY <1>3, <1>4, CutRecentFacts
    <2>4. \A i \in 1..(Len(h) - b) :
             /\ Squeezed(r.body[i]) = Squeezed(h[b + i])
             /\ r.body[i].side = h[b + i].side
             /\ form = "responses" => r.body[i].size # "big"
      BY <1>3, <2>0, <2>1 DEF RecentCut
    <2>6. \A y \in ToSet(r.segments) : \E i \in 1..(Len(h) - b) :
             y.line = h[b + i].line /\ y.role = h[b + i].role
      BY <1>3, <2>0, <2>1 DEF RecentCut
    <2>7. QED BY <1>3, <2>0, <2>4, <2>6 DEF RecentCut
  <1> DEFINE E == {i \in (lead + 1)..b : h[i].size # "none"}
  <1>6. PICK earlier : earlier = Picked(h, E)
    OBVIOUS
  <1>7. earlier \in Seq(Item) /\ ToSet(earlier) = {h[i] : i \in E}
    <2>1. E \in SUBSET (DOMAIN h)
      BY <1>1
    <2> HIDE DEF E
    <2>2. QED BY <1>6, <2>1, PickedFacts
  <1>8. PICK es : es = SegmentsOf(earlier)
    OBVIOUS
  <1>9. /\ es \in Seq(Segment)
        /\ \A y \in ToSet(es) : \E i \in E : y.line = h[i].line /\ y.role = h[i].role
    <2> HIDE DEF E
    <2>1. /\ es \in Seq(Segment)
          /\ \A y \in ToSet(es) : \E x \in ToSet(earlier) :
               y.line = x.line /\ y.role = x.role
      BY <1>7, <1>8, SegmentsOfFacts, SegmentsSay
    <2>2. QED BY <1>7, <2>1
  <1>10. PICK first : first = SubSeq(h, 1, lead)
    OBVIOUS
  <1>11. /\ first \in Seq(Item) /\ Len(first) = lead
         /\ \A i \in 1..lead : first[i] = h[i]
    <2>1. \A i \in 1..lead : h[i] \in Item
      BY <1>1
    <2>2. /\ first \in Seq(Item)
          /\ Len(first) = IF 1 <= lead THEN lead - 1 + 1 ELSE 0
          /\ \A i \in 1..(lead - 1 + 1) : first[i] = h[1 + i - 1]
      BY <1>1, <1>10, <2>1, SubSeqProperties
    <2>3. QED BY <1>1, <2>2
  <1>12. PICK one : one = <<SummaryMessage>>
    OBVIOUS
  <1>13. one \in Seq(Item) /\ Len(one) = 1 /\ one[1] = SummaryMessage
    BY <1>12, SummaryIsItem
  <1>14. PICK t : t = first \o one
    OBVIOUS
  <1>15. /\ t \in Seq(Item) /\ Len(t) = lead + 1
         /\ \A i \in 1..lead : t[i] = h[i]
         /\ t[lead + 1] = SummaryMessage
    <2>0. /\ t \in Seq(Item) /\ Len(t) = Len(first) + Len(one)
          /\ \A i \in 1..Len(first) : t[i] = first[i]
          /\ \A i \in (Len(first) + 1)..(Len(first) + Len(one)) : t[i] = one[i - Len(first)]
      BY <1>11, <1>13, <1>14, Joined, Zenon
    <2>1. /\ t \in Seq(Item) /\ Len(t) = lead + 1
          /\ \A i \in 1..lead : t[i] = first[i]
          /\ \A i \in (lead + 1)..(lead + 1) : t[i] = one[i - lead]
      BY <1>11, <1>13, <2>0
    <2>2. lead + 1 \in (lead + 1)..(lead + 1) /\ (lead + 1) - lead = 1
      BY <1>1
    <2>3. t[lead + 1] = one[1]
      BY <2>1, <2>2
    <2>4. QED BY <1>11, <1>13, <2>1, <2>3
  <1>16. PICK u : u = t \o r.body
    OBVIOUS
  <1>17. /\ u \in Seq(Item) /\ Len(u) = lead + 1 + (Len(h) - b)
         /\ \A i \in 1..(lead + 1) : u[i] = t[i]
         /\ \A i \in (lead + 2)..Len(u) : u[i] = r.body[i - (lead + 1)]
    <2>0. /\ u \in Seq(Item) /\ Len(u) = Len(t) + Len(r.body)
          /\ \A i \in 1..Len(t) : u[i] = t[i]
          /\ \A i \in (Len(t) + 1)..(Len(t) + Len(r.body)) : u[i] = r.body[i - Len(t)]
      <3>1. PICK rb : rb = r.body
        OBVIOUS
      <3>2. rb \in Seq(Item) /\ u = t \o rb
        BY <3>1, <1>5, <1>16
      <3>3. /\ u \in Seq(Item) /\ Len(u) = Len(t) + Len(rb)
            /\ \A i \in 1..Len(t) : u[i] = t[i]
            /\ \A i \in (Len(t) + 1)..(Len(t) + Len(rb)) : u[i] = rb[i - Len(t)]
        BY <3>2, <1>15, Joined, Zenon
      <3>4. QED BY <3>1, <3>3
    <2>1. /\ u \in Seq(Item) /\ Len(u) = lead + 1 + (Len(h) - b)
          /\ \A i \in 1..(lead + 1) : u[i] = t[i]
          /\ \A i \in ((lead + 1) + 1)..((lead + 1) + (Len(h) - b)) :
               u[i] = r.body[i - (lead + 1)]
      BY <1>1, <1>5, <1>15, <2>0
    <2>2. \A i \in (lead + 2)..Len(u) : i \in ((lead + 1) + 1)..((lead + 1) + (Len(h) - b))
      BY <1>1, <2>1
    <2>3. QED BY <2>1, <2>2
  <1>18. k.body = u /\ k.segments = es \o r.segments
    BY <1>2, <1>4, <1>6, <1>8, <1>10, <1>12, <1>14, <1>16 DEF FoldEarlier
  <1>19. \A i \in (lead + 2)..Len(u) :
           /\ i - (lead + 1) \in 1..(Len(h) - b)
           /\ b + (i - (lead + 1)) = b + i - (lead + 1)
           /\ b + i - (lead + 1) \in (b + 1)..Len(h)
    <2>1. lead \in Nat /\ Len(h) \in Nat /\ b \in 0..Len(h)
      BY <1>1
    <2>2. \A i \in (lead + 2)..Len(u) : i \in (lead + 2)..(lead + 1 + (Len(h) - b))
      BY <1>17
    <2>3. QED BY <2>1, <2>2, Shifted
  <1>20. \A i \in (lead + 2)..Len(u) :
           /\ Squeezed(u[i]) = Squeezed(h[b + i - (lead + 1)])
           /\ u[i].side = h[b + i - (lead + 1)].side
           /\ form = "responses" => u[i].size # "big"
    BY <1>5, <1>17, <1>19, SMTT(30)
  <1>21. /\ k.segments \in Seq(Segment)
         /\ ToSet(k.segments) = ToSet(es) \cup ToSet(r.segments)
    BY <1>5, <1>9, <1>18, ToSetConcat
  <1>22. \A y \in ToSet(k.segments) : \E i \in DOMAIN h :
           y.line = h[i].line /\ y.role = h[i].role
    <2>1. \A i \in E : i \in DOMAIN h
      BY <1>1
    <2>2. \A i \in 1..(Len(h) - b) : b + i \in DOMAIN h
      BY <1>1
    <2> HIDE DEF E
    <2>3. QED BY <1>5, <1>9, <1>21, <2>1, <2>2
  <1>23. lead + 1 \in 1..(lead + 1) /\ \A i \in 1..lead : i \in 1..(lead + 1)
    BY <1>1
  <1>24. (\A i \in 1..lead : u[i] = h[i]) /\ u[lead + 1] = SummaryMessage
    BY <1>15, <1>17, <1>23
  <1>25. \A i \in (lead + 2)..Len(u) :
           /\ b + i - (lead + 1) \in (b + 1)..Len(h)
           /\ Squeezed(u[i]) = Squeezed(h[b + i - (lead + 1)])
           /\ u[i].side = h[b + i - (lead + 1)].side
           /\ form = "responses" => u[i].size # "big"
    BY <1>19, <1>20, Zenon
  <1>26. /\ lead \in 0..Len(h) /\ b \in lead..Len(h)
         /\ u \in Seq(Item) /\ Len(u) = lead + 1 + (Len(h) - b)
    BY <1>1, <1>17, Zenon
  <1>27. k.body = u /\ k.segments \in Seq(Segment)
    BY <1>18, <1>21, Zenon
  <1>28. QED BY <1>22, <1>24, <1>25, <1>26, <1>27, Zenon DEF EarlierFolded


-----------------------------------------------------------------------------
(* The last pass.                                                           *)

\* What may be long when it comes to the items h and the instructions top.
LongIn(h, top) ==
  {h[i].line : i \in Bigs(h)}
    \cup {h[i].side.line : i \in {i \in DOMAIN h : h[i].side.size = "big"}}
    \cup (IF top.size = "big" THEN {top.line} ELSE {})

LEMMA PlacesOfItems ==
  ASSUME NEW h \in Seq(Item)
  PROVE  /\ Cardinality(LongPlaces(h)) \in Nat
         /\ \A place \in LongPlaces(h) :
              /\ place[1] \in DOMAIN h
              /\ place[2] = "text" => place[1] \in Bigs(h)
              /\ place[2] # "text" => h[place[1]].side.size = "big"
  <1> DEFINE P == (DOMAIN h) \X {"text", "side"}
             S == {i \in DOMAIN h : h[i].side.size = "big"}
  <1>1. Bigs(h) \in SUBSET (DOMAIN h) /\ S \in SUBSET (DOMAIN h)
    BY ItemsOf
  <1>2. LongPlaces(h) = (Bigs(h) \X {"text"}) \cup (S \X {"side"})
    BY DEF LongPlaces
  <1> HIDE DEF S
  <1>3. LongPlaces(h) \in SUBSET P
    BY <1>1, <1>2
  <1>4. IsFiniteSet(P)
    <2>1. IsFiniteSet(DOMAIN h)
      BY ItemsOf, FS_Interval
    <2>2. IsFiniteSet({"text", "side"})
      <3>1. IsFiniteSet({"text"}) /\ IsFiniteSet({"side"})
        BY FS_Singleton
      <3>2. {"text", "side"} = {"text"} \cup {"side"}
        OBVIOUS
      <3>3. QED BY <3>1, <3>2, FS_Union
    <2>3. QED BY <2>1, <2>2, FS_Product
  <1>5. Cardinality(LongPlaces(h)) \in Nat
    <2> HIDE DEF P
    <2>1. QED BY <1>3, <1>4, FS_Subset, FS_CardinalityType
  <1>6. ASSUME NEW place \in LongPlaces(h)
        PROVE  /\ place[1] \in DOMAIN h
               /\ place[2] = "text" => place[1] \in Bigs(h)
               /\ place[2] # "text" => place[1] \in S
    BY <1>1, <1>2, <1>6
  <1>7. \A i \in S : h[i].side.size = "big"
    BY DEF S
  <1>8. QED BY <1>5, <1>6, <1>7

LEMMA LongSegmentFacts ==
  ASSUME NEW form, NEW h \in Seq(Item), NEW top, NEW place \in LongPlaces(h),
         NEW y, y = LongSegment(form, h, place)
  PROVE  y \in Segment /\ y.line \in LongIn(h, top)
  <1>1. PICK i, kind : i = place[1] /\ kind = place[2]
    OBVIOUS
  <1>2. /\ i \in DOMAIN h /\ h[i] \in Item
        /\ kind = "text" => i \in Bigs(h)
        /\ kind # "text" => h[i].side.size = "big"
    BY <1>1, PlacesOfItems, ItemsOf
  <1>3. y = IF kind = "text" THEN [role |-> "user", line |-> h[i].line]
            ELSE [role |-> IF form = "responses" THEN "user" ELSE "call",
                  line |-> h[i].side.line]
    BY <1>1 DEF LongSegment
  <1>4. h[i].line \in Lines \cup {Silent} /\ h[i].side.line \in Lines \cup {Silent}
    BY <1>2 DEF Item, Text
  <1>5. y \in Segment
    BY <1>3, <1>4 DEF Segment, Roles
  <1>6. kind = "text" => y.line \in LongIn(h, top)
    BY <1>2, <1>3 DEF LongIn
  <1>7. kind # "text" => y.line \in LongIn(h, top)
    BY <1>2, <1>3 DEF LongIn
  <1>8. QED BY <1>5, <1>6, <1>7

LEMMA LongSegmentsFacts ==
  ASSUME NEW form, NEW h \in Seq(Item), NEW top \in Text,
         NEW more \in LongSegments(form, h, top)
  PROVE  /\ more \in Seq(Segment)
         /\ \A y \in ToSet(more) : y.line \in LongIn(h, top)
  <1> DEFINE long(w) == [k \in DOMAIN w |-> LongSegment(form, h, w[k])]
             lead == IF top.size = "big" THEN <<[role |-> "user", line |-> top.line]>> ELSE <<>>
  <1>1. PICK w \in Walks(h) : more \in {lead \o long(w), long(w) \o lead}
    BY DEF LongSegments
  <1>2. w \in [1..Cardinality(LongPlaces(h)) -> LongPlaces(h)]
    BY <1>1 DEF Walks, SetToSeqs
  <1>3. PICK n : n = Cardinality(LongPlaces(h))
    OBVIOUS
  <1>4. n \in Nat /\ w \in [1..n -> LongPlaces(h)]
    BY <1>2, <1>3, PlacesOfItems
  <1>5. PICK t : t = long(w)
    OBVIOUS
  <1>6. DOMAIN t = 1..n /\ \A k \in 1..n : t[k] \in Segment /\ t[k].line \in LongIn(h, top)
    <2>1. t = [k \in 1..n |-> LongSegment(form, h, w[k])]
      BY <1>4, <1>5
    <2>2. ASSUME NEW k \in 1..n PROVE t[k] \in Segment /\ t[k].line \in LongIn(h, top)
      <3>1. w[k] \in LongPlaces(h) /\ t[k] = LongSegment(form, h, w[k])
        BY <1>4, <2>1
      <3>2. QED BY <3>1, LongSegmentFacts
    <2>3. QED BY <2>1, <2>2
  <1>7. t \in Seq(Segment)
    <2>1. t = [k \in 1..n |-> t[k]]
      BY <1>4, <1>5, <1>6
    <2>2. t \in [1..n -> Segment]
      BY <1>6, <2>1
    <2>3. QED BY <1>4, <2>2, SeqDef
  <1>8. \A y \in ToSet(t) : y.line \in LongIn(h, top)
    BY <1>6 DEF ToSet
  <1>9. PICK l : l = lead
    OBVIOUS
  <1>10. l \in Seq(Segment) /\ \A y \in ToSet(l) : y.line \in LongIn(h, top)
    <2>1. CASE top.size = "big"
      <3>1. PICK x : x = [role |-> "user", line |-> top.line]
        OBVIOUS
      <3>2. x \in Segment /\ x.line \in LongIn(h, top)
        BY <2>1, <3>1 DEF Segment, Roles, Text, LongIn
      <3>3. l = <<x>>
        BY <1>9, <2>1, <3>1
      <3>4. QED BY <3>2, <3>3 DEF ToSet
    <2>2. CASE top.size # "big"
      BY <1>9, <2>2 DEF ToSet
    <2>3. QED BY <2>1, <2>2
  <1>11. more = l \o t \/ more = t \o l
    BY <1>1, <1>5, <1>9
  <1>12. more \in Seq(Segment) /\ ToSet(more) = ToSet(l) \cup ToSet(t)
    <2>1. CASE more = l \o t
      BY <1>7, <1>10, <2>1, ToSetConcat
    <2>2. CASE more = t \o l
      BY <1>7, <1>10, <2>2, ToSetConcat
    <2>3. QED BY <1>11, <2>1, <2>2
  <1>13. QED BY <1>8, <1>10, <1>12

\* What the last pass makes of a compaction k.
LastPass(k, top, c) ==
  /\ c.body \in Seq(Item) /\ c.segments \in Seq(Segment) /\ c.top \in Text
  /\ Len(c.body) = Len(k.body)
  /\ \A i \in DOMAIN k.body : c.body[i] = Squeezed(k.body[i])
  /\ \A y \in ToSet(c.segments) : y \in ToSet(k.segments) \/ y.line \in LongIn(k.body, top)

LEMMA CutLongStringsFacts ==
  ASSUME NEW form, NEW k, k.body \in Seq(Item), k.segments \in Seq(Segment), NEW top \in Text,
         NEW c \in CutLongStrings(form, k, top)
  PROVE  LastPass(k, top, c)
  <1>1. PICK kb, ks : kb = k.body /\ ks = k.segments
    OBVIOUS
  <1>2. PICK more \in LongSegments(form, kb, top) :
          /\ c.body = CutSides(CutAll(kb))
          /\ c.top = IF top.size = "big" THEN CutText ELSE top
          /\ c.segments = ks \o more
    BY <1>1 DEF CutLongStrings
  <1>3. /\ c.body \in Seq(Item) /\ Len(c.body) = Len(kb)
        /\ \A i \in DOMAIN kb : c.body[i] = Squeezed(kb[i])
    BY <1>1, <1>2, CutSidesFacts
  <1>4. more \in Seq(Segment) /\ \A y \in ToSet(more) : y.line \in LongIn(kb, top)
    BY <1>1, <1>2, LongSegmentsFacts
  <1>5. c.segments \in Seq(Segment) /\ ToSet(c.segments) = ToSet(ks) \cup ToSet(more)
    BY <1>1, <1>2, <1>4, ToSetConcat
  <1>6. c.top \in Text
    BY <1>2, TextTypes
  <1>7. QED BY <1>1, <1>3, <1>4, <1>5, <1>6 DEF LastPass

\* The history is folded at a boundary, or only its long texts are cut.
AtEdge(form, h) == Len(h) > 1 /\ Boundary(form, h) > Lead(form, h)

InPlace(h, c) ==
  /\ Len(c.body) = Len(h)
  /\ \A i \in DOMAIN h : c.body[i] = Squeezed(h[i])
  /\ \E i \in DOMAIN h : h[i].size = "big"

\* What is long behind the boundary beside the texts.
Beside(h, b, top) ==
  {h[i].side.line : i \in {i \in (b + 1)..Len(h) : h[i].side.size = "big"}}
    \cup (IF top.size = "big" THEN {top.line} ELSE {})

FoldedAt(form, h, top, c, lead, b) ==
  /\ lead \in 0..Len(h) /\ b \in lead..Len(h)
  /\ Len(c.body) = lead + 1 + (Len(h) - b)
  /\ \A i \in 1..lead : c.body[i] = Squeezed(h[i])
  /\ c.body[lead + 1] = SummaryMessage
  /\ \A i \in (lead + 2)..Len(c.body) :
       /\ b + i - (lead + 1) \in (b + 1)..Len(h)
       /\ c.body[i] = Squeezed(h[b + i - (lead + 1)])
  /\ form = "responses" => \A y \in ToSet(c.segments) :
       \/ \E i \in DOMAIN h : y.line = h[i].line /\ y.role = h[i].role
       \/ y.line \in Beside(h, b, top)

LEMMA InPlaceFacts ==
  ASSUME NEW form, NEW h \in Seq(Item), NEW top \in Text, NEW k \in CutLongest(h),
         NEW c \in CutLongStrings(form, k, top)
  PROVE  /\ c.body \in Seq(Item) /\ c.segments \in Seq(Segment) /\ c.top \in Text
         /\ InPlace(h, c)
  <1>1. PICK j \in Bigs(h) : k = [body |-> [h EXCEPT ![j] = Cut(@)],
                                  segments |-> SegmentsOf(<<h[j]>>)]
    BY DEF CutLongest
  <1>2. j \in DOMAIN h /\ h[j].size = "big" /\ h[j] \in Item /\ j \in 1..Len(h)
    BY <1>1, ItemsOf DEF Bigs
  <1>3. PICK cutBody : cutBody = [h EXCEPT ![j] = Cut(h[j])]
    OBVIOUS
  <1>4. /\ cutBody \in Seq(Item) /\ Len(cutBody) = Len(h) /\ DOMAIN cutBody = DOMAIN h
        /\ \A i \in DOMAIN h : cutBody[i] = IF i = j THEN Cut(h[j]) ELSE h[i]
    BY <1>2, <1>3, CutFacts, ItemsOf, ExceptSeq
  <1>5. PICK one : one = <<h[j]>>
    OBVIOUS
  <1>6. PICK s : s = SegmentsOf(one)
    OBVIOUS
  <1>7. s \in Seq(Segment)
    <2>1. one \in Seq(Item)
      BY <1>2, <1>5
    <2>2. QED BY <1>6, <2>1, SegmentsOfFacts
  <1>8. k.body = cutBody /\ k.segments = s
    BY <1>1, <1>3, <1>5, <1>6
  <1>9. LastPass(k, top, c)
    BY <1>4, <1>7, <1>8, CutLongStringsFacts
  <1>10. \A i \in DOMAIN h : c.body[i] = Squeezed(h[i])
    <2>1. \A i \in DOMAIN h : c.body[i] = Squeezed(cutBody[i])
      BY <1>4, <1>8, <1>9 DEF LastPass
    <2>2. Squeezed(Cut(h[j])) = Squeezed(h[j])
      BY <1>2, CutFacts
    <2>3. QED BY <1>4, <2>1, <2>2
  <1>11. /\ c.body \in Seq(Item) /\ c.segments \in Seq(Segment) /\ c.top \in Text
         /\ Len(c.body) = Len(h)
    BY <1>4, <1>8, <1>9 DEF LastPass
  <1>12. QED BY <1>2, <1>10, <1>11 DEF InPlace

LEMMA FoldedFacts ==
  ASSUME NEW form, NEW h \in Seq(Item), NEW top \in Text, NEW k, k = FoldEarlier(form, h),
         NEW c \in CutLongStrings(form, k, top),
         NEW lead, lead = Lead(form, h), NEW b, b = Boundary(form, h)
  PROVE  /\ c.body \in Seq(Item) /\ c.segments \in Seq(Segment) /\ c.top \in Text
         /\ FoldedAt(form, h, top, c, lead, b)
  <1>1. /\ lead \in 0..Len(h) /\ b \in lead..Len(h) /\ Len(h) \in Nat
        /\ DOMAIN h = 1..Len(h) /\ \A i \in DOMAIN h : h[i] \in Item
    BY ItemsOf, FoldEarlierFacts DEF EarlierFolded
  <1>2. PICK kb : kb = k.body
    OBVIOUS
  <1>3. PICK ks : ks = k.segments
    OBVIOUS
  <1>4. /\ kb \in Seq(Item) /\ ks \in Seq(Segment)
        /\ Len(kb) = lead + 1 + (Len(h) - b)
        /\ \A i \in 1..lead : kb[i] = h[i]
        /\ kb[lead + 1] = SummaryMessage
        /\ \A i \in (lead + 2)..Len(kb) :
              /\ b + i - (lead + 1) \in (b + 1)..Len(h)
              /\ Squeezed(kb[i]) = Squeezed(h[b + i - (lead + 1)])
              /\ kb[i].side = h[b + i - (lead + 1)].side
              /\ form = "responses" => kb[i].size # "big"
        /\ \A y \in ToSet(ks) : \E i \in DOMAIN h : y.line = h[i].line /\ y.role = h[i].role
    <2>1. EarlierFolded(form, h, k, lead, b)
      BY FoldEarlierFacts
    <2>2. QED BY <1>2, <1>3, <2>1 DEF EarlierFolded
  <1>5. LastPass(k, top, c)
    BY <1>2, <1>3, <1>4, CutLongStringsFacts
  <1>6. /\ c.body \in Seq(Item) /\ c.segments \in Seq(Segment) /\ c.top \in Text
        /\ Len(c.body) = Len(kb)
        /\ \A i \in DOMAIN kb : c.body[i] = Squeezed(kb[i])
        /\ \A y \in ToSet(c.segments) : y \in ToSet(ks) \/ y.line \in LongIn(kb, top)
    BY <1>2, <1>3, <1>5 DEF LastPass
  <1>7. DOMAIN kb = 1..Len(kb)
    BY <1>4, ItemsOf
  <1>8. /\ \A i \in 1..lead : i \in DOMAIN kb
        /\ lead + 1 \in DOMAIN kb
        /\ \A i \in (lead + 2)..Len(kb) : i \in DOMAIN kb
        /\ \A i \in DOMAIN kb : i \in 1..lead \/ i = lead + 1 \/ i \in (lead + 2)..Len(kb)
    <2>1. Len(kb) = lead + 1 + (Len(h) - b)
      BY <1>4
    <2>2. lead \in Nat /\ Len(h) - b \in Nat
      BY <1>1
    <2>3. PICK n \in Nat : n = Len(h) - b
      BY <2>2
    <2>4. /\ \A i \in 1..lead : i \in 1..(lead + 1 + n)
          /\ lead + 1 \in 1..(lead + 1 + n)
          /\ \A i \in (lead + 2)..(lead + 1 + n) : i \in 1..(lead + 1 + n)
          /\ \A i \in 1..(lead + 1 + n) :
                i \in 1..lead \/ i = lead + 1 \/ i \in (lead + 2)..(lead + 1 + n)
      BY <2>2
    <2>5. QED BY <1>7, <2>1, <2>3, <2>4
  <1>9. c.body[lead + 1] = SummaryMessage
    BY <1>4, <1>6, <1>8, SummaryIsItem
  <1>10. ASSUME form = "responses" PROVE LongIn(kb, top) \subseteq Beside(h, b, top)
    <2>1. \A i \in DOMAIN kb : i = lead + 1 \/ i \in (lead + 2)..Len(kb)
      <3>1. lead = 0
        BY <1>10, LeadFacts
      <3>2. QED BY <1>8, <3>1
    <2>2. SummaryMessage.size # "big" /\ SummaryMessage.side.size # "big"
      BY SummaryIsItem DEF NoText
    <2>3. Bigs(kb) = {}
      BY <1>4, <1>10, <2>1, <2>2 DEF Bigs
    <2>4. ASSUME NEW i \in DOMAIN kb, kb[i].side.size = "big"
          PROVE  kb[i].side.line \in Beside(h, b, top)
      <3>1. i \in (lead + 2)..Len(kb)
        BY <1>4, <2>1, <2>2, <2>4
      <3>2. PICK j : j = b + i - (lead + 1)
        OBVIOUS
      <3>3. j \in (b + 1)..Len(h) /\ kb[i].side = h[j].side
        BY <1>4, <3>1, <3>2
      <3>4. QED BY <2>4, <3>3 DEF Beside
    <2>5. QED BY <2>3, <2>4 DEF LongIn, Beside
  <1>11. form = "responses" => \A y \in ToSet(c.segments) :
           \/ \E i \in DOMAIN h : y.line = h[i].line /\ y.role = h[i].role
           \/ y.line \in Beside(h, b, top)
    BY <1>4, <1>6, <1>10
  <1>12. \A i \in (lead + 2)..Len(c.body) :
           /\ b + i - (lead + 1) \in (b + 1)..Len(h)
           /\ c.body[i] = Squeezed(h[b + i - (lead + 1)])
    <2>1. ASSUME NEW i \in (lead + 2)..Len(kb), NEW j, j = b + i - (lead + 1)
          PROVE  j \in (b + 1)..Len(h) /\ c.body[i] = Squeezed(h[j])
      <3>1. j \in (b + 1)..Len(h) /\ Squeezed(kb[i]) = Squeezed(h[j])
        BY <1>4, <2>1
      <3>2. c.body[i] = Squeezed(kb[i])
        BY <1>6, <1>8
      <3>3. QED BY <3>1, <3>2
    <2>2. QED BY <1>6, <2>1
  <1>13. \A i \in 1..lead : c.body[i] = Squeezed(h[i])
    BY <1>4, <1>6, <1>8
  <1>14. QED
    BY <1>1, <1>4, <1>6, <1>9, <1>11, <1>12, <1>13 DEF FoldedAt

LEMMA CompactionFacts ==
  ASSUME NEW form, NEW h \in Seq(Item), h # <<>>, NEW top \in Text,
         NEW c \in Compactions(form, h, top)
  PROVE  /\ c.body \in Seq(Item) /\ c.segments \in Seq(Segment) /\ c.top \in Text
         /\ AtEdge(form, h) => FoldedAt(form, h, top, c, Lead(form, h), Boundary(form, h))
         /\ ~AtEdge(form, h) => InPlace(h, c)
  <1>1. PICK k \in IF Len(h) = 1 \/ Boundary(form, h) = Lead(form, h)
                   THEN CutLongest(h) ELSE {FoldEarlier(form, h)} :
          c \in CutLongStrings(form, k, top)
    BY DEF Compactions
  <1>2. /\ Len(h) \in Nat \ {0} /\ Lead(form, h) \in Nat
        /\ Boundary(form, h) \in Nat /\ Boundary(form, h) >= Lead(form, h)
    BY ItemsOf, EmptySeq, LeadFacts, BoundaryFacts
  <1>3. AtEdge(form, h) <=> ~(Len(h) = 1 \/ Boundary(form, h) = Lead(form, h))
    <2>1. PICK n, l, b : n = Len(h) /\ l = Lead(form, h) /\ b = Boundary(form, h)
      OBVIOUS
    <2>2. n \in Nat \ {0} /\ l \in Nat /\ b \in Nat /\ b >= l
      BY <1>2, <2>1
    <2>3. (n > 1 /\ b > l) <=> ~(n = 1 \/ b = l)
      BY <2>2
    <2>4. QED BY <2>1, <2>3 DEF AtEdge
  <1>4. CASE AtEdge(form, h)
    <2>1. k = FoldEarlier(form, h)
      BY <1>1, <1>3, <1>4
    <2>2. QED BY <1>1, <1>4, <2>1, FoldedFacts
  <1>5. CASE ~AtEdge(form, h)
    <2>1. k \in CutLongest(h)
      BY <1>1, <1>3, <1>5
    <2>2. QED BY <1>1, <1>5, <2>1, InPlaceFacts
  <1>6. QED BY <1>4, <1>5

-----------------------------------------------------------------------------
(* The summary and the adapter.                                             *)

LEMMA WithSummaryFacts ==
  ASSUME NEW h \in Seq(Item)
  PROVE  /\ WithSummary(h) \in Seq(Item)
         /\ Len(WithSummary(h)) = Len(h) /\ DOMAIN WithSummary(h) = DOMAIN h
         /\ \A i \in DOMAIN h :
              /\ WithSummary(h)[i].role = h[i].role
              /\ WithSummary(h)[i].line = h[i].line
              /\ WithSummary(h)[i].calls = h[i].calls
              /\ WithSummary(h)[i].answers = h[i].answers
              /\ i # Min({j \in DOMAIN h : h[j].size = "cut"}) =>
                   WithSummary(h)[i] = h[i]
              /\ i = Min({j \in DOMAIN h : h[j].size = "cut"}) =>
                   WithSummary(h)[i].size = "summary"
  <1>1. PICK m : m = Min({j \in DOMAIN h : h[j].size = "cut"})
    OBVIOUS
  <1>2. PICK t : t = [h EXCEPT ![m].size = "summary"]
    OBVIOUS
  <1>3. t = WithSummary(h)
    BY <1>1, <1>2 DEF WithSummary
  <1>4. \A i \in DOMAIN h : h[i] \in Item
    BY ItemsOf
  <1>5. t = [i \in DOMAIN h |-> IF i = m THEN [h[i] EXCEPT !.size = "summary"] ELSE h[i]]
    BY <1>2
  <1>6. \A i \in DOMAIN h : /\ [h[i] EXCEPT !.size = "summary"] \in Item
                            /\ [h[i] EXCEPT !.size = "summary"].role = h[i].role
                            /\ [h[i] EXCEPT !.size = "summary"].line = h[i].line
                            /\ [h[i] EXCEPT !.size = "summary"].calls = h[i].calls
                            /\ [h[i] EXCEPT !.size = "summary"].answers = h[i].answers
                            /\ [h[i] EXCEPT !.size = "summary"].size = "summary"
    BY <1>4 DEF Item
  <1>7. t \in [1..Len(h) -> Item] /\ DOMAIN t = DOMAIN h
    BY <1>4, <1>5, <1>6, ItemsOf
  <1>8. t \in Seq(Item)
    BY <1>7, ItemsOf, SeqDef
  <1>9. Len(t) = Len(h)
    BY <1>7, <1>8, ItemsOf
  <1>10. \A i \in DOMAIN h :
              /\ t[i].role = h[i].role /\ t[i].line = h[i].line
              /\ t[i].calls = h[i].calls /\ t[i].answers = h[i].answers
              /\ i # m => t[i] = h[i]
              /\ i = m => t[i].size = "summary"
    BY <1>5, <1>6
  <1>11. QED BY <1>1, <1>3, <1>7, <1>8, <1>9, <1>10

LEMMA DeliveredType ==
  ASSUME NEW form, NEW h \in Seq(Item)
  PROVE  Delivered(form, h) \in Seq(Item)
  <1>1. PICK g : g = IF form = "responses"
                     THEN Picked(h, {i \in DOMAIN h : h[i].role # "system"}) ELSE h
    OBVIOUS
  <1>2. Picked(h, {i \in DOMAIN h : h[i].role # "system"}) \in Seq(Item)
    <2> DEFINE I == {i \in DOMAIN h : h[i].role # "system"}
    <2>1. I \in SUBSET (DOMAIN h)
      OBVIOUS
    <2> HIDE DEF I
    <2>2. Picked(h, I) \in Seq(Item)
      BY <2>1, PickedFacts
    <2>3. QED BY <2>2 DEF I
  <1>3. g \in Seq(Item)
    BY <1>1, <1>2
  <1>4. DropOrphans(g) \in Seq(Item)
    BY <1>3, PickedFacts DEF DropOrphans
  <1>5. QED BY <1>1, <1>4 DEF Delivered

-----------------------------------------------------------------------------
(* Types.                                                                   *)

LEMMA NothingIsTyped ==
  /\ NoState \in State
  /\ NoRow \in Row
  /\ NotMade \in Compaction
  BY TextTypes DEF NoState, State, NoRow, Row, NotMade, Compaction

\* What a request asked, once it did.
LEMMA Asked ==
  ASSUME TypeOK, NEW r \in Requests, pc[r] # "idle"
  PROVE  /\ body[r].items \in Seq(Item) /\ body[r].items # <<>>
         /\ body[r].form \in {"chat", "responses"}
         /\ body[r].top \in Text
         /\ \A i \in DOMAIN body[r].items : body[r].items[i].size \in {"none", "short", "big"}
  BY SessionAssumption DEF TypeOK

\* The state a request works with when it saw that row.
Previous(seen) == IF seen.readable THEN seen.summary ELSE NoState

\* What a compaction c of request r is.
Outcome(r, c, seen) ==
  [body |-> WithSummary(c.body), top |-> c.top, segments |-> c.segments,
   state |-> RestoreState(Previous(seen), c.segments)]

LEMMA PreviousType ==
  ASSUME NEW seen \in Row
  PROVE  Previous(seen) \in State
  BY NothingIsTyped DEF Previous, Row

LEMMA OutcomeType ==
  ASSUME TypeOK, NEW r \in Requests, pc[r] # "idle", NEW seen \in Row,
         NEW c \in Compactions(body[r].form, body[r].items, body[r].top)
  PROVE  Outcome(r, c, seen) \in Compaction
  <1>1. c.body \in Seq(Item) /\ c.segments \in Seq(Segment) /\ c.top \in Text
    BY Asked, CompactionFacts
  <1>2. WithSummary(c.body) \in Seq(Item)
    BY <1>1, WithSummaryFacts
  <1>3. RestoreState(Previous(seen), c.segments) \in State
    BY <1>1, PreviousType, RestoreType
  <1>4. QED BY <1>1, <1>2, <1>3 DEF Outcome, Compaction

LEMMA FoldIs ==
  ASSUME NEW r, NEW seen, Fold(r, seen)
  PROVE  \E c \in Compactions(body[r].form, body[r].items, body[r].top) :
           /\ read' = [read EXCEPT ![r] = seen]
           /\ made' = [made EXCEPT ![r] = Outcome(r, c, seen)]
           /\ pc' = [pc EXCEPT ![r] = IF body[r].session THEN "made" ELSE "stored"]
  BY DEF Fold, Outcome, Previous

\* The requests that have taken part in at most one store.
Over == {r \in Requests : pc[r] \in {"stored", "forwarded", "refused"}}
Counted == stores <= Cardinality(Over)

Places == {"idle", "asked", "made", "missed", "stored", "forwarded", "refused"}

LEMMA OverFinite ==
  ASSUME NEW S \in SUBSET Requests
  PROVE  /\ IsFiniteSet(S) /\ Cardinality(S) \in Nat
         /\ Cardinality(S) <= Cardinality(Requests) /\ Cardinality(Requests) \in Nat
  BY SessionAssumption, FS_Subset, FS_CardinalityType

\* A request that is over stays so.
LEMMA OverGrows ==
  ASSUME TypeOK, [Next]_vars
  PROVE  Over \subseteq Over'
  <1>1. pc \in [Requests -> Places]
    BY DEF TypeOK, Places
  <1>2. ASSUME NEW r \in Requests, NEW p \in Places, pc' = [pc EXCEPT ![r] = p],
               r \in Over => p \in {"stored", "forwarded", "refused"}
        PROVE  Over \subseteq Over'
    BY <1>1, <1>2 DEF Over
  <1>3. ASSUME NEW r \in Requests, Arrive(r) PROVE Over \subseteq Over'
    BY <1>1, <1>3 DEF Arrive, Over
  <1>4. ASSUME NEW r \in Requests, Pass(r) \/ NotCompactable(r) PROVE Over \subseteq Over'
    BY <1>1, <1>4 DEF Pass, NotCompactable, Over
  <1>5. ASSUME NEW r \in Requests, Compact(r) \/ CompactUnread(r) PROVE Over \subseteq Over'
    BY <1>1, <1>5 DEF Compact, CompactUnread, Fold, Over
  <1>6. ASSUME NEW r \in Requests, Update(r) \/ Create(r) PROVE Over \subseteq Over'
    BY <1>1, <1>6 DEF Update, Create, Store, Over
  <1>7. ASSUME NEW r \in Requests, UpdateFoundNone(r) \/ StoreFails(r)
        PROVE  Over \subseteq Over'
    BY <1>1, <1>7 DEF UpdateFoundNone, StoreFails, Over
  <1>8. ASSUME NEW r \in Requests, Forward(r) PROVE Over \subseteq Over'
    BY <1>1, <1>8 DEF Forward, Over
  <1>9. CASE UNCHANGED vars \/ Done
    BY <1>9 DEF vars, Done, Over
  <1>10. QED BY <1>3, <1>4, <1>5, <1>6, <1>7, <1>8, <1>9 DEF Next

LEMMA TypeInit == Init => TypeOK /\ Counted
  <1> SUFFICES ASSUME Init PROVE TypeOK /\ Counted
    OBVIOUS
  <1>1. Cardinality(Requests) \in Nat /\ Cardinality(Over) \in Nat
    BY OverFinite DEF Over
  <1>2. QED BY <1>1, NothingIsTyped DEF Init, TypeOK, Counted

LEMMA StoreType ==
  ASSUME TypeOK, Counted, NEW r \in Requests, pc[r] \in {"made", "missed"}, Store(r)
  PROVE  /\ row' \in Row /\ stores' \in 0..Cardinality(Requests)
         /\ told' \subseteq Mark.fact /\ steady' \in BOOLEAN
         /\ Counted'
  <1>1. /\ made[r].state \in State /\ read[r].count \in Nat
        /\ made[r].segments \in Seq(Segment)
    BY DEF TypeOK, Compaction, Row
  <1>2. row' \in Row
    BY <1>1 DEF Store, Row, Fits
  <1>3. told' \subseteq Mark.fact /\ steady' \in BOOLEAN
    BY DEF TypeOK, Store
  <1>4. Over' = Over \cup {r} /\ r \notin Over /\ Over' \in SUBSET Requests
    BY DEF TypeOK, Store, Over
  <1>5. /\ IsFiniteSet(Over) /\ Cardinality(Over) \in Nat
        /\ Cardinality(Over') = Cardinality(Over) + 1
        /\ Cardinality(Over') <= Cardinality(Requests) /\ Cardinality(Requests) \in Nat
    <2>1. /\ IsFiniteSet(Over) /\ Cardinality(Over) \in Nat
          /\ Cardinality(Requests) \in Nat
      BY OverFinite DEF Over
    <2>2. Cardinality(Over \cup {r}) = Cardinality(Over) + 1
      BY <1>4, <2>1, FS_AddElement
    <2>3. Cardinality(Over') <= Cardinality(Requests)
      BY <1>4, OverFinite
    <2>4. QED BY <1>4, <2>1, <2>2, <2>3
  <1>6. stores \in Nat /\ stores' = stores + 1 /\ stores <= Cardinality(Over)
    BY DEF TypeOK, Counted, Store
  <1>7. QED BY <1>2, <1>3, <1>5, <1>6 DEF Counted

LEMMA CountedStays ==
  ASSUME TypeOK, Counted, [Next]_vars, UNCHANGED stores
  PROVE  Counted'
  <1>1. Over \subseteq Over' /\ Over' \in SUBSET Requests
    BY OverGrows DEF Over
  <1>2. /\ Cardinality(Over) <= Cardinality(Over')
        /\ Cardinality(Over) \in Nat /\ Cardinality(Over') \in Nat
    BY <1>1, OverFinite, FS_Subset DEF Over
  <1>3. stores \in Nat
    BY DEF TypeOK
  <1>4. QED BY <1>2, <1>3 DEF Counted

LEMMA FoldType ==
  ASSUME TypeOK, NEW r \in Requests, pc[r] = "asked", NEW seen \in Row, Fold(r, seen),
         UNCHANGED <<row, body, sent, stores, told, steady>>
  PROVE  TypeOK'
  <1>1. PICK c \in Compactions(body[r].form, body[r].items, body[r].top) :
          /\ read' = [read EXCEPT ![r] = seen]
          /\ made' = [made EXCEPT ![r] = Outcome(r, c, seen)]
          /\ pc' = [pc EXCEPT ![r] = IF body[r].session THEN "made" ELSE "stored"]
    BY FoldIs
  <1>2. Outcome(r, c, seen) \in Compaction
    BY OutcomeType
  <1>3. read' \in [Requests -> Row] /\ made' \in [Requests -> Compaction]
    BY <1>1, <1>2 DEF TypeOK
  <1>4. pc' \in [Requests -> {"idle", "asked", "made", "missed", "stored", "forwarded", "refused"}]
    BY <1>1 DEF TypeOK
  <1>5. \A q \in Requests : pc'[q] # "idle" => body'[q] \in Bodies[q]
    BY <1>1 DEF TypeOK
  <1>6. QED BY <1>3, <1>4, <1>5 DEF TypeOK

LEMMA TypeStep ==
  ASSUME TypeOK, Counted, [Next]_vars
  PROVE  TypeOK' /\ Counted'
  <1> USE DEF history
  <1>1. ASSUME NEW r \in Requests, Arrive(r) PROVE TypeOK' /\ Counted'
    <2>1. TypeOK'
      BY <1>1 DEF TypeOK, Arrive
    <2>2. QED BY <1>1, <2>1, CountedStays DEF Arrive
  <1>2. ASSUME NEW r \in Requests, Pass(r) PROVE TypeOK' /\ Counted'
    <2>1. Delivered(body[r].form, body[r].items) \in Seq(Item)
      BY <1>2, Asked, DeliveredType DEF Pass
    <2>2. TypeOK'
      BY <1>2, <2>1 DEF TypeOK, Pass
    <2>3. QED BY <1>2, <2>2, CountedStays DEF Pass
  <1>3. ASSUME NEW r \in Requests, Compact(r) \/ CompactUnread(r)
        PROVE  TypeOK' /\ Counted'
    <2>1. PICK seen \in Row : Fold(r, seen)
      <3>1. NoRow \in Row /\ Answer(r) \in Row
        BY NothingIsTyped DEF Answer, TypeOK
      <3>2. QED BY <1>3, <3>1 DEF Compact, CompactUnread
    <2>2. pc[r] = "asked" /\ UNCHANGED <<row, body, sent, stores, told, steady>>
      BY <1>3 DEF Compact, CompactUnread
    <2>3. QED BY <2>1, <2>2, FoldType, CountedStays
  <1>4. ASSUME NEW r \in Requests, NotCompactable(r) \/ UpdateFoundNone(r) \/ StoreFails(r)
        PROVE  TypeOK' /\ Counted'
    <2>1. TypeOK'
      BY <1>4 DEF TypeOK, NotCompactable, UpdateFoundNone, StoreFails
    <2>2. QED BY <1>4, <2>1, CountedStays DEF NotCompactable, UpdateFoundNone, StoreFails
  <1>5. ASSUME NEW r \in Requests, Update(r) \/ Create(r) PROVE TypeOK' /\ Counted'
    <2>1. pc[r] \in {"made", "missed"} /\ Store(r) /\ UNCHANGED <<body, read, made, sent>>
      BY <1>5 DEF Update, Create
    <2>2. pc' = [pc EXCEPT ![r] = "stored"]
      BY <2>1 DEF Store
    <2>3. QED BY <2>1, <2>2, StoreType DEF TypeOK
  <1>6. ASSUME NEW r \in Requests, Forward(r) PROVE TypeOK' /\ Counted'
    <2>1. pc[r] = "stored" /\ made[r].body \in Seq(Item)
      BY <1>6 DEF Forward, TypeOK, Compaction
    <2>2. Delivered(body[r].form, made[r].body) \in Seq(Item)
      BY <2>1, DeliveredType
    <2>3. TypeOK'
      BY <1>6, <2>1, <2>2 DEF TypeOK, Forward
    <2>4. QED BY <1>6, <2>3, CountedStays DEF Forward
  <1>7. CASE UNCHANGED vars \/ Done
    <2>1. UNCHANGED vars
      BY <1>7 DEF Done
    <2>2. TypeOK' /\ UNCHANGED stores
      BY <2>1 DEF vars, TypeOK
    <2>3. QED BY <2>2, CountedStays
  <1>8. QED BY <1>1, <1>2, <1>3, <1>4, <1>5, <1>6, <1>7 DEF Next

(* Whatever a session's requests ask and in whatever order their statements run
   and fail: the row, the summaries and the bodies made of them keep their types,
   and prepareGatewayContext stores at most one summary per request. *)
THEOREM TypeCorrect == Spec => []TypeOK
  <1>1. Spec => [](TypeOK /\ Counted)
    BY TypeInit, TypeStep, PTL DEF Spec
  <1>2. QED BY <1>1, PTL

-----------------------------------------------------------------------------
(* The compaction of a request, while it is stored and sent.                *)

\* What was made of request r is one of its compactions, with the row it saw.
IsMade(r) ==
  \E c \in Compactions(body[r].form, body[r].items, body[r].top) : made[r] = Outcome(r, c, read[r])

MadeInv ==
  \A r \in Requests :
    /\ Compacted(r) => pc[r] \notin {"idle", "asked"}
    /\ Compacted(r) \/ pc[r] \in {"made", "missed", "stored"} => IsMade(r)

LEMMA MadeInit == Init => MadeInv
  BY DEF Init, MadeInv, Compacted

\* A step that leaves the request, its row and its compaction alone.
LEMMA MadeKept ==
  ASSUME MadeInv, NEW r \in Requests, made'[r] = made[r], read'[r] = read[r],
         body'[r] = body[r],
         pc[r] \in {"idle", "asked"} \/ pc'[r] \notin {"idle", "asked"},
         pc'[r] \in {"made", "missed", "stored"} => pc[r] \in {"made", "missed", "stored"},
         pc'[r] \in {"idle", "asked"} => pc[r] \in {"idle", "asked"}
  PROVE  /\ Compacted(r)' => pc'[r] \notin {"idle", "asked"}
         /\ Compacted(r)' \/ pc'[r] \in {"made", "missed", "stored"} => IsMade(r)'
  <1>1. IsMade(r) => IsMade(r)'
    BY DEF IsMade, Outcome
  <1>2. Compacted(r)' => Compacted(r)
    BY DEF Compacted
  <1>3. QED BY <1>1, <1>2 DEF MadeInv

LEMMA MadeStep ==
  ASSUME TypeOK, MadeInv, [Next]_vars
  PROVE  MadeInv'
  <1> DEFINE Fine(q) == /\ Compacted(q)' => pc'[q] \notin {"idle", "asked"}
                        /\ Compacted(q)' \/ pc'[q] \in {"made", "missed", "stored"}
                             => IsMade(q)'
  <1> SUFFICES ASSUME NEW q \in Requests PROVE Fine(q)
    BY DEF MadeInv
  <1>0. pc \in [Requests -> Places] /\ made \in [Requests -> Compaction]
          /\ read \in [Requests -> Row] /\ DOMAIN body = Requests
    BY DEF TypeOK, Places
  <1>1. ASSUME NEW r \in Requests, Arrive(r) PROVE Fine(q)
    <2>1. CASE q = r
      <3>1. ~Compacted(q) /\ made' = made /\ pc'[q] = "asked"
        BY <1>0, <1>1, <2>1 DEF Arrive, MadeInv
      <3>2. ~Compacted(q)'
        BY <3>1 DEF Compacted
      <3>3. QED BY <3>1, <3>2
    <2>2. CASE q # r
      <3>1. made'[q] = made[q] /\ read'[q] = read[q] /\ body'[q] = body[q] /\ pc'[q] = pc[q]
        BY <1>0, <1>1, <2>2 DEF Arrive
      <3>2. QED BY <3>1, MadeKept
    <2>3. QED BY <2>1, <2>2
  <1>2. ASSUME NEW r \in Requests, Pass(r) \/ NotCompactable(r) PROVE Fine(q)
    <2>1. made' = made /\ read' = read /\ body' = body
            /\ pc'[r] \in {"forwarded", "refused"} /\ \A p \in Requests \ {r} : pc'[p] = pc[p]
      BY <1>0, <1>2 DEF Pass, NotCompactable
    <2>2. QED BY <2>1, MadeKept
  <1>3. ASSUME NEW r \in Requests, Compact(r) \/ CompactUnread(r) PROVE Fine(q)
    <2>1. PICK seen : Fold(r, seen)
      BY <1>3 DEF Compact, CompactUnread
    <2>2. PICK c \in Compactions(body[r].form, body[r].items, body[r].top) :
            /\ read' = [read EXCEPT ![r] = seen]
            /\ made' = [made EXCEPT ![r] = Outcome(r, c, seen)]
            /\ pc' = [pc EXCEPT ![r] = IF body[r].session THEN "made" ELSE "stored"]
      BY <2>1, FoldIs
    <2>3. body' = body /\ pc[r] = "asked"
      BY <1>3 DEF Compact, CompactUnread
    <2>4. CASE q = r
      <3>1. /\ made'[q] = Outcome(q, c, seen) /\ read'[q] = seen
            /\ pc'[q] \in {"made", "stored"}
        BY <1>0, <2>2, <2>4
      <3>2. IsMade(q)'
        BY <2>2, <2>3, <2>4, <3>1 DEF IsMade, Outcome
      <3>3. QED BY <3>1, <3>2
    <2>5. CASE q # r
      <3>1. made'[q] = made[q] /\ read'[q] = read[q] /\ pc'[q] = pc[q]
        BY <1>0, <2>2, <2>5
      <3>2. QED BY <2>3, <3>1, MadeKept
    <2>6. QED BY <2>4, <2>5
  <1>4. ASSUME NEW r \in Requests, Update(r) \/ Create(r) \/ UpdateFoundNone(r) \/ StoreFails(r)
        PROVE Fine(q)
    <2>1. /\ made' = made /\ read' = read /\ body' = body
          /\ pc[r] \in {"made", "missed"} /\ pc'[r] \in {"missed", "stored"}
          /\ \A p \in Requests \ {r} : pc'[p] = pc[p]
      BY <1>0, <1>4 DEF Update, Create, Store, UpdateFoundNone, StoreFails
    <2>2. QED BY <2>1, MadeKept
  <1>5. ASSUME NEW r \in Requests, Forward(r) PROVE Fine(q)
    <2>1. /\ made' = made /\ read' = read /\ body' = body
          /\ pc[r] = "stored" /\ pc'[r] \in {"forwarded", "refused"}
          /\ \A p \in Requests \ {r} : pc'[p] = pc[p]
      BY <1>0, <1>5 DEF Forward
    <2>2. QED BY <2>1, MadeKept
  <1>6. CASE UNCHANGED vars \/ Done
    <2>1. made' = made /\ read' = read /\ body' = body /\ pc' = pc
      BY <1>6 DEF vars, Done
    <2>2. QED BY <2>1, MadeKept
  <1>7. QED BY <1>1, <1>2, <1>3, <1>4, <1>5, <1>6 DEF Next

LEMMA MadeHolds == Spec => [](TypeOK /\ MadeInv)
  <1>1. Spec => []TypeOK
    BY TypeCorrect
  <1>2. QED BY <1>1, MadeInit, MadeStep, PTL DEF Spec

(* For every wording of the texts, every list limit and every history: the restore
   state buildGatewayContextRestoreState makes never both allows going on and
   forbids, stops or asks, and never stops without a prohibition and a question. *)
THEOREM RestoreStatesConsistent == Spec => []RestoreConsistent
  <1>1. ASSUME MadeInv PROVE RestoreConsistent
    <2>1. ASSUME NEW r \in Requests, Compacted(r), NEW s, s = made[r].state
          PROVE  /\ s.latest \in Mark.allow =>
                      s.phase = "executing" /\ s.mustNotDo = {} /\ ~s.confirm
                 /\ s.phase = "stopped" => s.mustNotDo # {} /\ s.confirm
      <3>1. PICK c \in Compactions(body[r].form, body[r].items, body[r].top) :
              made[r] = Outcome(r, c, read[r])
        BY <1>1, <2>1 DEF MadeInv, IsMade
      <3>2. s = RestoreState(Previous(read[r]), c.segments)
        BY <2>1, <3>1 DEF Outcome
      <3>3. QED BY <3>2, RestoreSaysOneThing
    <2>2. QED BY <2>1 DEF RestoreConsistent
  <1>2. QED BY <1>1, MadeHolds, PTL

-----------------------------------------------------------------------------
(* What the row of the session remembers.                                   *)

Remembered(seen) == seen.count <= stores /\ ToSet(seen.summary.facts) \subseteq told
                    /\ NoRepeat(seen.summary.facts)

MemoryInv ==
  /\ IsFiniteSet(told)
  /\ Remembered(row)
  /\ \A r \in Requests : Remembered(read[r])
  /\ steady => /\ row.readable \/ row = NoRow
               /\ row.count = stores
               /\ Cardinality(told) <= FactLimit => told = ToSet(row.summary.facts)

LEMMA MemoryInit == Init => MemoryInv
  <1> SUFFICES ASSUME Init PROVE MemoryInv
    OBVIOUS
  <1>1. ToSet(NoRow.summary.facts) = {} /\ NoRepeat(NoRow.summary.facts) /\ NoRow.count = 0
    BY NothingRepeats DEF NoRow, NoState
  <1>2. Remembered(row) /\ \A r \in Requests : Remembered(read[r])
    BY <1>1 DEF Init, Remembered
  <1>3. IsFiniteSet(told) /\ told = {}
    BY FS_EmptySet DEF Init
  <1>4. row.count = stores
    BY DEF Init, NoRow
  <1>5. QED BY <1>1, <1>2, <1>3, <1>4 DEF MemoryInv, Init

LEMMA NothingRemembered ==
  ASSUME MemoryInv, TypeOK
  PROVE  Remembered(NoRow)
  <1>1. ToSet(NoRow.summary.facts) = {} /\ NoRepeat(NoRow.summary.facts) /\ NoRow.count = 0
    BY NothingRepeats DEF NoRow, NoState
  <1>2. QED BY <1>1 DEF TypeOK, Remembered

\* A step that stores nothing keeps the memory.
LEMMA MemoryKept ==
  ASSUME MemoryInv, UNCHANGED <<row, stores, told, steady>>,
         \A r \in Requests : read'[r] = read[r] \/ Remembered(read'[r])
  PROVE  MemoryInv'
  BY DEF MemoryInv, Remembered

LEMMA SetOfFew ==
  ASSUME NEW S, NEW s \in Seq(S)
  PROVE  IsFiniteSet(ToSet(s))
  <1> DEFINE T == ToSet(s)
  <1>1. Len(s) \in Nat /\ DOMAIN s = 1..Len(s) /\ T = {s[i] : i \in DOMAIN s}
    BY LenProperties DEF ToSet
  <1>2. s \in Surjection(1..Len(s), T)
    <2>1. s \in [1..Len(s) -> T]
      BY <1>1, LenProperties
    <2>2. \A t \in T : \E i \in 1..Len(s) : s[i] = t
      BY <1>1
    <2> HIDE DEF T
    <2>3. QED BY <2>1, <2>2 DEF Surjection
  <1> HIDE DEF T
  <1>3. IsFiniteSet(T)
    BY <1>1, <1>2, FS_Interval, FS_Surjection
  <1>4. QED BY <1>3 DEF T

\* The facts of a compaction.
LEMMA OutcomeFacts ==
  ASSUME TypeOK, MadeInv, NEW r \in Requests, pc[r] \in {"made", "missed"}
  PROVE  /\ made[r].state.facts =
              DurableFacts(Previous(read[r]), UserLines(made[r].segments))
         /\ UserLines(made[r].segments) \in Seq(Lines)
         /\ Previous(read[r]) \in State
  <1>1. PICK c \in Compactions(body[r].form, body[r].items, body[r].top) :
          made[r] = Outcome(r, c, read[r])
    BY DEF MadeInv, IsMade
  <1>2. /\ c.segments \in Seq(Segment) /\ made[r].segments = c.segments
        /\ made[r].state = RestoreState(Previous(read[r]), c.segments)
    <2>1. /\ body[r].items \in Seq(Item) /\ body[r].items # <<>> /\ body[r].top \in Text
      BY Asked
    <2>2. c.segments \in Seq(Segment)
      BY <1>1, <2>1, CompactionFacts
    <2>3. QED BY <1>1, <2>2 DEF Outcome
  <1>3. Previous(read[r]) \in State
    BY PreviousType DEF TypeOK
  <1>4. UserLines(c.segments) \in Seq(Lines)
    BY <1>2, UserLinesFacts
  <1>5. RestoreState(Previous(read[r]), c.segments).facts =
          DurableFacts(Previous(read[r]), UserLines(c.segments))
    BY DEF RestoreState
  <1>6. QED BY <1>2, <1>3, <1>4, <1>5

LEMMA StoreRemembers ==
  ASSUME TypeOK, MadeInv, MemoryInv, NEW r \in Requests,
         pc[r] \in {"made", "missed"}, Store(r), UNCHANGED read
  PROVE  MemoryInv'
  <1>1. PICK lines : lines = UserLines(made[r].segments)
    OBVIOUS
  <1>2. PICK previous : previous = Previous(read[r])
    OBVIOUS
  <1>3. PICK new : new = ToSet(lines) \cap Mark.fact
    OBVIOUS
  <1>4. /\ lines \in Seq(Lines) /\ previous \in State /\ previous.facts \in Seq(Lines)
        /\ made[r].state.facts = DurableFacts(previous, lines)
    BY <1>1, <1>2, OutcomeFacts DEF State
  <1>5. ToSet(previous.facts) \subseteq told /\ NoRepeat(previous.facts)
    <2>1. CASE read[r].readable
      BY <1>2, <2>1 DEF Previous, MemoryInv, Remembered
    <2>2. CASE ~read[r].readable
      BY <1>2, <2>2, NothingRepeats DEF Previous, NoState
    <2>3. QED BY <2>1, <2>2
  <1>6. /\ told' = told \cup new
        /\ stores' = stores + 1 /\ row'.count = read[r].count + 1
        /\ row'.summary = made[r].state /\ row'.readable = Fits(made[r].state)
        /\ steady' = (steady /\ row = read[r] /\ Fits(made[r].state))
    BY <1>1, <1>3 DEF Store
  <1>7. IsFiniteSet(told')
    <2>1. IsFiniteSet(ToSet(lines)) /\ new \in SUBSET ToSet(lines)
      BY <1>3, <1>4, SetOfFew
    <2>2. IsFiniteSet(new) /\ IsFiniteSet(told)
      BY <2>1, FS_Subset DEF MemoryInv
    <2>3. QED BY <1>6, <2>2, FS_Union
  <1>8. /\ stores \in Nat /\ read[r].count \in Nat
        /\ \A q \in Requests : read[q].count \in Nat
    BY DEF TypeOK, Row
  <1>9. Remembered(row)'
    <2>1. ToSet(made[r].state.facts) \subseteq told' /\ NoRepeat(made[r].state.facts)
      BY <1>3, <1>4, <1>5, <1>6, DurableFactsFacts
    <2>2. read[r].count <= stores
      BY DEF MemoryInv, Remembered
    <2>3. QED BY <1>6, <1>8, <2>1, <2>2 DEF Remembered
  <1>10. \A q \in Requests : Remembered(read[q])'
    <2>1. TAKE q \in Requests
    <2>2. read[q].count <= stores /\ ToSet(read[q].summary.facts) \subseteq told
            /\ NoRepeat(read[q].summary.facts)
      BY DEF MemoryInv, Remembered
    <2>3. read'[q] = read[q] /\ read[q].count <= stores' /\ told \subseteq told'
      BY <1>6, <1>8, <2>2
    <2>4. QED BY <2>2, <2>3 DEF Remembered
  <1>11. ASSUME steady'
         PROVE  /\ row'.readable /\ row'.count = stores'
                /\ Cardinality(told') <= FactLimit => told' = ToSet(row'.summary.facts)
    <2>1. steady /\ row = read[r] /\ Fits(made[r].state)
      BY <1>6, <1>11
    <2>2. row'.readable /\ row'.count = stores'
      BY <1>6, <2>1 DEF MemoryInv
    <2>3. previous.facts = row.summary.facts
      BY <1>2, <2>1 DEF MemoryInv, Previous, NoRow
    <2>4. ASSUME Cardinality(told') <= FactLimit
          PROVE  told' = ToSet(row'.summary.facts)
      <3>1. Cardinality(told) <= FactLimit
        <4>1. Cardinality(told) <= Cardinality(told')
          BY <1>6, <1>7, FS_Subset
        <4>2. Cardinality(told) \in Nat /\ Cardinality(told') \in Nat
          BY <1>7, FS_CardinalityType DEF MemoryInv
        <4>3. QED BY <2>4, <4>1, <4>2, CompactionAssumption
      <3>2. told = ToSet(previous.facts)
        BY <2>1, <2>3, <3>1 DEF MemoryInv
      <3>3. ToSet(DurableFacts(previous, lines)) =
              ToSet(previous.facts) \cup (ToSet(lines) \cap Mark.fact)
        <4>1. ToSet(previous.facts) \cup (ToSet(lines) \cap Mark.fact) \subseteq told'
          BY <1>3, <1>6, <3>2
        <4>2. QED BY <1>4, <1>5, <1>7, <2>4, <4>1, DurableFactsFacts
      <3>4. QED BY <1>3, <1>4, <1>6, <3>2, <3>3
    <2>5. QED BY <2>2, <2>4
  <1>12. QED BY <1>7, <1>9, <1>10, <1>11 DEF MemoryInv

LEMMA MemoryStep ==
  ASSUME TypeOK, MadeInv, MemoryInv, [Next]_vars
  PROVE  MemoryInv'
  <1> USE DEF history
  <1>1. ASSUME NEW r \in Requests, Arrive(r) \/ Pass(r) \/ NotCompactable(r)
                 \/ UpdateFoundNone(r) \/ StoreFails(r) \/ Forward(r)
        PROVE  MemoryInv'
    <2>1. UNCHANGED <<row, stores, told, steady, read>>
      BY <1>1 DEF Arrive, Pass, NotCompactable, UpdateFoundNone, StoreFails, Forward
    <2>2. QED BY <2>1, MemoryKept
  <1>2. ASSUME NEW r \in Requests, Compact(r) \/ CompactUnread(r) PROVE MemoryInv'
    <2>1. PICK seen \in {row, NoRow} : Fold(r, seen)
      BY <1>2 DEF Compact, CompactUnread, Answer
    <2>2. Remembered(seen)
      BY <2>1, NothingRemembered DEF MemoryInv
    <2>3. read' = [read EXCEPT ![r] = seen] /\ UNCHANGED <<row, stores, told, steady>>
      BY <1>2, <2>1, FoldIs DEF Compact, CompactUnread
    <2>4. \A q \in Requests : read'[q] = read[q] \/ Remembered(read'[q])
      BY <2>2, <2>3 DEF TypeOK
    <2>5. QED BY <2>3, <2>4, MemoryKept
  <1>3. ASSUME NEW r \in Requests, Update(r) \/ Create(r) PROVE MemoryInv'
    BY <1>3, StoreRemembers DEF Update, Create
  <1>4. CASE UNCHANGED vars \/ Done
    <2>1. UNCHANGED <<row, stores, told, steady, read>>
      BY <1>4 DEF vars, Done
    <2>2. QED BY <2>1, MemoryKept
  <1>5. QED BY <1>1, <1>2, <1>3, <1>4 DEF Next

(* For any number of concurrent requests of a session, any failing statement and
   any limit of facts: GetContextSummary and UpsertContextSummary between them
   never count a compaction nor hold a fact that was not stored; and while each
   was stored whole over the row it read, none is missing. *)
THEOREM SummariesRemember == Spec => []SessionRemembers
  <1>1. MemoryInv => SessionRemembers
    BY DEF MemoryInv, Remembered, SessionRemembers
  <1>2. QED BY <1>1, MadeHolds, MemoryInit, MemoryStep, PTL DEF Spec

-----------------------------------------------------------------------------
(* What a compaction leaves of the history.                                 *)

\* Two histories whose items call and answer the same.
SameLoops(g, h) ==
  /\ DOMAIN g = DOMAIN h
  /\ \A i \in DOMAIN h : g[i].calls = h[i].calls /\ g[i].answers = h[i].answers

LEMMA SameOrphans ==
  ASSUME NEW g \in Seq(Item), NEW h \in Seq(Item), SameLoops(g, h)
  PROVE  Orphans(g) = Orphans(h)
  <1>1. Len(h) \in Nat /\ DOMAIN h = 1..Len(h) /\ DOMAIN g = DOMAIN h
    BY ItemsOf DEF SameLoops
  <1>2. ASSUME NEW i \in DOMAIN h PROVE CallsBefore(g, i) = CallsBefore(h, i)
    <2>1. \A j \in 1..(i - 1) : j \in DOMAIN h
      BY <1>1
    <2>2. \A j \in 1..(i - 1) : g[j].calls = h[j].calls
      BY <2>1 DEF SameLoops
    <2>3. {g[j].calls : j \in 1..(i - 1)} = {h[j].calls : j \in 1..(i - 1)}
      BY <2>2
    <2>4. QED BY <2>3 DEF CallsBefore
  <1>3. \A i \in DOMAIN h : (i \in Orphans(g)) <=> (i \in Orphans(h))
    BY <1>1, <1>2 DEF Orphans, SameLoops
  <1>4. QED BY <1>1, <1>3 DEF Orphans

LEMMA SummaryLoops ==
  ASSUME NEW h \in Seq(Item)
  PROVE  SameLoops(WithSummary(h), h)
  BY WithSummaryFacts DEF SameLoops

LEMMA ClosedHasNoOrphans ==
  ASSUME NEW h \in Seq(Item), \A i \in DOMAIN h : h[i].answers # {} =>
           \E j \in 1..(i - 1) : h[i].answers \subseteq h[j].calls
  PROVE  Orphans(h) = {}
  BY DEF Orphans, CallsBefore

\* A closed loop of the history stays closed: an output is never kept without
\* its call.
LEMMA LoopsKept ==
  ASSUME NEW form, NEW h \in Seq(Item), h # <<>>, NEW top \in Text,
         NEW c \in Compactions(form, h, top),
         LoopsClosed(h)
  PROVE  Orphans(WithSummary(c.body)) = {}
  <1>1. PICK g : g = c.body
    OBVIOUS
  <1>2. PICK lead, b : lead = Lead(form, h) /\ b = Boundary(form, h)
    OBVIOUS
  <1>3. /\ g \in Seq(Item)
        /\ AtEdge(form, h) => FoldedAt(form, h, top, c, lead, b)
        /\ ~AtEdge(form, h) => InPlace(h, c)
    BY <1>1, <1>2, CompactionFacts
  <1>4. Len(h) \in Nat /\ DOMAIN h = 1..Len(h) /\ DOMAIN g = 1..Len(g) /\ Len(g) \in Nat
          /\ \A i \in DOMAIN h : h[i] \in Item
    BY <1>3, ItemsOf
  <1>5. ASSUME NEW i \in DOMAIN h, h[i].answers # {}
        PROVE  \E j \in 1..(i - 1) : /\ h[i].answers \subseteq h[j].calls
                                     /\ \A k \in (j + 1)..i : NeedsPrevious(h[k])
    BY <1>5 DEF LoopsClosed
  <1>6. \A i \in DOMAIN h : Squeezed(h[i]).calls = h[i].calls
                            /\ Squeezed(h[i]).answers = h[i].answers
    BY <1>4, SqueezedFacts
  <1>7. ASSUME NEW p \in DOMAIN g, g[p].answers # {}
        PROVE  \E q \in 1..(p - 1) : g[p].answers \subseteq g[q].calls
    <2>1. CASE InPlace(h, c)
      <3>1. Len(g) = Len(h) /\ \A i \in DOMAIN h : g[i] = Squeezed(h[i])
        BY <1>1, <2>1 DEF InPlace
      <3>2. p \in DOMAIN h /\ h[p].answers = g[p].answers
        BY <1>4, <1>6, <3>1
      <3>3. PICK q \in 1..(p - 1) : h[p].answers \subseteq h[q].calls
        BY <1>5, <1>7, <3>2
      <3>4. q \in DOMAIN h
        BY <1>4, <3>2
      <3>5. QED BY <1>6, <3>1, <3>2, <3>3, <3>4
    <2>2. CASE AtEdge(form, h)
      <3>1. FoldedAt(form, h, top, c, lead, b) /\ b \in Nat /\ lead \in Nat /\ b > lead
        BY <1>2, <1>3, <2>2, LeadFacts, BoundaryFacts, <1>4 DEF AtEdge
      <3>2. ~NeedsPrevious(h[b + 1])
        BY <1>2, <3>1, BoundaryFacts
      <3>3. /\ b \in lead..Len(h) /\ Len(g) = lead + 1 + (Len(h) - b)
            /\ \A i \in 1..lead : g[i] = Squeezed(h[i])
            /\ g[lead + 1] = SummaryMessage
            /\ \A i \in (lead + 2)..Len(g) :
                 /\ b + i - (lead + 1) \in (b + 1)..Len(h)
                 /\ g[i] = Squeezed(h[b + i - (lead + 1)])
        BY <1>1, <3>1 DEF FoldedAt
      <3>4. CASE p \in 1..lead
        <4>1. p \in DOMAIN h /\ h[p].answers = g[p].answers
          BY <1>4, <1>6, <3>1, <3>3, <3>4
        <4>2. PICK q \in 1..(p - 1) : h[p].answers \subseteq h[q].calls
          BY <1>5, <1>7, <4>1
        <4>3. q \in DOMAIN h /\ q \in 1..lead
          BY <1>4, <3>1, <3>3, <3>4
        <4>4. QED BY <1>6, <3>3, <4>1, <4>2, <4>3
      <3>5. CASE p = lead + 1
        BY <1>7, <3>3, <3>5 DEF SummaryMessage
      <3>6. CASE p \in (lead + 2)..Len(g)
        <4>1. PICK i : i = b + p - (lead + 1)
          OBVIOUS
        <4>2. i \in (b + 1)..Len(h) /\ i \in DOMAIN h /\ g[p] = Squeezed(h[i])
          BY <1>4, <3>1, <3>3, <3>6, <4>1
        <4>3. h[i].answers = g[p].answers
          BY <1>6, <4>2
        <4>4. PICK j \in 1..(i - 1) : /\ h[i].answers \subseteq h[j].calls
                                      /\ \A k \in (j + 1)..i : NeedsPrevious(h[k])
          BY <1>5, <1>7, <4>2, <4>3
        <4>5. j > b
          <5>1. SUFFICES ASSUME ~(j > b) PROVE FALSE
            OBVIOUS
          <5>2. b + 1 \in (j + 1)..i
            BY <1>4, <3>1, <4>2, <5>1
          <5>3. QED BY <3>2, <4>4, <5>2
        <4>6. PICK q : q = j - b + (lead + 1)
          OBVIOUS
        <4>7. /\ q \in (lead + 2)..Len(g) /\ q \in 1..(p - 1)
              /\ b + q - (lead + 1) = j /\ j \in DOMAIN h
          BY <1>4, <3>1, <3>3, <3>6, <4>1, <4>2, <4>5, <4>6, SMTT(30)
        <4>8. g[q].calls = h[j].calls
          BY <1>6, <3>3, <4>7
        <4>9. QED BY <4>3, <4>4, <4>7, <4>8
      <3>7. p \in 1..lead \/ p = lead + 1 \/ p \in (lead + 2)..Len(g)
        BY <1>4, <3>1
      <3>8. QED BY <3>4, <3>5, <3>6, <3>7
    <2>3. QED BY <1>3, <2>1, <2>2
  <1>8. Orphans(g) = {}
    BY <1>3, <1>7, ClosedHasNoOrphans
  <1>9. WithSummary(g) \in Seq(Item)
    BY <1>3, WithSummaryFacts
  <1>10. QED BY <1>1, <1>3, <1>8, <1>9, SummaryLoops, SameOrphans

\* What a compacted request asked and what was made of it.
LEMMA MadeFrom ==
  ASSUME TypeOK, MadeInv, NEW r \in Requests, Compacted(r)
  PROVE  /\ pc[r] # "idle"
         /\ \E c \in Compactions(body[r].form, body[r].items, body[r].top) :
              made[r] = Outcome(r, c, read[r])
         /\ body[r].items \in Seq(Item) /\ body[r].items # <<>> /\ body[r].top \in Text
         /\ \A i \in DOMAIN body[r].items :
              body[r].items[i].size \in {"none", "short", "big"}
  <1>1. pc[r] # "idle" /\ IsMade(r)
    BY DEF MadeInv
  <1>2. QED BY <1>1, Asked DEF IsMade

(* For every history and every policy: the boundary of compactGatewayContextRequest
   (moved back over the outputs) never keeps an output whose call it folded, when
   the outputs follow their calls; so the adapter drops no output of the new body. *)
THEOREM CompactionKeepsLoops == Spec => []LoopsStayWhole
  <1>1. ASSUME TypeOK, MadeInv PROVE LoopsStayWhole
    <2>1. ASSUME NEW r \in Requests, Compacted(r), LoopsClosed(body[r].items)
          PROVE  Orphans(made[r].body) = {}
      <3>1. PICK c \in Compactions(body[r].form, body[r].items, body[r].top) :
              made[r] = Outcome(r, c, read[r])
        BY <1>1, <2>1, MadeFrom
      <3>2. made[r].body = WithSummary(c.body)
        BY <3>1 DEF Outcome
      <3>3. body[r].items \in Seq(Item) /\ body[r].items # <<>> /\ body[r].top \in Text
        BY <1>1, <2>1, MadeFrom
      <3>4. QED BY <2>1, <3>2, <3>3, LoopsKept
    <2>2. QED BY <2>1 DEF LoopsStayWhole
  <1>2. QED BY <1>1, MadeHolds, PTL

-----------------------------------------------------------------------------
(* Whose words the restore state repeats.                                   *)

\* What the user of a Responses request folded at a boundary is taken to say, the
\* user said or a long string behind the boundary that is no text of an item.
LEMMA UserLinesAreUsers ==
  ASSUME NEW h \in Seq(Item), h # <<>>, NEW top \in Text,
         NEW c \in Compactions("responses", h, top), AtEdge("responses", h),
         NEW b, b = Boundary("responses", h)
  PROVE  ToSet(UserLines(c.segments)) \subseteq UserTexts(h) \cup Beside(h, b, top)
  <1>1. PICK s : s = c.segments
    OBVIOUS
  <1>2. /\ s \in Seq(Segment)
        /\ \A y \in ToSet(s) : \/ \E i \in DOMAIN h : y.line = h[i].line /\ y.role = h[i].role
                               \/ y.line \in Beside(h, b, top)
    <2>1. FoldedAt("responses", h, top, c, Lead("responses", h), b)
            /\ c.segments \in Seq(Segment)
      BY CompactionFacts
    <2>2. \A y \in ToSet(c.segments) :
             \/ \E i \in DOMAIN h : y.line = h[i].line /\ y.role = h[i].role
             \/ y.line \in Beside(h, b, top)
      BY <2>1, SMTT(30) DEF FoldedAt
    <2>3. QED BY <1>1, <2>1, <2>2
  <1>3. ASSUME NEW line \in ToSet(UserLines(s))
        PROVE  line \in UserTexts(h) \cup Beside(h, b, top)
    <2>1. PICK k \in DOMAIN s : s[k].role = "user" /\ s[k].line = line
      BY <1>2, <1>3, UserLinesFacts
    <2>2. CASE \E i \in DOMAIN h : s[k].line = h[i].line /\ s[k].role = h[i].role
      BY <2>1, <2>2 DEF UserTexts
    <2>3. CASE s[k].line \in Beside(h, b, top)
      BY <2>1, <2>3
    <2>4. s[k] \in ToSet(s)
      BY DEF ToSet
    <2>5. QED BY <1>2, <2>2, <2>3, <2>4
  <1>4. QED BY <1>1, <1>3

\* A state repeats the lines it was made from or the state before it.
LEMMA StateRepeats ==
  ASSUME NEW previous \in State, NEW segments \in Seq(Segment)
  PROVE  LET lines == ToSet(UserLines(segments))
             s == RestoreState(previous, segments)
         IN /\ s.latest \in lines \cup {previous.latest, Silent}
            /\ s.goal \in lines \cup {previous.goal, Silent}
            /\ ToSet(s.facts) \subseteq ToSet(previous.facts) \cup lines
  <1>1. PICK lines : lines = UserLines(segments)
    OBVIOUS
  <1>2. PICK s : s = RestoreState(previous, segments)
    OBVIOUS
  <1>3. PICK latestHere, latest, goal \in Lines \cup {Silent}, pins \in Seq(Lines) :
          /\ s.goal = goal /\ s.latest = latest
          /\ goal \in ToSet(lines) \cup {previous.goal, Silent}
          /\ latest \in ToSet(lines) \cup {previous.latest, Silent}
          /\ s.facts = DurableFacts(previous, lines)
    <2>1. RestoredParts(s, previous, lines)
      BY <1>1, <1>2, RestoreParts, Zenon
    <2>2. QED BY <2>1 DEF RestoredParts
  <1>4. lines \in Seq(Lines) /\ previous.facts \in Seq(Lines)
    BY <1>1, UserLinesFacts DEF State
  <1>5. ToSet(s.facts) \subseteq ToSet(previous.facts) \cup ToSet(lines)
    BY <1>3, <1>4, DurableFactsFacts
  <1>6. QED BY <1>1, <1>2, <1>3, <1>5

(* For every Responses history folded at a boundary and whatever row was read:
   buildGatewayContextRestoreState takes instruction, goal and facts from what the
   user said, what that row held, or a long string kept that is no text of an item
   (compactLargePayloadStrings takes these for the user's); never from the text of a
   tool or the model. *)
THEOREM OnlyUsersInstruct == Spec => []InstructionsFromUsers
  <1>1. ASSUME TypeOK, MadeInv PROVE InstructionsFromUsers
    <2>1. ASSUME NEW r \in Requests, Compacted(r), body[r].form = "responses", AtBoundary(r),
                 NEW users, users = UserTexts(body[r].items) \cup LongElsewhere(body[r]),
                 NEW s, s = made[r].state
          PROVE  /\ s.latest \in users \cup {read[r].summary.latest, Silent}
                 /\ s.goal \in users \cup {read[r].summary.goal, Silent}
                 /\ ToSet(s.facts) \subseteq users \cup ToSet(read[r].summary.facts)
      <3>1. PICK c \in Compactions(body[r].form, body[r].items, body[r].top) :
              made[r] = Outcome(r, c, read[r])
        BY <1>1, <2>1, MadeFrom
      <3>2. PICK previous : previous = Previous(read[r])
        OBVIOUS
      <3>3. s = RestoreState(previous, c.segments)
        BY <2>1, <3>1, <3>2 DEF Outcome
      <3>4. body[r].items \in Seq(Item) /\ body[r].items # <<>> /\ body[r].top \in Text
              /\ AtEdge("responses", body[r].items)
        BY <1>1, <2>1, MadeFrom DEF AtBoundary, AtEdge
      <3>5. c.segments \in Seq(Segment) /\ previous \in State
        BY <1>1, <2>1, <3>2, <3>4, CompactionFacts, PreviousType DEF TypeOK
      <3>6. ToSet(UserLines(c.segments)) \subseteq users
        <4>1. PICK h, b : h = body[r].items /\ b = Boundary("responses", h)
          OBVIOUS
        <4>2. Beside(h, b, body[r].top) = LongElsewhere(body[r])
          BY <2>1, <4>1 DEF Beside, LongElsewhere
        <4>3. ToSet(UserLines(c.segments)) \subseteq UserTexts(h) \cup Beside(h, b, body[r].top)
          BY <2>1, <3>1, <3>4, <4>1, UserLinesAreUsers
        <4>4. QED BY <2>1, <4>1, <4>2, <4>3
      <3>7. /\ s.latest \in users \cup {previous.latest, Silent}
            /\ s.goal \in users \cup {previous.goal, Silent}
            /\ ToSet(s.facts) \subseteq users \cup ToSet(previous.facts)
        BY <3>3, <3>5, <3>6, StateRepeats
      <3>8. CASE read[r].readable
        BY <3>2, <3>7, <3>8 DEF Previous
      <3>9. CASE ~read[r].readable
        <4>1. previous.latest = Silent /\ previous.goal = Silent /\ ToSet(previous.facts) = {}
          BY <3>2, <3>9, NothingRepeats DEF Previous, NoState
        <4>2. QED BY <3>7, <4>1
      <3>10. QED BY <3>8, <3>9
    <2>2. QED BY <2>1 DEF InstructionsFromUsers
  <1>2. QED BY <1>1, MadeHolds, PTL

-----------------------------------------------------------------------------
(* The summary on its way to the backend.                                   *)

\* Of some places the only one with a property is, once they are picked, one.
LEMMA PickedOne ==
  ASSUME NEW h \in Seq(Item), NEW I \in SUBSET (DOMAIN h), NEW m \in I,
         h[m].size = "summary", \A i \in I : i # m => h[i].size # "summary"
  PROVE  Cardinality({k \in DOMAIN Picked(h, I) : Picked(h, I)[k].size = "summary"}) = 1
  <1>1. PICK p : p = Picked(h, I)
    OBVIOUS
  <1>2. PICK n : n = Cardinality(I)
    OBVIOUS
  <1>3. /\ DOMAIN p = 1..n
        /\ \A k \in 1..n : Nth(I, k) \in I /\ p[k] = h[Nth(I, k)]
    BY <1>1, <1>2, PickedFacts
  <1>4. Len(h) \in Nat /\ I \in SUBSET (1..Len(h))
    BY ItemsOf
  <1>5. PICK t : t = Rank(I, m)
    OBVIOUS
  <1>6. t \in 1..n /\ Nth(I, t) = m
    BY <1>2, <1>4, <1>5, NthOfRank
  <1>7. \A k \in 1..n : Rank(I, Nth(I, k)) = k
    BY <1>2, <1>4, NthPlace
  <1>8. \A k \in 1..n : p[k].size = "summary" <=> k = t
    <2>1. TAKE k \in 1..n
    <2>2. CASE Nth(I, k) = m
      BY <1>3, <1>5, <1>7, <2>2
    <2>3. CASE Nth(I, k) # m
      BY <1>3, <1>6, <2>3
    <2>4. QED BY <2>2, <2>3
  <1>9. {k \in DOMAIN p : p[k].size = "summary"} = {t}
    BY <1>3, <1>6, <1>8
  <1>10. QED BY <1>1, <1>9, FS_Singleton

\* The body of a compaction holds one summary, where no orphan is.
OneSummary(w, m) ==
  /\ m \in DOMAIN w /\ w[m].size = "summary"
  /\ \A i \in DOMAIN w : i # m => w[i].size # "summary"
  /\ m \notin Orphans(w)

\* The first place cut is m, and everything before it is as it was asked.
FirstCut(h, g, m) ==
  /\ m \in DOMAIN g /\ m = Min({i \in DOMAIN g : g[i].size = "cut"})
  /\ \/ g[m].answers = {}
     \/ /\ m \in DOMAIN h /\ g[m].answers = h[m].answers
        /\ \A j \in 1..(m - 1) : j \in DOMAIN h /\ g[j].calls = h[j].calls

LEMMA LeastCut ==
  ASSUME NEW g \in Seq(Item), NEW i \in DOMAIN g, g[i].size = "cut",
         NEW m, m = Min({j \in DOMAIN g : g[j].size = "cut"})
  PROVE  m \in DOMAIN g /\ m <= i /\ g[m].size = "cut"
  <1> DEFINE S == {j \in DOMAIN g : g[j].size = "cut"}
  <1>1. S \in SUBSET Nat /\ i \in S
    BY ItemsOf
  <1>2. Min(S) \in S /\ Min(S) <= i
    <2> HIDE DEF S
    <2>1. QED BY <1>1, MinIn
  <1>3. QED BY <1>2

LEMMA CompactionCuts ==
  ASSUME NEW form, NEW h \in Seq(Item), h # <<>>, NEW top \in Text,
         NEW c \in Compactions(form, h, top),
         \A i \in DOMAIN h : h[i].size \in {"none", "short", "big"}
  PROVE  \E m : /\ FirstCut(h, c.body, m)
                /\ \A i \in DOMAIN c.body : c.body[i].size # "summary"
                /\ form = "responses" /\ (\A i \in DOMAIN h : h[i].role # "system")
                     => \A i \in DOMAIN c.body : c.body[i].role # "system"
  <1>1. PICK g : g = c.body
    OBVIOUS
  <1>2. PICK lead, b : lead = Lead(form, h) /\ b = Boundary(form, h)
    OBVIOUS
  <1>3. /\ g \in Seq(Item)
        /\ AtEdge(form, h) => FoldedAt(form, h, top, c, lead, b)
        /\ ~AtEdge(form, h) => InPlace(h, c)
    BY <1>1, <1>2, CompactionFacts
  <1>4. Len(h) \in Nat /\ DOMAIN h = 1..Len(h) /\ DOMAIN g = 1..Len(g) /\ Len(g) \in Nat
          /\ \A i \in DOMAIN h : h[i] \in Item
    BY <1>3, ItemsOf
  <1>5. \A i \in DOMAIN h : /\ Squeezed(h[i]).calls = h[i].calls
                            /\ Squeezed(h[i]).answers = h[i].answers
                            /\ Squeezed(h[i]).role = h[i].role
                            /\ Squeezed(h[i]).size # "summary"
                            /\ h[i].size = "big" => Squeezed(h[i]).size = "cut"
    BY <1>4, SqueezedFacts
  <1>6. PICK m : m = Min({i \in DOMAIN g : g[i].size = "cut"})
    OBVIOUS
  <1>7. CASE InPlace(h, c)
    <2>1. /\ DOMAIN g = DOMAIN h /\ \A i \in DOMAIN h : g[i] = Squeezed(h[i])
          /\ \E i \in DOMAIN h : h[i].size = "big"
      BY <1>1, <1>4, <1>7 DEF InPlace
    <2>2. m \in DOMAIN g
      BY <1>3, <1>5, <1>6, <2>1, LeastCut
    <2>3. \A j \in 1..(m - 1) : j \in DOMAIN h
      BY <1>4, <2>1, <2>2
    <2>4. FirstCut(h, g, m)
      BY <1>5, <1>6, <2>1, <2>2, <2>3 DEF FirstCut
    <2>5. QED BY <1>1, <1>5, <2>1, <2>4
  <1>8. CASE FoldedAt(form, h, top, c, lead, b)
    <2>1. /\ lead \in 0..Len(h) /\ b \in lead..Len(h) /\ Len(g) = lead + 1 + (Len(h) - b)
          /\ \A i \in 1..lead : g[i] = Squeezed(h[i])
          /\ g[lead + 1] = SummaryMessage
          /\ \A i \in (lead + 2)..Len(g) :
               /\ b + i - (lead + 1) \in (b + 1)..Len(h)
               /\ g[i] = Squeezed(h[b + i - (lead + 1)])
      BY <1>1, <1>8 DEF FoldedAt
    <2>2. SummaryMessage.size = "cut" /\ SummaryMessage.answers = {}
            /\ SummaryMessage.role = "user"
      BY DEF SummaryMessage
    <2>3. lead + 1 \in DOMAIN g
      BY <1>4, <2>1
    <2>4. m \in DOMAIN g /\ m <= lead + 1
      BY <1>3, <1>6, <2>1, <2>2, <2>3, LeastCut
    <2>5. FirstCut(h, g, m)
      <3>1. CASE m = lead + 1
        BY <1>6, <2>1, <2>2, <2>4, <3>1 DEF FirstCut
      <3>2. CASE m # lead + 1
        <4>1. m \in 1..lead /\ m \in DOMAIN h
          BY <1>4, <2>1, <2>4, <3>2
        <4>2. \A j \in 1..(m - 1) : j \in 1..lead /\ j \in DOMAIN h
          BY <1>4, <2>1, <4>1
        <4>3. QED BY <1>5, <1>6, <2>1, <2>4, <4>1, <4>2 DEF FirstCut
      <3>3. QED BY <3>1, <3>2
    <2>6. \A p \in DOMAIN g : \/ p = lead + 1
                              \/ \E i \in DOMAIN h : g[p] = Squeezed(h[i])
      <3>1. TAKE p \in DOMAIN g
      <3>2. p \in 1..lead \/ p = lead + 1 \/ p \in (lead + 2)..Len(g)
        BY <1>4, <2>1
      <3>3. ASSUME p \in 1..lead PROVE \E i \in DOMAIN h : g[p] = Squeezed(h[i])
        <4>1. p \in DOMAIN h
          BY <1>4, <2>1, <3>3
        <4>2. QED BY <2>1, <3>3, <4>1
      <3>4. ASSUME p \in (lead + 2)..Len(g)
            PROVE  \E i \in DOMAIN h : g[p] = Squeezed(h[i])
        <4>1. PICK i : i = b + p - (lead + 1)
          OBVIOUS
        <4>2. i \in (b + 1)..Len(h) /\ g[p] = Squeezed(h[i])
          BY <2>1, <3>4, <4>1
        <4>3. i \in DOMAIN h
          BY <1>4, <2>1, <4>2
        <4>4. QED BY <4>2, <4>3
      <3>5. QED BY <3>2, <3>3, <3>4
    <2>7. \A p \in DOMAIN g : g[p].size # "summary"
      BY <1>5, <2>1, <2>2, <2>6
    <2>8. (\A i \in DOMAIN h : h[i].role # "system")
            => \A p \in DOMAIN g : g[p].role # "system"
      BY <1>5, <2>1, <2>2, <2>6
    <2>9. FirstCut(h, c.body, m)
      BY <1>1, <2>5
    <2>10. /\ \A i \in DOMAIN c.body : c.body[i].size # "summary"
           /\ form = "responses" /\ (\A i \in DOMAIN h : h[i].role # "system")
                => \A i \in DOMAIN c.body : c.body[i].role # "system"
      BY <1>1, <2>7, <2>8
    <2>11. QED BY <2>9, <2>10, Zenon
  <1>9. QED BY <1>3, <1>7, <1>8

\* A history without orphans gives a body whose summary is none.
LEMMA SummaryStays ==
  ASSUME NEW form, NEW h \in Seq(Item), h # <<>>, NEW top \in Text,
         NEW c \in Compactions(form, h, top),
         \A i \in DOMAIN h : h[i].size \in {"none", "short", "big"},
         Orphans(h) = {}
  PROVE  \E m : OneSummary(WithSummary(c.body), m)
  <1>1. PICK g : g = c.body
    OBVIOUS
  <1>2. PICK m : /\ FirstCut(h, g, m)
                 /\ \A i \in DOMAIN g : g[i].size # "summary"
    BY <1>1, CompactionCuts
  <1>3. g \in Seq(Item)
    BY <1>1, CompactionFacts
  <1>4. PICK w : w = WithSummary(g)
    OBVIOUS
  <1>5. /\ w \in Seq(Item) /\ DOMAIN w = DOMAIN g
        /\ \A i \in DOMAIN g : /\ i # m => w[i] = g[i]
                               /\ i = m => w[i].size = "summary"
    BY <1>2, <1>3, <1>4, WithSummaryFacts DEF FirstCut
  <1>6. Orphans(w) = Orphans(g)
    BY <1>3, <1>4, <1>5, SummaryLoops, SameOrphans
  <1>7. g[m].answers \subseteq CallsBefore(g, m)
    <2>1. CASE g[m].answers = {}
      BY <2>1
    <2>2. CASE /\ m \in DOMAIN h /\ g[m].answers = h[m].answers
               /\ \A j \in 1..(m - 1) : j \in DOMAIN h /\ g[j].calls = h[j].calls
      <3>1. h[m].answers \subseteq CallsBefore(h, m)
        BY <2>2 DEF Orphans
      <3>2. {g[j].calls : j \in 1..(m - 1)} = {h[j].calls : j \in 1..(m - 1)}
        BY <2>2
      <3>3. CallsBefore(g, m) = CallsBefore(h, m)
        BY <3>2 DEF CallsBefore
      <3>4. QED BY <2>2, <3>1, <3>3
    <2>3. QED BY <1>2, <2>1, <2>2 DEF FirstCut
  <1>8. m \in DOMAIN g /\ m \notin Orphans(g)
    BY <1>2, <1>7 DEF FirstCut, Orphans
  <1>9. OneSummary(w, m)
    BY <1>2, <1>5, <1>6, <1>8 DEF OneSummary
  <1>10. QED BY <1>1, <1>4, <1>9

\* The adapter delivers it once.
LEMMA SummaryDelivered ==
  ASSUME NEW form, NEW w \in Seq(Item), NEW m, OneSummary(w, m),
         form = "responses" => \A i \in DOMAIN w : w[i].role # "system"
  PROVE  Cardinality({i \in DOMAIN Delivered(form, w) :
                        Delivered(form, w)[i].size = "summary"}) = 1
  <1>1. PICK I : I = DOMAIN w \ Orphans(w)
    OBVIOUS
  <1>2. Delivered(form, w) = DropOrphans(w)
    <2>1. CASE form = "responses"
      <3>1. {i \in DOMAIN w : w[i].role # "system"} = DOMAIN w
        BY <2>1
      <3>2. Picked(w, {i \in DOMAIN w : w[i].role # "system"}) = w
        BY <3>1, PickedAll
      <3>3. QED BY <2>1, <3>2 DEF Delivered
    <2>2. CASE form # "responses"
      BY <2>2 DEF Delivered
    <2>3. QED BY <2>1, <2>2
  <1>3. DropOrphans(w) = Picked(w, I)
    BY <1>1 DEF DropOrphans
  <1>4. /\ I \in SUBSET (DOMAIN w) /\ m \in I /\ w[m].size = "summary"
        /\ \A i \in I : i # m => w[i].size # "summary"
    BY <1>1 DEF OneSummary
  <1>5. QED BY <1>2, <1>3, <1>4, PickedOne

\* What was sent of a compacted request is what the adapter makes of its body.
SentInv ==
  \A r \in Requests : pc[r] = "forwarded" /\ Compacted(r) =>
    sent[r] = Delivered(body[r].form, made[r].body)

LEMMA SentInit == Init => SentInv
  BY DEF Init, SentInv

LEMMA SentStep ==
  ASSUME TypeOK, MadeInv, SentInv, [Next]_vars
  PROVE  SentInv'
  <1> DEFINE Fine(q) == pc'[q] = "forwarded" /\ Compacted(q)' =>
                          sent'[q] = Delivered(body'[q].form, made'[q].body)
  <1> SUFFICES ASSUME NEW q \in Requests PROVE Fine(q)
    BY DEF SentInv
  <1>0. pc \in [Requests -> Places] /\ made \in [Requests -> Compaction]
          /\ sent \in [Requests -> Seq(Item)] /\ DOMAIN body = Requests
    BY DEF TypeOK, Places
  <1>1. ASSUME pc'[q] = pc[q], sent'[q] = sent[q], body'[q] = body[q], made'[q] = made[q]
        PROVE  Fine(q)
    BY <1>1 DEF SentInv, Compacted
  <1>2. ASSUME pc'[q] # "forwarded" PROVE Fine(q)
    BY <1>2
  <1>3. ASSUME NEW r \in Requests, Arrive(r) PROVE Fine(q)
    <2>1. CASE q = r
      BY <1>0, <1>2, <1>3, <2>1 DEF Arrive
    <2>2. CASE q # r
      BY <1>0, <1>1, <1>3, <2>2 DEF Arrive
    <2>3. QED BY <2>1, <2>2
  <1>4. ASSUME NEW r \in Requests, Pass(r) PROVE Fine(q)
    <2>1. CASE q = r
      <3>1. ~Compacted(q) /\ made' = made
        BY <1>4, <2>1 DEF Pass, MadeInv
      <3>2. ~Compacted(q)'
        BY <3>1 DEF Compacted
      <3>3. QED BY <3>2
    <2>2. CASE q # r
      BY <1>0, <1>1, <1>4, <2>2 DEF Pass
    <2>3. QED BY <2>1, <2>2
  <1>5. ASSUME NEW r \in Requests, Compact(r) \/ CompactUnread(r) PROVE Fine(q)
    <2>1. PICK seen : Fold(r, seen)
      BY <1>5 DEF Compact, CompactUnread
    <2>2. PICK c \in Compactions(body[r].form, body[r].items, body[r].top) :
            /\ made' = [made EXCEPT ![r] = Outcome(r, c, seen)]
            /\ pc' = [pc EXCEPT ![r] = IF body[r].session THEN "made" ELSE "stored"]
      BY <2>1, FoldIs
    <2>3. body' = body /\ sent' = sent
      BY <1>5 DEF Compact, CompactUnread
    <2>4. CASE q = r
      BY <1>0, <1>2, <2>2, <2>4
    <2>5. CASE q # r
      BY <1>0, <1>1, <2>2, <2>3, <2>5
    <2>6. QED BY <2>4, <2>5
  <1>6. ASSUME NEW r \in Requests,
               NotCompactable(r) \/ Update(r) \/ Create(r) \/ UpdateFoundNone(r) \/ StoreFails(r)
        PROVE  Fine(q)
    <2>1. /\ made' = made /\ sent' = sent /\ body' = body
          /\ pc'[r] # "forwarded" /\ \A p \in Requests \ {r} : pc'[p] = pc[p]
      BY <1>0, <1>6 DEF NotCompactable, Update, Create, Store, UpdateFoundNone, StoreFails
    <2>2. QED BY <1>1, <1>2, <2>1
  <1>7. ASSUME NEW r \in Requests, Forward(r) PROVE Fine(q)
    <2>1. made' = made /\ body' = body
      BY <1>7 DEF Forward
    <2>2. CASE q # r
      <3>1. pc'[q] = pc[q] /\ sent'[q] = sent[q]
        BY <1>0, <1>7, <2>2 DEF Forward
      <3>2. QED BY <1>1, <2>1, <3>1
    <2>3. CASE q = r /\ WeightOf(made[r].body, made[r].top) < HardAt
      <3>1. sent'[q] = Delivered(body[q].form, made[q].body)
        BY <1>0, <1>7, <2>3 DEF Forward
      <3>2. QED BY <2>1, <3>1
    <2>4. CASE q = r /\ ~(WeightOf(made[r].body, made[r].top) < HardAt)
      <3>1. pc'[q] = "refused"
        BY <1>0, <1>7, <2>4 DEF Forward
      <3>2. QED BY <1>2, <3>1
    <2>5. QED BY <2>2, <2>3, <2>4
  <1>8. CASE UNCHANGED vars \/ Done
    <2>1. UNCHANGED <<pc, sent, body, made>>
      BY <1>8 DEF vars, Done
    <2>2. QED BY <1>1, <2>1
  <1>9. QED BY <1>3, <1>4, <1>5, <1>6, <1>7, <1>8 DEF Next

(* For every history without orphaned outputs (and without system messages in a
   Responses input): wherever insertGatewayContextSummary put the summary, the
   request the adapter sends holds it, and holds it once. *)
THEOREM SummaryReachesBackend == Spec => []SummaryArrives
  <1>1. ASSUME TypeOK, MadeInv, SentInv PROVE SummaryArrives
    <2>1. ASSUME NEW r \in Requests, pc[r] = "forwarded", Compacted(r),
                 Orphans(body[r].items) = {},
                 body[r].form = "responses" =>
                   \A i \in DOMAIN body[r].items : body[r].items[i].role # "system"
          PROVE  Cardinality({i \in DOMAIN sent[r] : sent[r][i].size = "summary"}) = 1
      <3>1. PICK c \in Compactions(body[r].form, body[r].items, body[r].top) :
              made[r] = Outcome(r, c, read[r])
        BY <1>1, <2>1, MadeFrom
      <3>2. PICK form, h, top : form = body[r].form /\ h = body[r].items /\ top = body[r].top
        OBVIOUS
      <3>3. /\ h \in Seq(Item) /\ h # <<>> /\ top \in Text /\ c \in Compactions(form, h, top)
            /\ \A i \in DOMAIN h : h[i].size \in {"none", "short", "big"}
            /\ Orphans(h) = {}
            /\ form = "responses" => \A i \in DOMAIN h : h[i].role # "system"
        BY <1>1, <2>1, <3>1, <3>2, MadeFrom
      <3>4. PICK g, w : g = c.body /\ w = WithSummary(g)
        OBVIOUS
      <3>5. sent[r] = Delivered(form, w)
        BY <1>1, <2>1, <3>1, <3>2, <3>4 DEF SentInv, Outcome
      <3>6. g \in Seq(Item)
        BY <3>3, <3>4, CompactionFacts
      <3>7. /\ w \in Seq(Item) /\ DOMAIN w = DOMAIN g
            /\ \A i \in DOMAIN g : w[i].role = g[i].role
        BY <3>4, <3>6, WithSummaryFacts
      <3>8. form = "responses" => \A i \in DOMAIN w : w[i].role # "system"
        <4>1. form = "responses" => \A i \in DOMAIN g : g[i].role # "system"
          BY <3>3, <3>4, CompactionCuts
        <4>2. QED BY <3>7, <4>1
      <3>9. PICK m : OneSummary(w, m)
        BY <3>3, <3>4, SummaryStays
      <3>10. QED BY <3>5, <3>7, <3>8, <3>9, SummaryDelivered
    <2>2. QED BY <2>1 DEF SummaryArrives
  <1>2. QED BY <1>1, MadeHolds, SentInit, SentStep, PTL DEF Spec

=============================================================================
