---------------------------- MODULE StackLemmas -----------------------------
(***************************************************************************)
(* Facts about stacks kept as sequences, about the greatest and the least  *)
(* position of a set, and about counting positions, that the proofs about  *)
(* the components share.                                                   *)
(***************************************************************************)
EXTENDS Integers, Sequences, FiniteSets, SequencesExt, SequenceTheorems, FiniteSetTheorems,
        WellFoundedInduction, TLAPS

-----------------------------------------------------------------------------
\* A set of natural numbers that is not empty has a least element.
LEMMA LeastNatural ==
  ASSUME NEW S \in SUBSET Nat, S # {}
  PROVE  \E m \in S : \A n \in S : m <= n
<1>1. PICK m \in S : \A n \in S : <<n, m>> \notin OpToRel(<, Nat)
  BY NatLessThanWellFounded, WFMin
<1>2. \A n \in S : ~(n < m)
  BY <1>1 DEF OpToRel
<1>. QED
  BY <1>2

\* Min of a set of positions is the least of them.
LEMMA LeastPosition ==
  ASSUME NEW S \in SUBSET Nat, S # {}
  PROVE  Min(S) \in S /\ \A n \in S : Min(S) <= n
BY LeastNatural DEF Min

\* Max of a set of positions of a stack is the greatest of them.
LEMMA GreatestPosition ==
  ASSUME NEW n \in Nat, NEW S \in SUBSET (1..n), S # {}
  PROVE  Max(S) \in S /\ \A i \in S : i <= Max(S)
<1>. DEFINE T == { n - i : i \in S }
<1>0. \A i \in S : i \in 1..n /\ n - i \in Nat
  OBVIOUS
<1>1. T \in SUBSET Nat /\ T # {}
  BY <1>0
<1>2. PICK m \in T : \A i \in T : m <= i
  BY <1>1, LeastNatural
<1>3. PICK j \in S : m = n - j
  BY <1>2
<1>4. \A i \in S : i <= j
  <2>. TAKE i \in S
  <2>1. n - i \in T /\ m <= n - i
    BY <1>2
  <2>. HIDE DEF T
  <2>. QED
    BY <1>0, <1>2, <1>3, <2>1
<1>. QED
  BY <1>4 DEF Max

-----------------------------------------------------------------------------
\* What push does to the positions of a stack.
LEMMA PushedAt ==
  ASSUME NEW I, NEW s \in Seq(I), NEW x \in I
  PROVE  /\ Append(s, x) \in Seq(I)
         /\ Len(s) \in Nat /\ DOMAIN s = 1..Len(s)
         /\ Len(Append(s, x)) = Len(s) + 1
         /\ DOMAIN Append(s, x) = 1..(Len(s) + 1)
         /\ \A i \in 1..Len(s) : Append(s, x)[i] = s[i]
         /\ Append(s, x)[Len(s) + 1] = x
BY AppendProperties, LenProperties

\* What pop does.
LEMMA PoppedAt ==
  ASSUME NEW I, NEW s \in Seq(I), s # <<>>
  PROVE  /\ Len(s) \in Nat \ {0} /\ DOMAIN s = 1..Len(s)
         /\ Front(s) \in Seq(I)
         /\ Len(Front(s)) = Len(s) - 1
         /\ DOMAIN Front(s) = 1..(Len(s) - 1)
         /\ \A i \in 1..(Len(s) - 1) : Front(s)[i] = s[i]
         /\ Last(s) = s[Len(s)] /\ Last(s) \in I
<1>1. Len(s) \in Nat \ {0} /\ DOMAIN s = 1..Len(s)
  BY EmptySeq, LenProperties
<1>2. \A i \in 1..Len(s) : s[i] \in I
  BY <1>1, ElementOfSeq
<1>3. /\ Front(s) \in Seq(I)
      /\ Len(Front(s)) = Len(s) - 1
      /\ \A i \in 1..(Len(s) - 1) : Front(s)[i] = s[i]
  BY <1>1, <1>2, SubSeqProperties DEF Front
<1>. QED
  BY <1>1, <1>2, <1>3, LenProperties DEF Last

-----------------------------------------------------------------------------
\* The elements of a stack that belong to a set, and the order in which they
\* were pushed.
At(s, P) == { i \in DOMAIN s : s[i] \in P }
RankIn(s, P, i) == Cardinality({ h \in At(s, P) : h <= i })

\* Positions are counted by natural numbers; a rank is at most their number.
LEMMA RankType ==
  ASSUME NEW I, NEW s \in Seq(I), NEW P
  PROVE  /\ At(s, P) \in SUBSET (1..Len(s))
         /\ IsFiniteSet(At(s, P)) /\ Cardinality(At(s, P)) \in Nat
         /\ \A i \in At(s, P) : RankIn(s, P, i) \in 1..Cardinality(At(s, P))
<1>1. At(s, P) \in SUBSET (1..Len(s)) /\ Len(s) \in Nat
  BY LenProperties DEF At
<1>2. IsFiniteSet(1..Len(s))
  BY <1>1, FS_Interval
<1>3. IsFiniteSet(At(s, P)) /\ Cardinality(At(s, P)) \in Nat
  BY <1>1, <1>2, FS_Subset, FS_CardinalityType
<1>4. ASSUME NEW i \in At(s, P) PROVE RankIn(s, P, i) \in 1..Cardinality(At(s, P))
  <2>. DEFINE E == { h \in At(s, P) : h <= i }
  <2>1. E \subseteq At(s, P) /\ i \in E
    BY <1>1
  <2>. HIDE DEF E
  <2>2. IsFiniteSet(E) /\ Cardinality(E) \in Nat /\ Cardinality(E) <= Cardinality(At(s, P))
    BY <1>3, <2>1, FS_Subset, FS_CardinalityType
  <2>3. Cardinality(E) # 0
    BY <2>1, <2>2, FS_EmptySet
  <2>4. Cardinality(E) \in 1..Cardinality(At(s, P))
    BY <1>3, <2>2, <2>3
  <2>. QED
    BY <2>4 DEF RankIn, E
<1>. QED
  BY <1>1, <1>3, <1>4

\* A new element has the last rank, the others keep theirs.
LEMMA RankAppend ==
  ASSUME NEW I, NEW s \in Seq(I), NEW x \in I, NEW P
  PROVE  /\ At(Append(s, x), P) = IF x \in P THEN At(s, P) \cup {Len(s) + 1} ELSE At(s, P)
         /\ Cardinality(At(Append(s, x), P)) = Cardinality(At(s, P)) + (IF x \in P THEN 1 ELSE 0)
         /\ \A i \in At(s, P) : RankIn(Append(s, x), P, i) = RankIn(s, P, i)
         /\ x \in P => RankIn(Append(s, x), P, Len(s) + 1) = Cardinality(At(s, P)) + 1
<1>. DEFINE t == Append(s, x)
<1>1. /\ Len(s) \in Nat /\ DOMAIN s = 1..Len(s) /\ DOMAIN t = 1..(Len(s) + 1)
      /\ \A i \in 1..Len(s) : t[i] = s[i]
      /\ t[Len(s) + 1] = x
  BY PushedAt
<1>. HIDE DEF t
<1>2. /\ At(s, P) \in SUBSET (1..Len(s)) /\ IsFiniteSet(At(s, P)) /\ Cardinality(At(s, P)) \in Nat
  BY RankType
<1>3. At(t, P) = IF x \in P THEN At(s, P) \cup {Len(s) + 1} ELSE At(s, P)
  BY <1>1 DEF At
<1>4. Len(s) + 1 \notin At(s, P)
  BY <1>1, <1>2
<1>5. Cardinality(At(s, P) \cup {Len(s) + 1}) = Cardinality(At(s, P)) + 1
  BY <1>2, <1>4, FS_AddElement
<1>6. Cardinality(At(t, P)) = Cardinality(At(s, P)) + (IF x \in P THEN 1 ELSE 0)
  BY <1>2, <1>3, <1>5
<1>7. ASSUME NEW i \in At(s, P) PROVE RankIn(t, P, i) = RankIn(s, P, i)
  <2>1. { h \in At(t, P) : h <= i } = { h \in At(s, P) : h <= i }
    BY <1>1, <1>2, <1>3
  <2>. QED
    BY <2>1 DEF RankIn
<1>8. ASSUME x \in P PROVE RankIn(t, P, Len(s) + 1) = Cardinality(At(s, P)) + 1
  <2>1. { h \in At(t, P) : h <= Len(s) + 1 } = At(s, P) \cup {Len(s) + 1}
    BY <1>1, <1>2, <1>3, <1>8
  <2>. QED
    BY <1>5, <2>1 DEF RankIn
<1>. QED
  BY <1>3, <1>6, <1>7, <1>8 DEF t

\* The last element, when it is counted, has the last rank; the others keep
\* theirs when it leaves.
LEMMA RankFront ==
  ASSUME NEW I, NEW s \in Seq(I), s # <<>>, NEW P
  PROVE  /\ At(Front(s), P) = At(s, P) \ {Len(s)}
         /\ Len(s) \in At(s, P) <=> Last(s) \in P
         /\ Cardinality(At(Front(s), P)) = Cardinality(At(s, P)) - (IF Last(s) \in P THEN 1 ELSE 0)
         /\ \A i \in At(Front(s), P) : RankIn(Front(s), P, i) = RankIn(s, P, i)
<1>. DEFINE t == Front(s)
<1>1. /\ Len(s) \in Nat \ {0} /\ DOMAIN s = 1..Len(s) /\ DOMAIN t = 1..(Len(s) - 1)
      /\ \A i \in 1..(Len(s) - 1) : t[i] = s[i]
      /\ Last(s) = s[Len(s)]
  BY PoppedAt
<1>. HIDE DEF t
<1>2. /\ At(s, P) \in SUBSET (1..Len(s)) /\ IsFiniteSet(At(s, P)) /\ Cardinality(At(s, P)) \in Nat
  BY RankType
<1>3. At(t, P) = At(s, P) \ {Len(s)}
  BY <1>1 DEF At
<1>4. Len(s) \in At(s, P) <=> Last(s) \in P
  BY <1>1 DEF At
<1>5. Cardinality(At(s, P) \ {Len(s)}) = IF Len(s) \in At(s, P) THEN Cardinality(At(s, P)) - 1
                                          ELSE Cardinality(At(s, P))
  BY <1>2, FS_RemoveElement
<1>6. Cardinality(At(t, P)) = Cardinality(At(s, P)) - (IF Last(s) \in P THEN 1 ELSE 0)
  BY <1>2, <1>3, <1>4, <1>5
<1>7. ASSUME NEW i \in At(t, P) PROVE RankIn(t, P, i) = RankIn(s, P, i)
  <2>1. i \in 1..(Len(s) - 1)
    BY <1>1 DEF At
  <2>2. i < Len(s) /\ i \in Int /\ Len(s) \in Int
    BY <1>1, <2>1
  <2>3. \A h \in At(s, P) : h <= i => h # Len(s)
    BY <2>2
  <2>4. { h \in At(t, P) : h <= i } = { h \in At(s, P) : h <= i }
    BY <1>3, <2>3
  <2>. QED
    BY <2>4 DEF RankIn
<1>. QED
  BY <1>3, <1>4, <1>6, <1>7 DEF t

\* The greatest position that is counted has the last rank.
LEMMA RankOfGreatest ==
  ASSUME NEW I, NEW s \in Seq(I), NEW P, NEW i \in At(s, P), \A h \in At(s, P) : h <= i
  PROVE  RankIn(s, P, i) = Cardinality(At(s, P))
<1>1. { h \in At(s, P) : h <= i } = At(s, P)
  OBVIOUS
<1>. QED
  BY <1>1 DEF RankIn

\* Pushing and popping undo each other.
LEMMA PushPop ==
  ASSUME NEW I, NEW s \in Seq(I)
  PROVE  /\ s # <<>> => Append(Front(s), Last(s)) = s
         /\ \A x \in I : Append(s, x) # <<>> /\ Front(Append(s, x)) = s /\ Last(Append(s, x)) = x
<1>1. ASSUME s # <<>> PROVE Append(Front(s), Last(s)) = s
  <2>. DEFINE f == Front(s)
              t == Append(f, Last(s))
  <2>1. /\ Len(s) \in Nat \ {0} /\ f \in Seq(I) /\ Len(f) = Len(s) - 1
        /\ \A i \in 1..(Len(s) - 1) : f[i] = s[i]
        /\ Last(s) = s[Len(s)] /\ Last(s) \in I
    BY <1>1, PoppedAt
  <2>. HIDE DEF f
  <2>2. /\ t \in Seq(I) /\ Len(t) = Len(f) + 1
        /\ \A i \in 1..Len(f) : t[i] = f[i]
        /\ t[Len(f) + 1] = Last(s)
    BY <2>1, PushedAt
  <2>. HIDE DEF t
  <2>3. Len(t) = Len(s) /\ \A i \in 1..Len(s) : t[i] = s[i]
    BY <2>1, <2>2
  <2>4. t = s
    BY <2>2, <2>3, SeqEqual
  <2>. QED
    BY <2>4 DEF t, f
<1>2. ASSUME NEW x \in I PROVE Append(s, x) # <<>> /\ Front(Append(s, x)) = s /\ Last(Append(s, x)) = x
  <2>. DEFINE t == Append(s, x)
              f == Front(t)
  <2>1. /\ t \in Seq(I) /\ Len(s) \in Nat /\ Len(t) = Len(s) + 1
        /\ \A i \in 1..Len(s) : t[i] = s[i]
        /\ t[Len(s) + 1] = x
    BY PushedAt
  <2>. HIDE DEF t
  <2>2. t # <<>>
    BY <2>1
  <2>3. /\ f \in Seq(I) /\ Len(f) = Len(t) - 1
        /\ \A i \in 1..(Len(t) - 1) : f[i] = t[i]
        /\ Last(t) = t[Len(t)]
    BY <2>1, <2>2, PoppedAt
  <2>. HIDE DEF f
  <2>4. Len(f) = Len(s) /\ \A i \in 1..Len(s) : f[i] = s[i]
    BY <2>1, <2>3
  <2>5. f = s
    BY <2>3, <2>4, SeqEqual
  <2>. QED
    BY <2>1, <2>2, <2>3, <2>5 DEF f, t
<1>. QED
  BY <1>1, <1>2

-----------------------------------------------------------------------------
\* Greatest positions, and the position of rank n.

\* The position of E that has n positions of E up to it.
NthOf(E, n) == Max({ i \in E : Cardinality({ h \in E : h <= i }) = n })

\* A position that bounds the others is the greatest.
LEMMA MaxIs ==
  ASSUME NEW n \in Nat, NEW E \in SUBSET (1..n), NEW m \in E, \A i \in E : i <= m
  PROVE  Max(E) = m
<1>1. Max(E) \in E /\ \A i \in E : i <= Max(E)
  BY GreatestPosition
<1>. DEFINE M == Max(E)
<1>. HIDE DEF M
<1>2. M \in E /\ m <= M /\ M <= m
  BY <1>1 DEF M
<1>3. M \in Int /\ m \in Int
  BY <1>2
<1>4. M = m
  BY <1>2, <1>3
<1>. QED
  BY <1>4 DEF M

\* The greatest of one position, and of some positions and the next one.
LEMMA MaxOfNext ==
  ASSUME NEW n \in Nat, NEW E \in SUBSET (1..n)
  PROVE  Max({n + 1}) = n + 1 /\ Max(E \cup {n + 1}) = n + 1
<1>. DEFINE m == n + 1
<1>1. m \in Nat /\ \A i \in E : i \in 1..m /\ i <= m
  OBVIOUS
<1>. HIDE DEF m
<1>2. m \in 1..m \/ m = 0
  BY <1>1
<1>3. m # 0
  BY DEF m
<1>4. {m} \in SUBSET (1..m) /\ E \cup {m} \in SUBSET (1..m) /\ m <= m
  BY <1>1, <1>2, <1>3
<1>5. Max({m}) = m
  BY <1>1, <1>4, MaxIs
<1>6. Max(E \cup {m}) = m
  <2>1. m \in E \cup {m} /\ \A i \in E \cup {m} : i <= m
    BY <1>1, <1>4
  <2>. QED
    BY <1>1, <1>4, <2>1, MaxIs
<1>. QED
  BY <1>5, <1>6 DEF m

\* A position that is below the others is the least.
LEMMA MinIs ==
  ASSUME NEW E \in SUBSET Nat, NEW m \in E, \A i \in E : m <= i
  PROVE  Min(E) = m
<1>1. Min(E) \in E /\ \A i \in E : Min(E) <= i
  BY LeastPosition
<1>. DEFINE M == Min(E)
<1>. HIDE DEF M
<1>2. M \in E /\ m <= M /\ M <= m
  BY <1>1 DEF M
<1>3. M = m
  BY <1>2
<1>. QED
  BY <1>3 DEF M

\* The ranks of the positions of a set are the numbers from 1 to its size.
LEMMA RankReached ==
  ASSUME NEW n \in Nat, NEW E \in SUBSET (1..n), NEW r \in 1..Cardinality(E)
  PROVE  \E i \in E : Cardinality({ h \in E : h <= i }) = r
<1>. DEFINE Up(i) == { h \in E : h <= i }
            S == { i \in E : Cardinality(Up(i)) >= r }
<1>1. /\ IsFiniteSet(E) /\ Cardinality(E) \in Nat
      /\ \A i : IsFiniteSet(Up(i)) /\ Cardinality(Up(i)) \in Nat
  <2>1. IsFiniteSet(1..n)
    BY FS_Interval
  <2>2. \A T \in SUBSET (1..n) : IsFiniteSet(T) /\ Cardinality(T) \in Nat
    BY <2>1, FS_Subset, FS_CardinalityType
  <2>3. \A i : Up(i) \in SUBSET (1..n)
    OBVIOUS
  <2>. HIDE DEF Up
  <2>. QED
    BY <2>2, <2>3
<1>2. Cardinality({}) = 0
  BY FS_EmptySet
<1>3. E # {}
  BY <1>2
<1>4. Max(E) \in E /\ \A i \in E : i <= Max(E)
  BY <1>3, GreatestPosition
<1>5. Up(Max(E)) = E
  BY <1>4
<1>0. \A i \in E : i \in Nat
  OBVIOUS
<1>6. S # {} /\ S \in SUBSET Nat
  <2>1. Cardinality(Up(Max(E))) >= r
    BY <1>1, <1>5
  <2>. HIDE DEF Up
  <2>. QED
    BY <1>0, <1>4, <2>1
<1>7. PICK m \in S : \A i \in S : m <= i
  BY <1>6, LeastNatural
<1>8. m \in E /\ m \in Nat /\ Cardinality(Up(m)) >= r
  BY <1>7
<1>9. Cardinality(Up(m)) = Cardinality(Up(m) \ {m}) + 1
  <2>1. m \in Up(m)
    BY <1>8
  <2>. HIDE DEF Up
  <2>2. Cardinality(Up(m) \ {m}) = Cardinality(Up(m)) - 1
    BY <1>1, <2>1, FS_RemoveElement
  <2>. QED
    BY <1>1, <2>2
<1>10. CASE Up(m) \ {m} = {}
  <2>1. Cardinality(Up(m)) = 1
    BY <1>2, <1>9, <1>10
  <2>2. Cardinality(Up(m)) = r
    BY <1>8, <2>1
  <2>. QED
    BY <1>8, <2>2
<1>11. CASE Up(m) \ {m} # {}
  <2>. DEFINE D == Up(m) \ {m}
              p == Max(D)
  <2>1. D \in SUBSET (1..n)
    OBVIOUS
  <2>2. p \in D /\ \A i \in D : i <= p
    BY <1>11, <2>1, GreatestPosition
  <2>. HIDE DEF p
  <2>3. p \in E /\ p < m /\ p \in Nat
    BY <1>8, <2>2
  <2>4. Up(p) = D
    <3>1. \A h \in D : h \in Up(p)
      BY <2>2
    <3>2. \A h \in Up(p) : h \in D
      <4>. TAKE h \in Up(p)
      <4>1. h \in E /\ h <= p /\ h \in Nat
        BY <1>0
      <4>2. h < m
        BY <2>3, <1>8, <4>1
      <4>. QED
        BY <1>8, <4>1, <4>2
    <3>. HIDE DEF Up, D
    <3>3. Up(p) \subseteq D /\ D \subseteq Up(p)
      BY <3>1, <3>2
    <3>. QED
      BY <3>3
  <2>5. ~(Cardinality(Up(p)) >= r)
    BY <1>7, <1>8, <2>3
  <2>6. Cardinality(Up(m)) = r
    <3>. HIDE DEF Up, D
    <3>1. Cardinality(Up(p)) \in Nat /\ Cardinality(Up(m)) = Cardinality(Up(p)) + 1
      BY <1>1, <1>9, <2>4 DEF D
    <3>2. r \in Nat
      BY <1>1
    <3>. QED
      BY <1>8, <2>5, <3>1, <3>2
  <2>. QED
    BY <1>8, <2>6
<1>. QED
  BY <1>10, <1>11

\* One more saved token comes after the others.
LEMMA NthAdd ==
  ASSUME NEW n \in Nat, NEW E \in SUBSET (1..n)
  PROVE  /\ Cardinality(E) \in Nat
         /\ Cardinality(E \cup {n + 1}) = Cardinality(E) + 1
         /\ \A r \in 1..Cardinality(E) : NthOf(E, r) \in E /\ NthOf(E \cup {n + 1}, r) = NthOf(E, r)
         /\ NthOf(E \cup {n + 1}, Cardinality(E) + 1) = n + 1
<1>. DEFINE F == E \cup {n + 1}
            Rank(X, i) == Cardinality({ h \in X : h <= i })
<1>1. IsFiniteSet(E) /\ Cardinality(E) \in Nat /\ Cardinality(F) = Cardinality(E) + 1
  <2>1. IsFiniteSet(1..n)
    BY FS_Interval
  <2>2. IsFiniteSet(E)
    BY <2>1, FS_Subset
  <2>3. n + 1 \notin E
    OBVIOUS
  <2>. QED
    BY <2>2, <2>3, FS_CardinalityType, FS_AddElement
<1>0. \A i \in F : i \in Nat /\ i <= n + 1
  OBVIOUS
<1>2. \A i \in E : /\ Rank(F, i) = Rank(E, i)
                  /\ Rank(E, i) \in Nat /\ Rank(E, i) <= Cardinality(E)
  <2>. TAKE i \in E
  <2>1. { h \in F : h <= i } = { h \in E : h <= i }
    OBVIOUS
  <2>2. { h \in E : h <= i } \in SUBSET E
    OBVIOUS
  <2>3. /\ Cardinality({ h \in E : h <= i }) <= Cardinality(E)
        /\ Cardinality({ h \in E : h <= i }) \in Nat
    BY <1>1, <2>2, FS_Subset, FS_CardinalityType
  <2>. QED
    BY <2>1, <2>3
<1>3. Rank(F, n + 1) = Cardinality(E) + 1
  <2>1. { h \in F : h <= n + 1 } = F
    <3>. HIDE DEF F
    <3>. QED
      BY <1>0
  <2>. QED
    BY <1>1, <2>1
<1>4. ASSUME NEW r \in 1..Cardinality(E)
      PROVE  NthOf(E, r) \in E /\ NthOf(F, r) = NthOf(E, r)
  <2>. DEFINE D == { i \in E : Rank(E, i) = r }
  <2>0. \E i \in E : Rank(E, i) = r
    BY RankReached
  <2>1. D # {} /\ D \in SUBSET (1..n)
    BY <2>0
  <2>2. { i \in F : Rank(F, i) = r } = D
    <3>. HIDE DEF Rank
    <3>1. r # Cardinality(E) + 1
      BY <1>1
    <3>. QED
      BY <1>2, <1>3, <3>1
  <2>3. NthOf(F, r) = Max(D) /\ NthOf(E, r) = Max(D)
    BY <2>2 DEF NthOf
  <2>4. Max(D) \in D
    BY <2>1, GreatestPosition
  <2>. QED
    BY <2>3, <2>4
<1>5. NthOf(F, Cardinality(E) + 1) = n + 1
  <2>1. { i \in F : Rank(F, i) = Cardinality(E) + 1 } = {n + 1}
    <3>. HIDE DEF Rank
    <3>1. \A i \in E : Rank(F, i) # Cardinality(E) + 1
      BY <1>1, <1>2
    <3>. QED
      BY <1>3, <3>1
  <2>2. Max({n + 1}) = n + 1
    BY MaxOfNext
  <2>. QED
    BY <2>1, <2>2 DEF NthOf
<1>. QED
  BY <1>1, <1>4, <1>5

-----------------------------------------------------------------------------
\* Recursion over the numbers up to a bound, one step after the other.
Steps(N, V, F, b, r) == r \in [0..N -> V] /\ r[0] = b /\ \A n \in 1..N : r[n] = F[n][r[n - 1]]

\* There is a function that a recursion over the numbers up to a bound defines: were there a
\* least bound without one, the function of the bound before it could be extended.
LEMMA RecursionExists ==
  ASSUME NEW N \in Nat, NEW V, NEW F \in [1..N -> [V -> V]], NEW b \in V
  PROVE  \E r : Steps(N, V, F, b, r)
<1>. DEFINE Good(k) == \E r \in [0..k -> V] : r[0] = b /\ \A n \in 1..k : r[n] = F[n][r[n - 1]]
            S == { k \in 0..N : ~Good(k) }
<1>1. Good(0)
  <2>. DEFINE r == [n \in 0..0 |-> b]
  <2>1. r \in [0..0 -> V] /\ r[0] = b /\ \A n \in 1..0 : r[n] = F[n][r[n - 1]]
    OBVIOUS
  <2>. HIDE DEF r
  <2>. QED
    BY <2>1
<1>2. ASSUME NEW k \in 0..N, k + 1 <= N, Good(k) PROVE Good(k + 1)
  <2>1. PICK r \in [0..k -> V] : r[0] = b /\ \A n \in 1..k : r[n] = F[n][r[n - 1]]
    BY <1>2
  <2>. DEFINE q == [n \in 0..(k + 1) |-> IF n = k + 1 THEN F[k + 1][r[k]] ELSE r[n]]
  <2>2. k + 1 \in 1..N /\ r[k] \in V
    BY <1>2, <2>1
  <2>3. F[k + 1][r[k]] \in V
    BY <2>2
  <2>4. q \in [0..(k + 1) -> V]
    BY <2>1, <2>3
  <2>5. q[0] = b
    BY <2>1
  <2>6. \A n \in 1..(k + 1) : q[n] = F[n][q[n - 1]]
    <3>. TAKE n \in 1..(k + 1)
    <3>1. CASE n = k + 1
      <4>1. n - 1 = k /\ k # k + 1 /\ k \in 0..(k + 1) /\ n \in 0..(k + 1)
        BY <3>1
      <4>2. q[n - 1] = r[k] /\ q[n] = F[k + 1][r[k]]
        BY <3>1, <4>1
      <4>. QED
        BY <3>1, <4>2
    <3>2. CASE n # k + 1
      <4>1. n \in 1..k /\ n - 1 \in 0..k /\ n - 1 # k + 1 /\ n \in 0..(k + 1) /\ n - 1 \in 0..(k + 1)
        BY <3>2
      <4>2. q[n] = r[n] /\ q[n - 1] = r[n - 1]
        BY <3>2, <4>1
      <4>. QED
        BY <2>1, <4>1, <4>2
    <3>. QED
      BY <3>1, <3>2
  <2>. HIDE DEF q
  <2>. QED
    BY <2>4, <2>5, <2>6
<1>. HIDE DEF Good
<1>3. S = {}
  <2>. SUFFICES ASSUME S # {} PROVE FALSE
    OBVIOUS
  <2>1. S \in SUBSET Nat
    OBVIOUS
  <2>2. PICK m \in S : \A n \in S : m <= n
    BY <2>1, LeastNatural
  <2>3. m \in 0..N /\ ~Good(m) /\ m # 0
    BY <1>1, <2>2
  <2>4. m - 1 \in 0..N /\ (m - 1) + 1 = m
    BY <2>3
  <2>5. m - 1 \notin S
    BY <2>2, <2>4
  <2>6. Good(m - 1)
    BY <2>4, <2>5
  <2>7. Good((m - 1) + 1)
    BY <1>2, <2>3, <2>4, <2>6
  <2>. QED
    BY <2>3, <2>4, <2>7
<1>4. Good(N)
  BY <1>3
<1>. QED
  BY <1>4 DEF Good, Steps

\* What every step keeps holds of the last result.
LEMMA RecursionStays ==
  ASSUME NEW N \in Nat, NEW V, NEW R, R[0] \in V,
         \A n \in 1..N : R[n - 1] \in V => R[n] \in V
  PROVE  R[N] \in V
<1>. DEFINE S == { k \in 0..N : R[k] \notin V }
<1>1. ASSUME S # {} PROVE FALSE
  <2>1. S \in SUBSET Nat
    OBVIOUS
  <2>2. PICK m \in S : \A n \in S : m <= n
    BY <1>1, <2>1, LeastNatural
  <2>3. m \in 1..N /\ R[m] \notin V
    BY <2>2
  <2>4. m - 1 \in 0..N /\ m - 1 \notin S
    BY <2>2, <2>3
  <2>. QED
    BY <2>3, <2>4
<1>. QED
  BY <1>1

=============================================================================
