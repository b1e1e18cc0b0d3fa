--------------------------- MODULE SequenceLemmas ---------------------------
(***************************************************************************)
(* Sequences without repetitions: what removing an element, cutting the    *)
(* end off or putting an element in front makes of them.  The lists of     *)
(* CDNs in Meta's lines and the lists of files in the trackers are such    *)
(* sequences.  And sums over finite sets: the sizes of the files in a      *)
(* storage.                                                                *)
(***************************************************************************)
EXTENDS Integers, SequencesExt, SequenceTheorems, FiniteSetTheorems,
        WellFoundedInduction, TLAPS

\* A set of numbers that is not empty has a least element.
LEMMA LeastNatural ==
  ASSUME NEW S \in SUBSET Nat, S # {}
  PROVE  \E x \in S : \A y \in S : x <= y
<1>1. PICK x \in S : \A y \in S : <<y, x>> \notin OpToRel(<, Nat)
  BY NatLessThanWellFounded, WFMin
<1>2. ASSUME NEW y \in S
      PROVE  ~(y < x)
  <2>1. SUFFICES ASSUME y < x PROVE <<y, x>> \in OpToRel(<, Nat)
    BY <1>1, Zenon
  <2>2. <<y, x>> \in Nat \X Nat /\ <<y, x>>[1] < <<y, x>>[2]
    BY <2>1
  <2> QED BY <2>2, Zenon DEF OpToRel
<1> QED BY <1>2

LEMMA LeastNumber ==
  ASSUME NEW S \in SUBSET Nat, S # {}
  PROVE  Min(S) \in S
BY LeastNatural DEF Min

\* What removing one element leaves of a sequence.
LEMMA RemoveAtElements ==
  ASSUME NEW S, NEW s \in Seq(S), NEW i \in 1..Len(s)
  PROVE  /\ RemoveAt(s, i) \in Seq(S)
         /\ Len(RemoveAt(s, i)) = Len(s) - 1
         /\ \A j \in 1..(Len(s) - 1) :
              /\ j < i  => RemoveAt(s, i)[j] = s[j]
              /\ j >= i => RemoveAt(s, i)[j] = s[j + 1]
<1> DEFINE left == SubSeq(s, 1, i - 1)  right == SubSeq(s, i + 1, Len(s))
<1>1. /\ left \in Seq(S) /\ Len(left) = i - 1
      /\ \A j \in 1..(i - 1) : left[j] = s[j]
  <2>1. \A j \in 1..(i - 1) : s[j] \in S
    OBVIOUS
  <2> QED BY <2>1, SubSeqProperties
<1>2. /\ right \in Seq(S) /\ Len(right) = Len(s) - i
      /\ \A j \in 1..(Len(s) - i) : right[j] = s[i + j]
  <2>1. \A j \in (i + 1)..Len(s) : s[j] \in S
    OBVIOUS
  <2> QED BY <2>1, SubSeqProperties
<1>3. RemoveAt(s, i) = left \o right
  BY DEF RemoveAt
<1> HIDE DEF left, right
<1>4. Len(left) + Len(right) = Len(s) - 1
  BY <1>1, <1>2
<1>5. /\ left \o right \in Seq(S)
      /\ Len(left \o right) = Len(s) - 1
      /\ \A j \in 1..(Len(s) - 1) : (left \o right)[j] =
           IF j <= Len(left) THEN left[j] ELSE right[j - Len(left)]
  <2>1. left \in Seq(S) /\ right \in Seq(S)
    BY <1>1, <1>2
  <2> QED BY <1>4, <2>1, ConcatProperties
<1>6. ASSUME NEW j \in 1..(Len(s) - 1)
      PROVE  /\ j < i  => (left \o right)[j] = s[j]
             /\ j >= i => (left \o right)[j] = s[j + 1]
  <2>1. CASE j < i
    <3>1. j \in 1..(i - 1)
      BY <2>1
    <3>2. left[j] = s[j]
      BY <1>1, <3>1
    <3>3. (left \o right)[j] = left[j]
      BY <1>1, <1>5, <2>1
    <3> QED BY <2>1, <3>2, <3>3
  <2>2. CASE j >= i
    <3>1. j - (i - 1) \in 1..(Len(s) - i)
      BY <2>2
    <3>2. right[j - (i - 1)] = s[i + (j - (i - 1))]
      BY <1>2, <3>1
    <3>3. (left \o right)[j] = right[j - (i - 1)]
      BY <1>1, <1>5, <2>2
    <3>4. i + (j - (i - 1)) = j + 1
      OBVIOUS
    <3>5. (left \o right)[j] = s[j + 1]
      BY <3>2, <3>3, <3>4, Zenon
    <3> QED BY <2>2, <3>5
  <2> QED BY <2>1, <2>2
<1> QED BY <1>3, <1>5, <1>6

\* Removing one element of a sequence without repetitions removes just that.
LEMMA RemoveAtInjective ==
  ASSUME NEW S, NEW s \in Seq(S), IsInjective(s), NEW i \in 1..Len(s)
  PROVE  /\ IsInjective(RemoveAt(s, i))
         /\ ToSet(RemoveAt(s, i)) = ToSet(s) \ {s[i]}
<1> DEFINE t == RemoveAt(s, i)  at(j) == IF j < i THEN j ELSE j + 1
<1>1. /\ t \in Seq(S) /\ Len(t) = Len(s) - 1
      /\ \A j \in 1..(Len(s) - 1) : /\ j < i  => t[j] = s[j]
                                    /\ j >= i => t[j] = s[j + 1]
  BY RemoveAtElements
<1>2. DOMAIN t = 1..(Len(s) - 1) /\ DOMAIN s = 1..Len(s)
  BY <1>1
<1>3. \A a, b \in 1..Len(s) : s[a] = s[b] => a = b
  BY DEF IsInjective
<1> HIDE DEF t
<1>4. ASSUME NEW j \in 1..(Len(s) - 1)
      PROVE  at(j) \in 1..Len(s) /\ at(j) # i /\ t[j] = s[at(j)]
  <2>1. CASE j < i
    <3>1. at(j) = j /\ j \in 1..Len(s) /\ j # i
      BY <2>1
    <3>2. t[j] = s[j]
      BY <1>1, <2>1
    <3> HIDE DEF at
    <3> QED BY <3>1, <3>2
  <2>2. CASE ~(j < i)
    <3>1. at(j) = j + 1 /\ j + 1 \in 1..Len(s) /\ j + 1 # i /\ j >= i
      BY <2>2
    <3>2. t[j] = s[j + 1]
      BY <1>1, <3>1
    <3> HIDE DEF at
    <3> QED BY <3>1, <3>2
  <2> QED BY <2>1, <2>2
<1>5. \A a, b \in 1..(Len(s) - 1) : at(a) = at(b) => a = b
  OBVIOUS
<1>6. ASSUME NEW a \in 1..Len(s), a # i
      PROVE  \E j \in 1..(Len(s) - 1) : at(j) = a
  <2>1. CASE a < i
    <3>1. a \in 1..(Len(s) - 1) /\ at(a) = a
      BY <2>1
    <3> QED BY <3>1
  <2>2. CASE a > i
    <3>1. a - 1 \in 1..(Len(s) - 1) /\ at(a - 1) = a
      BY <2>2
    <3> QED BY <3>1
  <2> QED BY <1>6, <2>1, <2>2
<1> HIDE DEF at
<1>7. IsInjective(t)
  <2>1. ASSUME NEW a \in 1..(Len(s) - 1), NEW b \in 1..(Len(s) - 1), t[a] = t[b]
        PROVE  a = b
    <3>1. at(a) = at(b)
      BY <1>3, <1>4, <2>1
    <3> QED BY <1>5, <3>1
  <2> QED BY <1>2, <2>1 DEF IsInjective
<1>8. ToSet(t) = ToSet(s) \ {s[i]}
  <2>1. \A x : x \in ToSet(t) <=> \E j \in 1..(Len(s) - 1) : t[j] = x
    BY <1>2, Zenon DEF ToSet
  <2>2. \A x : x \in ToSet(s) <=> \E a \in 1..Len(s) : s[a] = x
    BY <1>2, Zenon DEF ToSet
  <2>3. ASSUME NEW x \in ToSet(t) PROVE x \in ToSet(s) /\ x # s[i]
    <3>1. PICK j \in 1..(Len(s) - 1) : t[j] = x
      BY <2>1
    <3> QED BY <1>3, <1>4, <2>2, <3>1
  <2>4. ASSUME NEW x \in ToSet(s), x # s[i] PROVE x \in ToSet(t)
    <3>1. PICK a \in 1..Len(s) : s[a] = x
      BY <2>2
    <3>2. PICK j \in 1..(Len(s) - 1) : at(j) = a
      BY <1>6, <2>4, <3>1
    <3> QED BY <1>4, <2>1, <3>1, <3>2
  <2> QED BY <2>3, <2>4
<1> QED BY <1>7, <1>8 DEF t

\* RemoveFirst removes an element of that value, if there is one.
LEMMA RemoveFirstIs ==
  ASSUME NEW S, NEW s \in Seq(S), NEW d
  PROVE  \/ d \notin ToSet(s) /\ RemoveFirst(s, d) = s
         \/ \E i \in 1..Len(s) : s[i] = d /\ RemoveFirst(s, d) = RemoveAt(s, i)
<1> DEFINE I == {i \in 1..Len(s) : s[i] = d}
<1>1. CASE I = {}
  <2>1. \A i \in 1..Len(s) : s[i] # d
    BY <1>1
  <2>2. RemoveFirst(s, d) = s
    BY <2>1 DEF RemoveFirst
  <2>3. d \notin ToSet(s)
    BY <2>1 DEF ToSet
  <2> QED BY <2>2, <2>3
<1>2. CASE I # {}
  <2>1. Min(I) \in I
    <3>1. I \in SUBSET Nat
      OBVIOUS
    <3> HIDE DEF I
    <3> QED BY <1>2, <3>1, LeastNumber
  <2>2. RemoveFirst(s, d) = RemoveAt(s, Min(I))
    BY <1>2 DEF RemoveFirst, SelectInSeq
  <2> QED BY <2>1, <2>2
<1> QED BY <1>1, <1>2

\* RemoveFirst keeps a sequence a sequence, and one without repetitions without
\* them.
LEMMA RemoveFirstKeeps ==
  ASSUME NEW S, NEW s \in Seq(S), NEW d
  PROVE  /\ RemoveFirst(s, d) \in Seq(S)
         /\ IsInjective(s) => /\ IsInjective(RemoveFirst(s, d))
                              /\ ToSet(RemoveFirst(s, d)) = ToSet(s) \ {d}
<1>1. CASE d \notin ToSet(s) /\ RemoveFirst(s, d) = s
  BY <1>1
<1>2. CASE \E i \in 1..Len(s) : s[i] = d /\ RemoveFirst(s, d) = RemoveAt(s, i)
  <2>1. PICK i \in 1..Len(s) : s[i] = d /\ RemoveFirst(s, d) = RemoveAt(s, i)
    BY <1>2
  <2>2. RemoveAt(s, i) \in Seq(S)
    BY RemoveAtElements
  <2>3. IsInjective(s) => /\ IsInjective(RemoveAt(s, i))
                         /\ ToSet(RemoveAt(s, i)) = ToSet(s) \ {s[i]}
    BY RemoveAtInjective
  <2> QED BY <2>1, <2>2, <2>3
<1> QED BY <1>1, <1>2, RemoveFirstIs

\* A new element in front of a sequence without repetitions.
LEMMA ConsInjective ==
  ASSUME NEW S, NEW s \in Seq(S), IsInjective(s), NEW x \in S, x \notin ToSet(s)
  PROVE  IsInjective(<<x>> \o s) /\ ToSet(<<x>> \o s) = ToSet(s) \cup {x}
<1> DEFINE t == <<x>> \o s
<1>1. /\ t \in Seq(S) /\ Len(t) = Len(s) + 1 /\ t[1] = x
      /\ \A j \in 2..(Len(s) + 1) : t[j] = s[j - 1]
  OBVIOUS
<1>2. DOMAIN t = 1..(Len(s) + 1) /\ DOMAIN s = 1..Len(s)
  BY <1>1
<1>3. \A a, b \in 1..Len(s) : s[a] = s[b] => a = b
  BY DEF IsInjective
<1>4. \A a \in 1..Len(s) : s[a] # x
  BY DEF ToSet
<1> HIDE DEF t
<1>5. ASSUME NEW a \in 1..(Len(s) + 1), NEW b \in 1..(Len(s) + 1), t[a] = t[b]
      PROVE  a = b
  <2>1. a = 1 \/ (a \in 2..(Len(s) + 1) /\ a - 1 \in 1..Len(s))
    OBVIOUS
  <2>2. b = 1 \/ (b \in 2..(Len(s) + 1) /\ b - 1 \in 1..Len(s))
    OBVIOUS
  <2> QED BY <1>1, <1>3, <1>4, <1>5, <2>1, <2>2
<1>6. ToSet(t) = ToSet(s) \cup {x}
  <2>1. \A y : y \in ToSet(t) <=> \E j \in 1..(Len(s) + 1) : t[j] = y
    BY <1>2, Zenon DEF ToSet
  <2>2. \A y : y \in ToSet(s) <=> \E a \in 1..Len(s) : s[a] = y
    BY <1>2, Zenon DEF ToSet
  <2>3. ASSUME NEW y \in ToSet(t) PROVE y \in ToSet(s) \cup {x}
    <3>1. PICK j \in 1..(Len(s) + 1) : t[j] = y
      BY <2>1
    <3>2. j = 1 \/ (j \in 2..(Len(s) + 1) /\ j - 1 \in 1..Len(s))
      OBVIOUS
    <3> QED BY <1>1, <2>2, <3>1, <3>2
  <2>4. ASSUME NEW y \in ToSet(s) PROVE y \in ToSet(t)
    <3>1. PICK a \in 1..Len(s) : s[a] = y
      BY <2>2
    <3>2. a + 1 \in 2..(Len(s) + 1) /\ a + 1 \in 1..(Len(s) + 1) /\ (a + 1) - 1 = a
      OBVIOUS
    <3>3. t[a + 1] = y
      BY <1>1, <3>1, <3>2
    <3> QED BY <2>1, <3>2, <3>3
  <2>5. x \in ToSet(t)
    <3>1. 1 \in 1..(Len(s) + 1)
      OBVIOUS
    <3> QED BY <1>1, <2>1, <3>1
  <2> QED BY <2>3, <2>4, <2>5
<1> QED BY <1>2, <1>5, <1>6 DEF IsInjective, t

\* The end cut off a sequence without repetitions.
LEMMA CutInjective ==
  ASSUME NEW S, NEW s \in Seq(S), IsInjective(s), NEW n \in 0..Len(s)
  PROVE  /\ SubSeq(s, 1, n) \in Seq(S) /\ IsInjective(SubSeq(s, 1, n))
         /\ ToSet(SubSeq(s, 1, n)) = ToSet(s) \ {s[i] : i \in (n + 1)..Len(s)}
<1> DEFINE t == SubSeq(s, 1, n)
<1>1. \A i \in 1..n : s[i] \in S
  OBVIOUS
<1>2. t \in Seq(S) /\ Len(t) = n /\ \A i \in 1..n : t[i] = s[i]
  BY <1>1, SubSeqProperties
<1>3. DOMAIN t = 1..n /\ DOMAIN s = 1..Len(s)
  BY <1>2
<1>4. \A a, b \in 1..Len(s) : s[a] = s[b] => a = b
  BY DEF IsInjective
<1> HIDE DEF t
<1>5. IsInjective(t)
  <2>1. ASSUME NEW a \in 1..n, NEW b \in 1..n, t[a] = t[b] PROVE a = b
    <3>1. a \in 1..Len(s) /\ b \in 1..Len(s) /\ s[a] = s[b]
      BY <1>2, <2>1
    <3> QED BY <1>4, <3>1
  <2> QED BY <1>3, <2>1 DEF IsInjective
<1>6. ToSet(t) = ToSet(s) \ {s[i] : i \in (n + 1)..Len(s)}
  <2>1. \A y : y \in ToSet(t) <=> \E j \in 1..n : t[j] = y
    BY <1>3, Zenon DEF ToSet
  <2>2. \A y : y \in ToSet(s) <=> \E a \in 1..Len(s) : s[a] = y
    BY <1>3, Zenon DEF ToSet
  <2>3. ASSUME NEW y \in ToSet(t)
        PROVE  y \in ToSet(s) /\ \A i \in (n + 1)..Len(s) : s[i] # y
    <3>1. PICK j \in 1..n : t[j] = y
      BY <2>1
    <3>2. j \in 1..Len(s) /\ s[j] = y
      BY <1>2, <3>1
    <3>3. \A i \in (n + 1)..Len(s) : i \in 1..Len(s) /\ i # j
      OBVIOUS
    <3> QED BY <1>4, <2>2, <3>2, <3>3
  <2>4. ASSUME NEW y \in ToSet(s), \A i \in (n + 1)..Len(s) : s[i] # y
        PROVE  y \in ToSet(t)
    <3>1. PICK a \in 1..Len(s) : s[a] = y
      BY <2>2
    <3>2. a \in 1..n
      BY <2>4, <3>1
    <3> QED BY <1>2, <2>1, <3>1, <3>2
  <2> QED BY <2>3, <2>4
<1> QED BY <1>2, <1>5, <1>6 DEF t

-----------------------------------------------------------------------------
(* Sums over finite sets.                                                  *)

\* The element that SumFunctionOnSet takes next.
Choice(s) == CHOOSE x \in s : TRUE

\* The functions that add up F as SumFunctionOnSet does, for the subsets of S of at
\* most n elements.
Sums(F, S, n) ==
  {g \in [SUBSET S -> Nat] : \A s \in SUBSET S : Cardinality(s) <= n =>
     g[s] = IF s = {} THEN 0 ELSE F[Choice(s)] + g[s \ {Choice(s)}]}

\* A function that adds up F, for all subsets.
AddsUp(F, S, h) ==
  \A s \in SUBSET S : h[s] = IF s = {} THEN 0 ELSE F[Choice(s)] + h[s \ {Choice(s)}]

\* There is such a function: it can be extended from the subsets of n elements to
\* those of n + 1.
LEMMA SumsExist ==
  ASSUME NEW F, NEW S, IsFiniteSet(S), \A x \in S : F[x] \in Nat, NEW n \in Nat
  PROVE  Sums(F, S, n) # {}
<1> DEFINE Bad == {i \in Nat : Sums(F, S, i) = {}}
<1> SUFFICES ASSUME Bad # {} PROVE FALSE
  OBVIOUS
<1> DEFINE m == Min(Bad)
<1>1. m \in Nat /\ Sums(F, S, m) = {}
  <2>1. Bad \in SUBSET Nat
    OBVIOUS
  <2>2. m \in Bad
    BY <2>1, LeastNumber
  <2> QED BY <2>2
<1>2. \A i \in Nat : i < m => Sums(F, S, i) # {}
  <2>1. \A i \in Bad : m <= i
    <3>1. m \in Bad
      BY <1>1
    <3>2. \E j \in Bad : \A i \in Bad : j <= i
      BY LeastNatural
    <3> QED BY <3>2 DEF Min
  <2> QED BY <1>1, <2>1
<1> HIDE DEF m
<1>3. \A s \in SUBSET S : /\ IsFiniteSet(s) /\ Cardinality(s) \in Nat
                          /\ Cardinality(s) = 0 <=> s = {}
  BY FS_Subset, FS_CardinalityType, FS_EmptySet
<1>4. \A s \in SUBSET S : s # {} =>
        Choice(s) \in s /\ Cardinality(s \ {Choice(s)}) = Cardinality(s) - 1
  BY <1>3, FS_RemoveElement DEF Choice
<1>5. CASE m = 0
  <2> DEFINE g == [s \in SUBSET S |-> 0]
  <2>1. g \in Sums(F, S, 0)
    BY <1>3 DEF Sums
  <2> QED BY <1>1, <1>5, <2>1
<1>6. CASE m # 0
  <2>1. PICK g \in Sums(F, S, m - 1) : TRUE
    BY <1>1, <1>2, <1>6
  <2>2. g \in [SUBSET S -> Nat]
    BY DEF Sums
  <2> DEFINE h == [s \in SUBSET S |-> IF Cardinality(s) <= m - 1 THEN g[s]
                                      ELSE F[Choice(s)] + g[s \ {Choice(s)}]]
  <2>3. h \in [SUBSET S -> Nat]
    <3>1. ASSUME NEW s \in SUBSET S, ~(Cardinality(s) <= m - 1)
          PROVE  F[Choice(s)] + g[s \ {Choice(s)}] \in Nat
      <4>1. s # {}
        BY <1>1, <1>3, <1>6, <3>1
      <4>2. Choice(s) \in S /\ s \ {Choice(s)} \in SUBSET S
        BY <1>4, <4>1
      <4> QED BY <2>2, <4>2
    <3> QED BY <2>2, <3>1
  <2>4. ASSUME NEW s \in SUBSET S, Cardinality(s) <= m
        PROVE  h[s] = IF s = {} THEN 0 ELSE F[Choice(s)] + h[s \ {Choice(s)}]
    <3>1. CASE s = {}
      <4>1. Cardinality(s) = 0 /\ 0 <= m - 1
        BY <1>1, <1>3, <1>6, <3>1
      <4>2. g[s] = 0
        BY <3>1, <4>1 DEF Sums
      <4> QED BY <3>1, <4>1, <4>2
    <3>2. CASE s # {}
      <4>1. /\ Cardinality(s \ {Choice(s)}) <= m - 1 /\ s \ {Choice(s)} \in SUBSET S
        BY <1>1, <1>3, <1>4, <2>4, <3>2
      <4>2. h[s \ {Choice(s)}] = g[s \ {Choice(s)}]
        BY <4>1
      <4>3. Cardinality(s) <= m - 1 => g[s] = F[Choice(s)] + g[s \ {Choice(s)}]
        BY <3>2 DEF Sums
      <4> QED BY <3>2, <4>2, <4>3
    <3> QED BY <3>1, <3>2
  <2>5. h \in Sums(F, S, m)
    <3> HIDE DEF h
    <3> QED BY <2>3, <2>4 DEF Sums
  <2> QED BY <1>1, <2>5
<1> QED BY <1>5, <1>6

\* Among subsets of a finite set there is one that contains no other of them.
LEMMA MinimalSubset ==
  ASSUME NEW S, IsFiniteSet(S), NEW B \in SUBSET SUBSET S, B # {}
  PROVE  \E t \in B : \A u \in SUBSET t : u # t => u \notin B
<1> DEFINE Sizes == {Cardinality(t) : t \in B}
<1>1. \A t \in B : /\ IsFiniteSet(t) /\ Cardinality(t) \in Nat
                  /\ \A u \in SUBSET t : u # t => ~(Cardinality(t) <= Cardinality(u))
  BY FS_Subset, FS_CardinalityType
<1>2. PICK n \in Sizes : \A i \in Sizes : n <= i
  <2>1. Sizes \in SUBSET Nat /\ Sizes # {}
    BY <1>1
  <2> HIDE DEF Sizes
  <2> QED BY <2>1, LeastNatural
<1>3. PICK t \in B : Cardinality(t) = n
  OBVIOUS
<1>4. \A u \in B : Cardinality(t) <= Cardinality(u)
  BY <1>2, <1>3
<1> QED BY <1>1, <1>3, <1>4

\* Functions that add up F agree where they are defined.
LEMMA SumsAgree ==
  ASSUME NEW F, NEW S, IsFiniteSet(S), NEW T \in SUBSET S,
         NEW g \in Sums(F, S, Cardinality(S)), NEW h,
         AddsUp(F, T, h)
  PROVE  \A s \in SUBSET T : g[s] = h[s]
<1> DEFINE Bad == {t \in SUBSET T : g[t] # h[t]}
<1> SUFFICES ASSUME Bad # {} PROVE FALSE
  OBVIOUS
<1>1. IsFiniteSet(T) /\ \A s \in SUBSET T : Cardinality(s) <= Cardinality(S) /\ s \in SUBSET S
  BY FS_Subset
<1>2. PICK s \in Bad : \A u \in SUBSET s : u # s => u \notin Bad
  <2>1. Bad \in SUBSET SUBSET T
    OBVIOUS
  <2> HIDE DEF Bad
  <2> QED BY <1>1, <2>1, MinimalSubset
<1>3. CASE s = {}
  BY <1>1, <1>3 DEF Sums, AddsUp
<1>4. CASE s # {}
  <2>1. /\ g[s] = F[Choice(s)] + g[s \ {Choice(s)}]
        /\ h[s] = F[Choice(s)] + h[s \ {Choice(s)}]
    BY <1>1, <1>4 DEF Sums, AddsUp
  <2>2. g[s \ {Choice(s)}] = h[s \ {Choice(s)}]
    <3>1. Choice(s) \in s
      BY <1>4 DEF Choice
    <3> QED BY <1>2, <3>1
  <2> QED BY <2>1, <2>2
<1> QED BY <1>3, <1>4

\* The order in which the elements are added does not matter.
LEMMA SumsTake ==
  ASSUME NEW F, NEW S, IsFiniteSet(S), \A x \in S : F[x] \in Nat,
         NEW g \in Sums(F, S, Cardinality(S))
  PROVE  \A s \in SUBSET S : \A x \in s : g[s] = F[x] + g[s \ {x}]
<1> DEFINE Bad == {t \in SUBSET S : \E x \in t : g[t] # F[x] + g[t \ {x}]}
<1> SUFFICES ASSUME Bad # {} PROVE FALSE
  OBVIOUS
<1>1. \A s \in SUBSET S : Cardinality(s) <= Cardinality(S)
  BY FS_Subset
<1>2. PICK s \in Bad : \A u \in SUBSET s : u # s => u \notin Bad
  <2>1. Bad \in SUBSET SUBSET S
    OBVIOUS
  <2> HIDE DEF Bad
  <2> QED BY <2>1, MinimalSubset
<1>3. PICK x \in s : g[s] # F[x] + g[s \ {x}]
  OBVIOUS
<1> DEFINE y == Choice(s)
<1>4. y \in s
  BY <1>3 DEF Choice
<1>5. g[s] = F[y] + g[s \ {y}]
  BY <1>1, <1>3 DEF Sums
<1> HIDE DEF y
<1>6. x # y
  BY <1>3, <1>5
<1>7. s \ {x} \notin Bad /\ s \ {y} \notin Bad
  BY <1>2, <1>4
<1> DEFINE z == s \ {x, y}
<1>8. (s \ {y}) \ {x} = z /\ (s \ {x}) \ {y} = z /\ z \in SUBSET S
  OBVIOUS
<1>9. g[s \ {y}] = F[x] + g[z] /\ g[s \ {x}] = F[y] + g[z]
  BY <1>4, <1>6, <1>7, <1>8
<1> HIDE DEF z
<1>10. F[x] \in Nat /\ F[y] \in Nat /\ g[z] \in Nat
  BY <1>4, <1>8 DEF Sums
<1>11. F[y] + (F[x] + g[z]) = F[x] + (F[y] + g[z])
  BY <1>10
<1> QED BY <1>3, <1>5, <1>9, <1>11

\* What the sum of a finite set is.
LEMMA SumIs ==
  ASSUME NEW F, NEW S, IsFiniteSet(S), \A x \in S : F[x] \in Nat
  PROVE  SumFunctionOnSet(F, S) \in Nat
         /\ \A g \in Sums(F, S, Cardinality(S)) : SumFunctionOnSet(F, S) = g[S]
<1> DEFINE R(h) == h = [s \in SUBSET S |->
                          IF s = {} THEN 0 ELSE LET x == CHOOSE x \in s : TRUE IN F[x] + h[s \ {x}]]
           iter == CHOOSE h : R(h)
<1>1. SumFunctionOnSet(F, S) = iter[S]
  BY Zenon DEF SumFunctionOnSet, FoldFunctionOnSet, MapThenFoldSet
<1>2. Cardinality(S) \in Nat /\ \A s \in SUBSET S : Cardinality(s) <= Cardinality(S)
  BY FS_Subset, FS_CardinalityType
<1>3. PICK g \in Sums(F, S, Cardinality(S)) : TRUE
  BY <1>2, SumsExist
<1>4. R(g)
  BY <1>2, <1>3 DEF Sums, Choice
<1>5. R(iter)
  <2> HIDE DEF R
  <2> QED BY <1>4
<1> HIDE DEF iter
<1>6. AddsUp(F, S, iter)
  BY <1>5 DEF Choice, AddsUp
<1>7. ASSUME NEW h \in Sums(F, S, Cardinality(S)) PROVE iter[S] = h[S]
  <2>1. S \in SUBSET S
    OBVIOUS
  <2>2. \A s \in SUBSET S : h[s] = iter[s]
    BY <1>6, <2>1, SumsAgree
  <2> QED BY <2>1, <2>2
<1>8. g[S] \in Nat
  BY <1>3 DEF Sums
<1> QED BY <1>1, <1>3, <1>7, <1>8

\* What the sum of a finite set is, without the function that adds it up.
LEMMA SumTake ==
  ASSUME NEW F, NEW S, IsFiniteSet(S), \A x \in S : F[x] \in Nat
  PROVE  /\ SumFunctionOnSet(F, S) \in Nat
         /\ S = {} => SumFunctionOnSet(F, S) = 0
         /\ \A x \in S : SumFunctionOnSet(F, S) = F[x] + SumFunctionOnSet(F, S \ {x})
<1>1. /\ Cardinality(S) \in Nat
      /\ \A s \in SUBSET S : Cardinality(s) <= Cardinality(S) /\ IsFiniteSet(s)
                            /\ Cardinality(s) \in Nat
  BY FS_Subset, FS_CardinalityType
<1>2. PICK g \in Sums(F, S, Cardinality(S)) : TRUE
  BY <1>1, SumsExist
<1>3. SumFunctionOnSet(F, S) = g[S] /\ SumFunctionOnSet(F, S) \in Nat
  BY SumIs
<1>4. S = {} => g[S] = 0
  BY <1>1 DEF Sums
<1>5. ASSUME NEW x \in S PROVE SumFunctionOnSet(F, S) = F[x] + SumFunctionOnSet(F, S \ {x})
  <2> DEFINE T == S \ {x}
  <2>1. T \in SUBSET S /\ IsFiniteSet(T) /\ Cardinality(T) \in Nat
    BY <1>1
  <2>2. PICK h \in Sums(F, T, Cardinality(T)) : TRUE
    BY <2>1, SumsExist
  <2> HIDE DEF T
  <2>3. SumFunctionOnSet(F, T) = h[T]
    BY <2>1, <2>2, SumIs
  <2>4. \A s \in SUBSET T : Cardinality(s) <= Cardinality(T)
    BY <2>1, FS_Subset
  <2>5. AddsUp(F, T, h)
    BY <2>2, <2>4 DEF Sums, AddsUp
  <2>6. g[T] = h[T]
    BY <1>2, <2>1, <2>5, SumsAgree
  <2>7. g[S] = F[x] + g[T]
    BY <1>2, SumsTake DEF T
  <2> QED BY <1>3, <2>3, <2>6, <2>7 DEF T
<1> QED BY <1>3, <1>4, <1>5

\* A part of a set adds up to no more than the set.
LEMMA SumPart ==
  ASSUME NEW F, NEW S, IsFiniteSet(S), \A x \in S : F[x] \in Nat
  PROVE  \A T \in SUBSET S : SumFunctionOnSet(F, T) <= SumFunctionOnSet(F, S)
<1> DEFINE Sum(s) == SumFunctionOnSet(F, s)
           Bad == {t \in SUBSET S : \E s \in SUBSET t : ~(Sum(s) <= Sum(t))}
<1>1. \A t \in SUBSET S : /\ Sum(t) \in Nat
                          /\ \A x \in t : Sum(t) = F[x] + Sum(t \ {x})
  BY FS_Subset, SumTake
<1> HIDE DEF Sum
<1>2. SUFFICES ASSUME Bad # {} PROVE FALSE
  <2>1. S \in SUBSET S
    OBVIOUS
  <2> QED BY <2>1 DEF Sum
<1>3. PICK t \in Bad : \A u \in SUBSET t : u # t => u \notin Bad
  <2>1. Bad \in SUBSET SUBSET S
    OBVIOUS
  <2> HIDE DEF Bad
  <2> QED BY <1>2, <2>1, MinimalSubset
<1>4. PICK s \in SUBSET t : ~(Sum(s) <= Sum(t))
  OBVIOUS
<1>5. Sum(s) \in Nat /\ Sum(t) \in Nat /\ s # t
  BY <1>1, <1>4
<1>6. PICK x \in t : x \notin s
  BY <1>5
<1>7. Sum(s) <= Sum(t \ {x})
  BY <1>3, <1>6
<1>8. Sum(t) = F[x] + Sum(t \ {x}) /\ F[x] \in Nat /\ Sum(t \ {x}) \in Nat
  BY <1>1
<1> QED BY <1>4, <1>5, <1>7, <1>8

\* Larger numbers add up to more.
LEMMA SumLarger ==
  ASSUME NEW F, NEW G, NEW S, IsFiniteSet(S),
         \A x \in S : F[x] \in Nat /\ G[x] \in Nat /\ F[x] <= G[x]
  PROVE  SumFunctionOnSet(F, S) <= SumFunctionOnSet(G, S)
<1> DEFINE SumF(s) == SumFunctionOnSet(F, s)
           SumG(s) == SumFunctionOnSet(G, s)
           Bad == {t \in SUBSET S : ~(SumF(t) <= SumG(t))}
<1>1. \A t \in SUBSET S : /\ SumF(t) \in Nat /\ (t = {} => SumF(t) = 0)
                          /\ \A x \in t : SumF(t) = F[x] + SumF(t \ {x})
  BY FS_Subset, SumTake
<1>2. \A t \in SUBSET S : /\ SumG(t) \in Nat /\ (t = {} => SumG(t) = 0)
                          /\ \A x \in t : SumG(t) = G[x] + SumG(t \ {x})
  BY FS_Subset, SumTake
<1> HIDE DEF SumF, SumG
<1>3. SUFFICES ASSUME Bad # {} PROVE FALSE
  <2>1. S \in SUBSET S
    OBVIOUS
  <2> QED BY <2>1 DEF SumF, SumG
<1>4. PICK t \in Bad : \A u \in SUBSET t : u # t => u \notin Bad
  <2>1. Bad \in SUBSET SUBSET S
    OBVIOUS
  <2> HIDE DEF Bad
  <2> QED BY <1>3, <2>1, MinimalSubset
<1>5. t # {}
  BY <1>1, <1>2
<1>6. PICK x \in t : TRUE
  BY <1>5
<1>7. SumF(t \ {x}) <= SumG(t \ {x})
  BY <1>4, <1>6
<1>8. /\ SumF(t) = F[x] + SumF(t \ {x}) /\ SumG(t) = G[x] + SumG(t \ {x})
      /\ SumF(t \ {x}) \in Nat /\ SumG(t \ {x}) \in Nat
      /\ F[x] \in Nat /\ G[x] \in Nat /\ F[x] <= G[x]
  BY <1>1, <1>2, <1>6
<1>9. SumF(t) <= SumG(t)
  BY <1>7, <1>8
<1> QED BY <1>4, <1>9

=============================================================================
