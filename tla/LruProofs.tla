----------------------------- MODULE LruProofs -----------------------------
(***************************************************************************)
(* Proofs about the tracker of CdnDisk, for any finite set of files and    *)
(* any threads: the pointers of LruList always form one list of the mapped *)
(* nodes, and the order of that list is the one of LruOrder.               *)
(***************************************************************************)
EXTENDS CdnDisk, FiniteSetTheorems, WellFoundedInduction, TLAPS

USE NullAssumption

-----------------------------------------------------------------------------
(* Lists of n nodes S: links nx and pv, head h and tail t.                 *)

Links(n, s, S, nx, pv, h, t) ==
  /\ S = {s[i] : i \in 1..n}
  /\ \A i, j \in 1..n : s[i] = s[j] => i = j
  /\ h = IF n = 0 THEN Null ELSE s[1]
  /\ t = IF n = 0 THEN Null ELSE s[n]
  /\ \A i \in 1..n : /\ nx[s[i]] = IF i = n THEN Null ELSE s[i + 1]
                     /\ pv[s[i]] = IF i = 1 THEN Null ELSE s[i - 1]

Shape(n, s, S, nx, pv, h, t) == s \in [1..n -> S] /\ Links(n, s, S, nx, pv, h, t)

OrderOf(n, S, nx, pv, h, t) == CHOOSE s \in [1..n -> S] : Links(n, s, S, nx, pv, h, t)

CutAt(n, s, j)  == [i \in 1..(n - 1) |-> IF i < j THEN s[i] ELSE s[i + 1]]
InFront(n, k, s) == [i \in 1..(n + 1) |-> IF i = 1 THEN k ELSE s[i - 1]]

\* A node is taken out of a list.
LEMMA ShapeCut ==
  ASSUME NEW n \in Nat, NEW S \in SUBSET Keys, NEW s, NEW nx \in Link, NEW pv \in Link,
         NEW h, NEW t, Shape(n, s, S, nx, pv, h, t), NEW j \in 1..n
  PROVE  LET k == s[j] IN
         Shape(n - 1, CutAt(n, s, j), S \ {k},
               [Point(nx, pv[k], nx[k]) EXCEPT ![k] = Null],
               [Point(pv, nx[k], pv[k]) EXCEPT ![k] = Null],
               IF k = h THEN nx[k] ELSE h, IF k = t THEN pv[k] ELSE t)
<1> DEFINE k == s[j]
           c == CutAt(n, s, j)
           mx == [Point(nx, pv[k], nx[k]) EXCEPT ![k] = Null]
           qv == [Point(pv, nx[k], pv[k]) EXCEPT ![k] = Null]
<1> USE DEF Shape, Links
<1>1. /\ s \in [1..n -> S]
      /\ \A i, l \in 1..n : s[i] = s[l] => i = l
      /\ k \in S /\ k \in Keys
  OBVIOUS
<1>2. \A i \in 1..(n - 1) : c[i] = IF i < j THEN s[i] ELSE s[i + 1]
  BY DEF CutAt
<1>3. c \in [1..(n - 1) -> S \ {k}]
  <2>1. ASSUME NEW i \in 1..(n - 1)
        PROVE  (IF i < j THEN s[i] ELSE s[i + 1]) \in S \ {k}
    <3>1. i \in 1..n /\ i + 1 \in 1..n
      OBVIOUS
    <3> QED BY <1>1, <3>1
  <2> QED BY <2>1 DEF CutAt
<1>4. S \ {k} = {c[i] : i \in 1..(n - 1)}
  <2>1. ASSUME NEW x \in S \ {k} PROVE \E i \in 1..(n - 1) : c[i] = x
    <3>1. PICK i \in 1..n : s[i] = x
      OBVIOUS
    <3>2. i # j
      BY <3>1
    <3>3. CASE i < j
      BY <1>2, <3>1, <3>3
    <3>4. CASE i > j
      <4>1. i - 1 \in 1..(n - 1) /\ ~(i - 1 < j) /\ (i - 1) + 1 = i
        BY <3>4
      <4> QED BY <1>2, <3>1, <4>1
    <3> QED BY <3>2, <3>3, <3>4
  <2> QED BY <1>3, <2>1
<1>5. \A i, l \in 1..(n - 1) : c[i] = c[l] => i = l
  <2>1. SUFFICES ASSUME NEW i \in 1..(n - 1), NEW l \in 1..(n - 1), c[i] = c[l]
                 PROVE  i = l
    OBVIOUS
  <2>2. i \in 1..n /\ i + 1 \in 1..n /\ l \in 1..n /\ l + 1 \in 1..n
    OBVIOUS
  <2> QED BY <1>1, <1>2, <2>1, <2>2
<1>6. /\ pv[k] = IF j = 1 THEN Null ELSE s[j - 1]
      /\ nx[k] = IF j = n THEN Null ELSE s[j + 1]
  OBVIOUS
<1>7. /\ \A x \in Keys : mx[x] = IF x = k THEN Null ELSE IF x = pv[k] THEN nx[k] ELSE nx[x]
      /\ \A x \in Keys : qv[x] = IF x = k THEN Null ELSE IF x = nx[k] THEN pv[k] ELSE pv[x]
  BY DEF Point, Link
<1>8. ASSUME NEW i \in 1..(n - 1)
      PROVE  /\ mx[c[i]] = IF i = n - 1 THEN Null ELSE c[i + 1]
             /\ qv[c[i]] = IF i = 1 THEN Null ELSE c[i - 1]
  <2>0. c[i] \in Keys /\ c[i] # k
    BY <1>3
  <2>1. CASE i < j
    <3>1. i \in 1..n /\ c[i] = s[i]
      BY <1>2, <2>1
    <3>2. nx[s[i]] = s[i + 1] /\ pv[s[i]] = IF i = 1 THEN Null ELSE s[i - 1]
      BY <2>1, <3>1
    <3>3. qv[c[i]] = IF i = 1 THEN Null ELSE s[i - 1]
      <4>1. s[i] # nx[k]
        BY <1>1, <1>6, <2>1, <3>1
      <4> QED BY <1>7, <2>0, <3>1, <3>2, <4>1
    <3>4. i # 1 => c[i - 1] = s[i - 1]
      <4>1. i # 1 => i - 1 \in 1..(n - 1) /\ i - 1 < j
        BY <2>1
      <4> QED BY <1>2, <4>1
    <3>5. CASE i = j - 1
      <4>1. mx[c[i]] = IF j = n THEN Null ELSE s[j + 1]
        BY <1>6, <1>7, <2>0, <3>1, <3>5
      <4>2. i # n - 1 => c[i + 1] = s[j + 1]
        <5>1. i # n - 1 => i + 1 \in 1..(n - 1) /\ ~(i + 1 < j) /\ (i + 1) + 1 = j + 1
          BY <3>5
        <5> QED BY <1>2, <5>1
      <4> QED BY <3>3, <3>4, <3>5, <4>1, <4>2
    <3>6. CASE i < j - 1
      <4>1. s[i] # pv[k]
        BY <1>1, <1>6, <3>1, <3>6
      <4>2. mx[c[i]] = s[i + 1]
        BY <1>7, <2>0, <3>1, <3>2, <4>1
      <4>3. i + 1 \in 1..(n - 1) /\ c[i + 1] = s[i + 1]
        BY <1>2, <3>6
      <4> QED BY <3>3, <3>4, <3>6, <4>2, <4>3
    <3> QED BY <2>1, <3>5, <3>6
  <2>2. CASE i >= j
    <3>1. i + 1 \in 1..n /\ c[i] = s[i + 1]
      BY <1>2, <2>2
    <3>2. nx[s[i + 1]] = (IF i + 1 = n THEN Null ELSE s[(i + 1) + 1]) /\ pv[s[i + 1]] = s[i]
      <4>1. i + 1 # 1 /\ (i + 1) - 1 = i
        OBVIOUS
      <4> QED BY <3>1, <4>1
    <3>3. mx[c[i]] = IF i + 1 = n THEN Null ELSE s[(i + 1) + 1]
      <4>1. s[i + 1] # pv[k]
        BY <1>1, <1>6, <2>2, <3>1
      <4> QED BY <1>7, <2>0, <3>1, <3>2, <4>1
    <3>4. i # n - 1 => c[i + 1] = s[(i + 1) + 1]
      <4>1. i # n - 1 => i + 1 \in 1..(n - 1) /\ ~(i + 1 < j)
        BY <2>2
      <4> QED BY <1>2, <4>1
    <3>5. CASE i = j
      <4>1. qv[c[i]] = IF j = 1 THEN Null ELSE s[j - 1]
        BY <1>6, <1>7, <2>0, <3>1, <3>5
      <4>2. i # 1 => c[i - 1] = s[j - 1]
        <5>1. i # 1 => i - 1 \in 1..(n - 1) /\ i - 1 < j
          BY <3>5
        <5> QED BY <1>2, <3>5, <5>1
      <4> QED BY <3>3, <3>4, <3>5, <4>1, <4>2
    <3>6. CASE i > j
      <4>1. s[i + 1] # nx[k]
        <5>1. i + 1 # j + 1 /\ (j # n => j + 1 \in 1..n)
          BY <3>6
        <5> QED BY <1>1, <1>6, <3>1, <5>1
      <4>2. qv[c[i]] = s[i]
        BY <1>7, <2>0, <3>1, <3>2, <4>1
      <4>3. i # 1 /\ c[i - 1] = s[i]
        <5>1. i - 1 \in 1..(n - 1) /\ ~(i - 1 < j) /\ (i - 1) + 1 = i
          BY <3>6
        <5> QED BY <1>2, <3>6, <5>1
      <4> QED BY <3>3, <3>4, <4>2, <4>3
    <3> QED BY <2>2, <3>5, <3>6
  <2> QED BY <2>1, <2>2
<1>9. (IF k = h THEN nx[k] ELSE h) = IF n - 1 = 0 THEN Null ELSE c[1]
  <2>1. h = s[1] /\ 1 \in 1..n
    OBVIOUS
  <2>2. CASE j = 1
    BY <1>2, <1>6, <2>1, <2>2
  <2>3. CASE j # 1
    BY <1>1, <1>2, <2>1, <2>3
  <2> QED BY <2>2, <2>3
<1>10. (IF k = t THEN pv[k] ELSE t) = IF n - 1 = 0 THEN Null ELSE c[n - 1]
  <2>1. t = s[n] /\ n \in 1..n
    OBVIOUS
  <2>2. CASE j = n
    BY <1>2, <1>6, <2>1, <2>2
  <2>3. CASE j # n
    <3>1. n - 1 \in 1..(n - 1) /\ ~(n - 1 < j) /\ (n - 1) + 1 = n
      BY <2>3
    <3> QED BY <1>1, <1>2, <2>1, <2>3, <3>1
  <2> QED BY <2>2, <2>3
<1> QED BY <1>3, <1>4, <1>5, <1>8, <1>9, <1>10

\* A node is put in front of a list.
LEMMA ShapeAdd ==
  ASSUME NEW n \in Nat, NEW S \in SUBSET Keys, NEW s, NEW nx \in Link, NEW pv \in Link,
         NEW h, NEW t, Shape(n, s, S, nx, pv, h, t), NEW k \in Keys, k \notin S
  PROVE  Shape(n + 1, InFront(n, k, s), S \cup {k},
               [nx EXCEPT ![k] = h],
               Point([pv EXCEPT ![k] = Null], h, k),
               k, IF h = Null THEN k ELSE t)
<1> DEFINE f == InFront(n, k, s)
           mx == [nx EXCEPT ![k] = h]
           qv == Point([pv EXCEPT ![k] = Null], h, k)
<1> USE DEF Shape, Links
<1>1. f[1] = k /\ \A i \in 1..n : f[i + 1] = s[i]
  BY DEF InFront
<1>2. ASSUME NEW i \in 1..(n + 1), i # 1
      PROVE  i - 1 \in 1..n /\ f[i] = s[i - 1] /\ (i - 1) + 1 = i
  BY <1>2 DEF InFront
<1>3. f \in [1..(n + 1) -> S \cup {k}]
  <2>1. ASSUME NEW i \in 1..(n + 1)
        PROVE  (IF i = 1 THEN k ELSE s[i - 1]) \in S \cup {k}
    <3>1. i # 1 => i - 1 \in 1..n
      OBVIOUS
    <3> QED BY <3>1
  <2> QED BY <2>1 DEF InFront
<1>4. S \cup {k} = {f[i] : i \in 1..(n + 1)}
  <2>1. ASSUME NEW x \in S PROVE \E i \in 1..(n + 1) : f[i] = x
    <3>1. PICK i \in 1..n : s[i] = x
      OBVIOUS
    <3> QED BY <1>1, <3>1
  <2> QED BY <1>1, <1>3, <2>1
<1>5. \A i, l \in 1..(n + 1) : f[i] = f[l] => i = l
  <2>1. SUFFICES ASSUME NEW i \in 1..(n + 1), NEW l \in 1..(n + 1), f[i] = f[l]
                 PROVE  i = l
    OBVIOUS
  <2>2. \A m \in 1..n : s[m] # k
    OBVIOUS
  <2> QED BY <1>1, <1>2, <2>1, <2>2
<1>6. /\ \A x \in Keys : mx[x] = IF x = k THEN h ELSE nx[x]
      /\ h # k /\ (n = 0 <=> h = Null)
      /\ \A x \in Keys : qv[x] = IF x = k THEN Null ELSE IF x = h THEN k ELSE pv[x]
  <2>1. h # k /\ (n = 0 <=> h = Null) /\ h \in Keys \cup {Null}
    OBVIOUS
  <2> QED BY <2>1 DEF Point, Link
<1>7. ASSUME NEW i \in 1..(n + 1)
      PROVE  /\ mx[f[i]] = IF i = n + 1 THEN Null ELSE f[i + 1]
             /\ qv[f[i]] = IF i = 1 THEN Null ELSE f[i - 1]
  <2>1. CASE i = 1
    <3>1. mx[f[i]] = h /\ qv[f[i]] = Null
      BY <1>1, <1>6, <2>1
    <3>2. n # 0 => h = s[1] /\ f[1 + 1] = s[1]
      BY <1>1
    <3> QED BY <1>6, <2>1, <3>1, <3>2
  <2>2. CASE i # 1
    <3>1. i - 1 \in 1..n /\ f[i] = s[i - 1] /\ (i - 1) + 1 = i
      BY <1>2, <2>2
    <3>2. f[i] \in Keys /\ f[i] # k
      BY <3>1
    <3>3. mx[f[i]] = IF i - 1 = n THEN Null ELSE s[i]
      BY <1>6, <3>1, <3>2
    <3>4. i # n + 1 => f[i + 1] = s[i]
      <4>1. i # n + 1 => i \in 1..n
        OBVIOUS
      <4> QED BY <1>1, <4>1
    <3>5. qv[f[i]] = f[i - 1]
      <4>1. CASE i = 2
        <5>1. f[i] = h /\ f[i - 1] = k
          BY <1>1, <3>1, <4>1
        <5> QED BY <1>6, <3>2, <5>1
      <4>2. CASE i # 2
        <5>1. i - 1 # 1 /\ (i - 1) - 1 \in 1..n
          BY <2>2, <4>2
        <5>2. pv[s[i - 1]] = s[(i - 1) - 1]
          BY <3>1, <5>1
        <5>3. f[i] # h
          BY <3>1, <5>1
        <5>4. f[i - 1] = s[(i - 1) - 1]
          BY <1>1, <5>1
        <5> QED BY <1>6, <3>1, <3>2, <5>2, <5>3, <5>4
      <4> QED BY <4>1, <4>2
    <3> QED BY <2>2, <3>3, <3>4, <3>5
  <2> QED BY <2>1, <2>2
<1>8. (IF h = Null THEN k ELSE t) = f[n + 1]
  <2>1. n # 0 => f[n + 1] = s[n]
    BY <1>1
  <2> QED BY <1>1, <1>6, <2>1
<1>9. n + 1 \in Nat /\ n + 1 # 0 /\ k = f[1]
  BY <1>1
<1> HIDE DEF f, mx, qv
<1>10. Shape(n + 1, f, S \cup {k}, mx, qv, k, IF h = Null THEN k ELSE t)
  BY <1>3, <1>4, <1>5, <1>7, <1>8, <1>9
<1> QED BY <1>10 DEF f, mx, qv

\* A node is moved to the front of a list.
LEMMA ShapeMove ==
  ASSUME NEW n \in Nat, NEW S \in SUBSET Keys, NEW s, NEW nx \in Link, NEW pv \in Link,
         NEW h, NEW t, Shape(n, s, S, nx, pv, h, t), NEW j \in 1..n, s[j] # h
  PROVE  LET k == s[j] IN
         Shape(n, InFront(n - 1, k, CutAt(n, s, j)), S,
               [Point(nx, pv[k], nx[k]) EXCEPT ![k] = h],
               [Point(pv, nx[k], pv[k]) EXCEPT ![k] = Null, ![h] = k],
               k, IF k = t THEN pv[k] ELSE t)
<1> DEFINE k == s[j]
           c == CutAt(n, s, j)
           mx == [Point(nx, pv[k], nx[k]) EXCEPT ![k] = Null]
           qv == [Point(pv, nx[k], pv[k]) EXCEPT ![k] = Null]
           u == IF k = t THEN pv[k] ELSE t
<1>1. /\ k \in S /\ k \in Keys /\ s[1] \in S
      /\ h \in Keys /\ h # Null
      /\ nx[k] \in Keys \cup {Null} /\ pv[k] \in Keys \cup {Null}
  BY DEF Shape, Links, Link
<1>2. mx \in Link /\ qv \in Link
  BY <1>1 DEF Point, Link
<1>3. Shape(n - 1, c, S \ {k}, mx, qv, h, u)
  <2>1. Shape(n - 1, c, S \ {k}, mx, qv, IF k = h THEN nx[k] ELSE h, u)
    BY ShapeCut
  <2> QED BY <2>1
<1> DEFINE mz == [mx EXCEPT ![k] = h]
           qz == Point([qv EXCEPT ![k] = Null], h, k)
           v == IF h = Null THEN k ELSE u
<1>4. Shape((n - 1) + 1, InFront(n - 1, k, c), (S \ {k}) \cup {k}, mz, qz, k, v)
  <2>1. n - 1 \in Nat /\ S \ {k} \in SUBSET Keys /\ k \notin S \ {k}
    OBVIOUS
  <2> HIDE DEF mx, qv, c, k, u
  <2> QED BY <1>1, <1>2, <1>3, <2>1, ShapeAdd
<1>5. (n - 1) + 1 = n /\ (S \ {k}) \cup {k} = S /\ v = u
  BY <1>1
<1>6. mz = [Point(nx, pv[k], nx[k]) EXCEPT ![k] = h]
  BY <1>1, <1>2 DEF Point, Link
<1>7. qz = [Point(pv, nx[k], pv[k]) EXCEPT ![k] = Null, ![h] = k]
  BY <1>1, <1>2 DEF Point, Link
<1> QED BY <1>4, <1>5, <1>6, <1>7

\* The last node is taken out of a list.
LEMMA ShapeTail ==
  ASSUME NEW n \in Nat, NEW S \in SUBSET Keys, NEW s, NEW nx \in Link, NEW pv \in Link,
         NEW h, NEW t, Shape(n, s, S, nx, pv, h, t), t # Null
  PROVE  /\ n \in 1..n /\ t = s[n] /\ t \in S
         /\ Shape(n - 1, CutAt(n, s, n), S \ {t}, Point(nx, pv[t], Null),
                  [pv EXCEPT ![t] = Null], IF pv[t] = Null THEN Null ELSE h, pv[t])
<1>1. n \in 1..n /\ t = s[n] /\ t \in S /\ t \in Keys
  BY DEF Shape, Links
<1>2. Shape(n - 1, CutAt(n, s, n), S \ {t},
            [Point(nx, pv[t], nx[t]) EXCEPT ![t] = Null],
            [Point(pv, nx[t], pv[t]) EXCEPT ![t] = Null],
            IF t = h THEN nx[t] ELSE h, IF t = t THEN pv[t] ELSE t)
  BY <1>1, ShapeCut
<1>3. nx[t] = Null
  BY <1>1 DEF Shape, Links
<1>4. t = h <=> pv[t] = Null
  <2>1. 1 \in 1..n /\ h = s[1] /\ pv[t] = (IF n = 1 THEN Null ELSE s[n - 1])
        /\ (n # 1 => n - 1 \in 1..n)
    BY <1>1 DEF Shape, Links
  <2>2. n = 1 <=> t = h
    BY <1>1, <2>1 DEF Shape, Links
  <2>3. n # 1 => s[n - 1] \in Keys
    BY <2>1 DEF Shape, Links
  <2> QED BY <2>1, <2>2, <2>3
<1>5. [Point(nx, pv[t], nx[t]) EXCEPT ![t] = Null] = Point(nx, pv[t], Null)
  BY <1>1, <1>3 DEF Point, Link
<1>6. [Point(pv, nx[t], pv[t]) EXCEPT ![t] = Null] = [pv EXCEPT ![t] = Null]
  BY <1>3 DEF Point
<1> QED BY <1>1, <1>2, <1>3, <1>4, <1>5, <1>6

\* The pointers determine the order.
LEMMA ShapeUnique ==
  ASSUME NEW n \in Nat, NEW S \in SUBSET Keys, NEW nx, NEW pv, NEW h, NEW t,
         NEW s, Shape(n, s, S, nx, pv, h, t),
         NEW z, Shape(n, z, S, nx, pv, h, t)
  PROVE  s = z
<1> DEFINE D == {i \in 1..n : s[i] # z[i]}
<1>1. SUFFICES ASSUME D # {} PROVE FALSE
  BY DEF Shape
<1> DEFINE T == {1..i : i \in D}
<1>2. T \subseteq FiniteSubsetsOf(Nat) /\ T # {}
  <2>1. \A i \in D : IsFiniteSet(1..i) /\ 1..i \in SUBSET Nat
    BY FS_Interval
  <2> QED BY <1>1, <2>1 DEF FiniteSubsetsOf
<1>3. PICK x \in T : \A y \in T : ~(<<y, x>> \in StrictSubsetOrdering(Nat))
  <2> HIDE DEF T
  <2> QED BY <1>2, WFMin, FS_StrictSubsetOrderingWellFounded
<1>4. PICK i \in D : x = 1..i
  OBVIOUS
<1>5. ASSUME NEW y \in D, y < i PROVE FALSE
  <2>1. 1..y \in T /\ 1..y \in SUBSET Nat /\ 1..i \in SUBSET Nat
    OBVIOUS
  <2>2. 1..y \subseteq 1..i /\ 1..y # 1..i
    BY <1>5
  <2>3. <<1..y, 1..i>> \in StrictSubsetOrdering(Nat)
    BY <2>1, <2>2 DEF StrictSubsetOrdering
  <2> QED BY <1>3, <1>4, <2>1, <2>3
<1>6. CASE i = 1
  BY <1>4, <1>6 DEF Shape, Links
<1>7. CASE i # 1
  <2>1. i - 1 \in 1..n /\ i - 1 < i /\ i - 1 # n /\ (i - 1) + 1 = i /\ i \in 1..n
    BY <1>4, <1>7
  <2>2. s[i - 1] = z[i - 1]
    BY <1>5, <2>1
  <2>3. \A l \in 1..n : /\ nx[s[l]] = IF l = n THEN Null ELSE s[l + 1]
                       /\ nx[z[l]] = IF l = n THEN Null ELSE z[l + 1]
    BY DEF Shape, Links
  <2>4. nx[s[i - 1]] = s[i] /\ nx[z[i - 1]] = z[i]
    BY <2>1, <2>3
  <2> QED BY <1>4, <2>2, <2>4
<1> QED BY <1>6, <1>7

LEMMA OrderIs ==
  ASSUME NEW n \in Nat, NEW S \in SUBSET Keys, NEW nx, NEW pv, NEW h, NEW t,
         NEW s, Shape(n, s, S, nx, pv, h, t)
  PROVE  OrderOf(n, S, nx, pv, h, t) = s
<1> DEFINE z == OrderOf(n, S, nx, pv, h, t)
<1>1. s \in [1..n -> S] /\ Links(n, s, S, nx, pv, h, t)
  BY DEF Shape
<1>2. z \in [1..n -> S] /\ Links(n, z, S, nx, pv, h, t)
  BY <1>1 DEF OrderOf
<1>3. Shape(n, z, S, nx, pv, h, t)
  BY <1>2 DEF Shape
<1> HIDE DEF z
<1>4. z = s
  BY <1>3, ShapeUnique
<1> QED BY <1>4 DEF z

-----------------------------------------------------------------------------
(* Every step keeps the list a list.                                       *)

Size  == Cardinality(nodes)
Order == OrderOf(Size, nodes, next, prev, head, tail)

\* The order s is that of the list now, and the list is well formed.
Now(s) == Shape(Size, s, nodes, next, prev, head, tail)

ListInv == ListTyped /\ nodes \cap nulls = {} /\ \E s : Now(s)

LEMMA Sizes ==
  /\ ListTyped => /\ Size \in Nat /\ (Size = 0 <=> nodes = {})
                  /\ \A k \in nodes : Cardinality(nodes \ {k}) = Size - 1
                  /\ \A k \in Keys \ nodes : Cardinality(nodes \cup {k}) = Size + 1
<1> SUFFICES ASSUME ListTyped PROVE
      /\ Size \in Nat /\ (Size = 0 <=> nodes = {})
      /\ \A k \in nodes : Cardinality(nodes \ {k}) = Size - 1
      /\ \A k \in Keys \ nodes : Cardinality(nodes \cup {k}) = Size + 1
  OBVIOUS
<1>1. IsFiniteSet(nodes)
  BY KeysAssumption, FS_Subset DEF ListTyped
<1> QED BY <1>1, FS_CardinalityType, FS_EmptySet, FS_AddElement, FS_RemoveElement DEF Size

\* A node of the list has a place in the order.
LEMMA Place ==
  ASSUME NEW s, Now(s), NEW k \in nodes
  PROVE  \E j \in 1..Size : s[j] = k
BY DEF Now, Shape, Links

LEMMA StepAdd ==
  ASSUME ListTyped, nodes \cap nulls = {}, NEW n, n = Size, NEW s, Now(s),
         NEW k \in Keys, k \notin nodes \cup nulls, AddNode(k)
  PROVE  ListTyped' /\ nodes' \cap nulls' = {} /\ Now(InFront(n, k, s))'
<1>1. ListTyped' /\ nodes' \cap nulls' = {}
  BY DEF AddNode, ListTyped, Link, Point
<1>2. Size' = Size + 1 /\ Size \in Nat
  BY Sizes DEF AddNode, Size
<1>3. Shape(Size + 1, InFront(Size, k, s), nodes \cup {k}, [next EXCEPT ![k] = head],
            Point([prev EXCEPT ![k] = Null], head, k), k, IF head = Null THEN k ELSE tail)
  BY <1>2, ShapeAdd DEF Now, ListTyped
<1> QED BY <1>1, <1>2, <1>3 DEF Now, AddNode

LEMMA StepUpdate ==
  ASSUME ListTyped, nodes \cap nulls = {}, NEW n, n = Size, NEW s, Now(s),
         NEW j \in 1..Size, s[j] # head, Update(s[j])
  PROVE  ListTyped' /\ nodes' \cap nulls' = {}
         /\ Now(InFront(n - 1, s[j], CutAt(n, s, j)))'
<1> DEFINE k == s[j]
<1>1. k \in nodes /\ k \in Keys
  BY DEF Now, Shape, ListTyped
<1>2. prev[k] \in Keys \cup {Null} /\ next[k] \in Keys \cup {Null}
  BY <1>1 DEF ListTyped, Link
<1>3. head \in Keys /\ Size \in Nat
  BY Sizes DEF Now, Shape, Links, ListTyped
<1>4. ListTyped' /\ nodes' \cap nulls' = {}
  BY <1>1, <1>2, <1>3 DEF Update, ListTyped, Link, Point
<1>5. Size' = Size
  BY DEF Update, Size
<1>6. Shape(Size, InFront(Size - 1, k, CutAt(Size, s, j)), nodes,
            [Point(next, prev[k], next[k]) EXCEPT ![k] = head],
            [Point(prev, next[k], prev[k]) EXCEPT ![k] = Null, ![head] = k],
            k, IF k = tail THEN prev[k] ELSE tail)
  BY <1>3, ShapeMove DEF Now, ListTyped
<1> QED BY <1>4, <1>5, <1>6 DEF Now, Update

LEMMA StepTail ==
  ASSUME ListTyped, nodes \cap nulls = {}, NEW n, n = Size, NEW s, Now(s), RemoveTail
  PROVE  /\ ListTyped' /\ nodes' \cap nulls' = {}
         /\ n \in 1..n /\ Now(CutAt(n, s, n))'
<1>1. Size \in Nat
  BY Sizes
<1>2. /\ Size \in 1..Size /\ tail = s[Size] /\ tail \in nodes
      /\ Shape(Size - 1, CutAt(Size, s, Size), nodes \ {tail}, Point(next, prev[tail], Null),
               [prev EXCEPT ![tail] = Null], IF prev[tail] = Null THEN Null ELSE head, prev[tail])
  BY <1>1, ShapeTail DEF Now, ListTyped, RemoveTail
<1>3. tail \in Keys /\ prev[tail] \in Keys \cup {Null}
  BY <1>2 DEF ListTyped, Link
<1>4. ListTyped' /\ nodes' \cap nulls' = {}
  BY <1>3 DEF RemoveTail, ListTyped, Link, Point
<1>5. Size' = Size - 1
  BY <1>2, Sizes DEF RemoveTail, Size
<1> QED BY <1>2, <1>4, <1>5 DEF Now, RemoveTail

LEMMA StepRemove ==
  ASSUME ListTyped, nodes \cap nulls = {}, NEW n, n = Size, NEW s, Now(s), NEW j \in 1..Size,
         Unlink(s[j]), nodes' = nodes \ {s[j]}, nulls' = nulls
  PROVE  /\ ListTyped' /\ nodes' \cap nulls' = {}
         /\ Now(CutAt(n, s, j))'
<1> DEFINE k == s[j]
<1>1. k \in nodes /\ k \in Keys
  BY DEF Now, Shape, ListTyped
<1>2. prev[k] \in Keys \cup {Null} /\ next[k] \in Keys \cup {Null}
  BY <1>1 DEF ListTyped, Link
<1>3. ListTyped' /\ nodes' \cap nulls' = {}
  BY <1>1, <1>2 DEF Unlink, ListTyped, Link, Point
<1>4. Size' = Size - 1 /\ Size \in Nat
  BY <1>1, Sizes DEF Size
<1>5. Shape(Size - 1, CutAt(Size, s, j), nodes \ {k},
            [Point(next, prev[k], next[k]) EXCEPT ![k] = Null],
            [Point(prev, next[k], prev[k]) EXCEPT ![k] = Null],
            IF k = head THEN next[k] ELSE head, IF k = tail THEN prev[k] ELSE tail)
  BY <1>4, ShapeCut DEF Now, ListTyped
<1> QED BY <1>3, <1>4, <1>5 DEF Now, Unlink

\* An empty list.
LEMMA NowEmpty ==
  ASSUME nodes = {}, head = Null, tail = Null
  PROVE  Size = 0 /\ Now(<<>>)
<1>1. Size = 0
  BY FS_EmptySet DEF Size
<1> QED BY <1>1 DEF Now, Shape, Links

LEMMA WellFormedIs == ListTyped => (WellFormed <=> nodes \cap nulls = {} /\ \E s : Now(s))
BY DEF WellFormed, Orders, Represents, Now, Shape, Links, Size

LEMMA InitInv == ListInit => ListInv /\ Now(<<>>)
<1> SUFFICES ASSUME ListInit PROVE ListInv /\ Now(<<>>)
  OBVIOUS
<1>1. ListTyped /\ nodes \cap nulls = {}
  BY DEF ListInit, ListTyped, Link, Empty
<1>2. Now(<<>>)
  BY NowEmpty DEF ListInit
<1> QED BY <1>1, <1>2 DEF ListInv

\* What the steps of the list do to its order.
Moves(n, s, k) ==
  \/ /\ k \notin nodes \cup nulls /\ nulls' = nulls
     /\ Now(InFront(n, k, s))'
  \/ \E j \in 1..n : /\ k = s[j] /\ k \in nodes /\ nulls' = nulls
                     /\ s[1] # k
                     /\ Now(InFront(n - 1, k, CutAt(n, s, j)))'
  \/ \E j \in 1..n : k = s[j] /\ k \in nodes /\ nulls' = nulls /\ Now(CutAt(n, s, j))'
  \/ /\ n = 0 /\ nulls' = nulls \cup {k} /\ Now(s)'

\* LRUCache::set, get and remove of a key.
LEMMA StepKey ==
  ASSUME ListTyped, nodes \cap nulls = {}, NEW n, n = Size, NEW s, Now(s),
         NEW k \in Keys, ListSet(k) \/ ListGet(k) \/ ListRemove(k)
  PROVE  /\ ListTyped' /\ nodes' \cap nulls' = {}
         /\ UNCHANGED listVars \/ Moves(n, s, k)
<1>1. n \in Nat
  BY Sizes
<1>2. CASE k \in nodes /\ Update(k)
  <2>1. CASE head = k
    BY <1>2, <2>1 DEF Update, ListTyped, listVars
  <2>2. CASE head # k
    <3>1. PICK j \in 1..n : s[j] = k
      BY <1>2, Place
    <3>2. nulls' = nulls
      BY <1>2, <2>2 DEF Update
    <3>3. s[1] # k
      BY <2>2, <1>1, <3>1 DEF Now, Shape, Links
    <3>4. /\ ListTyped' /\ nodes' \cap nulls' = {}
          /\ Now(InFront(n - 1, s[j], CutAt(n, s, j)))'
      BY <1>2, <2>2, <3>1, StepUpdate
    <3> QED BY <1>2, <3>1, <3>2, <3>3, <3>4 DEF Moves
  <2> QED BY <2>1, <2>2
<1>3. CASE k \notin nodes \cup nulls /\ AddNode(k)
  <2>1. nulls' = nulls
    BY <1>3 DEF AddNode
  <2>2. ListTyped' /\ nodes' \cap nulls' = {} /\ Now(InFront(n, k, s))'
    BY <1>3, StepAdd
  <2> QED BY <1>3, <2>1, <2>2 DEF Moves
<1>4. CASE /\ k \notin nodes /\ head = Null /\ nulls' = nulls \cup {k}
           /\ UNCHANGED <<nodes, next, prev, head, tail>>
  <2>1. n = 0
    BY <1>1, <1>4 DEF Now, Shape, Links, ListTyped
  <2>2. Now(s)'
    BY <1>4 DEF Now, Size
  <2>3. ListTyped' /\ nodes' \cap nulls' = {}
    BY <1>4 DEF ListTyped
  <2> QED BY <1>4, <2>1, <2>2, <2>3 DEF Moves
<1>5. CASE k \in nodes /\ Unlink(k) /\ nodes' = nodes \ {k} /\ UNCHANGED nulls
  <2>1. PICK j \in 1..n : s[j] = k
    BY <1>5, Place
  <2>2. ListTyped' /\ nodes' \cap nulls' = {} /\ Now(CutAt(n, s, j))'
    BY <1>5, <2>1, StepRemove
  <2> QED BY <1>5, <2>1, <2>2 DEF Moves
<1>6. CASE UNCHANGED listVars
  BY <1>6 DEF listVars, ListTyped
<1> QED BY <1>2, <1>3, <1>4, <1>5, <1>6 DEF ListSet, ListGet, ListRemove

LEMMA StepReset ==
  ASSUME Reset
  PROVE  ListTyped' /\ nodes' \cap nulls' = {} /\ Now(<<>>)'
<1>1. ListTyped' /\ nodes' \cap nulls' = {}
  BY DEF Reset, ListTyped, Link, Empty
<1>2. Size' = 0
  BY FS_EmptySet DEF Size, Reset
<1> QED BY <1>1, <1>2 DEF Reset, Now, Shape, Links

\* A step of the list, whatever module takes it.
LEMMA StepInv == ListInv /\ [ListNext]_listVars => ListInv'
<1> SUFFICES ASSUME ListInv, [ListNext]_listVars PROVE ListInv'
  OBVIOUS
<1> USE DEF ListInv
<1>1. PICK s : Now(s)
  OBVIOUS
<1> DEFINE n == Size
<1>2. PICK m : m = Size
  OBVIOUS
<1>3. ASSUME UNCHANGED listVars PROVE ListInv'
  <2>1. Now(s)'
    BY <1>1, <1>3 DEF listVars, Now, Size
  <2> QED BY <1>3, <2>1 DEF listVars, ListTyped
<1>4. CASE RemoveTail
  BY <1>1, <1>2, <1>4, StepTail
<1>5. CASE Reset
  BY <1>5, StepReset
<1>6. ASSUME NEW k \in Keys, ListSet(k) \/ ListGet(k) \/ ListRemove(k) PROVE ListInv'
  <2>1. /\ ListTyped' /\ nodes' \cap nulls' = {}
        /\ UNCHANGED listVars \/ Moves(m, s, k)
    BY <1>1, <1>2, <1>6, StepKey
  <2> QED BY <1>3, <2>1 DEF Moves
<1> QED BY <1>3, <1>4, <1>5, <1>6 DEF ListNext

-----------------------------------------------------------------------------
(* The order that the list keeps is the one LruOrder describes.            *)

\* The order of a list is the sequence that represents it, now and after a step.
LEMMA ListOrderIs ==
  ASSUME NEW s
  PROVE  /\ ListTyped /\ Now(s) => ListOrder = s
         /\ ListTyped' /\ Now(s)' => ListOrder' = s
<1>1. ASSUME ListTyped, Now(s) PROVE ListOrder = s
  <2>1. ListOrder = Order
    BY DEF ListOrder, Orders, Represents, Order, OrderOf, Links, Size
  <2> QED BY <1>1, <2>1, Sizes, OrderIs DEF Now, Order, ListTyped
<1>2. ASSUME ListTyped', Now(s)' PROVE ListOrder' = s
  <2>1. ListOrder' = Order'
    BY DEF ListOrder, Orders, Represents, Order, OrderOf, Links, Size
  <2>2. Size' \in Nat
    <3>1. IsFiniteSet(nodes')
      BY <1>2, KeysAssumption, FS_Subset DEF ListTyped
    <3> QED BY <3>1, FS_CardinalityType DEF Size
  <2> QED BY <1>2, <2>1, <2>2, OrderIs DEF Now, Order, ListTyped
<1> QED BY <1>1, <1>2

\* The operators of both modules on one sequence.
LEMMA Sequence ==
  ASSUME NEW n \in Nat, NEW s \in [1..n -> Keys], NEW k \in Keys, NEW j \in 1..n
  PROVE  /\ Len(s) = n /\ DOMAIN s = 1..n
         /\ CutAt(n, s, j) = Lru!Cut(s, j)
         /\ CutAt(n, s, n) = SubSeq(s, 1, n - 1)
<1>1. s \in Seq(Keys) /\ Len(s) = n /\ DOMAIN s = 1..n
  OBVIOUS
<1>2. CutAt(n, s, j) = Lru!Cut(s, j)
  BY <1>1 DEF CutAt, Lru!Cut
<1>3. CutAt(n, s, n) = SubSeq(s, 1, n - 1)
  <2>1. CutAt(n, s, n) = [i \in 1..(n - 1) |-> s[i]]
    BY DEF CutAt
  <2> QED BY <1>1, <2>1
<1> QED BY <1>1, <1>2, <1>3

LEMMA Front ==
  ASSUME NEW n \in Nat, NEW s \in [1..n -> Keys], NEW k \in Keys
  PROVE  InFront(n, k, s) = <<k>> \o s
<1>1. s \in Seq(Keys) /\ Len(s) = n
  OBVIOUS
<1>2. InFront(n, k, s) \in Seq(Keys) /\ Len(InFront(n, k, s)) = n + 1
  <2>1. InFront(n, k, s) \in [1..(n + 1) -> Keys]
    <3>1. \A i \in 1..(n + 1) : i # 1 => i - 1 \in 1..n
      OBVIOUS
    <3> QED BY <3>1 DEF InFront
  <2> QED BY <2>1
<1> QED BY <1>1, <1>2 DEF InFront

LEMMA OrderInit == ListInit => Lru!Init
<1> SUFFICES ASSUME ListInit PROVE Lru!Init
  OBVIOUS
<1>1. ListOrder = <<>>
  BY InitInv, ListOrderIs DEF ListInv
<1> QED BY <1>1 DEF Lru!Init, ListInit

\* One of Moves is a step of LruOrder.
LEMMA OrderMoves ==
  ASSUME ListTyped, ListTyped', NEW n, n = Size, NEW s, Now(s), NEW k \in Keys,
         Moves(n, s, k)
  PROVE  Lru!Next
<1>1. n \in Nat /\ s \in [1..n -> Keys] /\ ListOrder = s
      /\ \A i, j \in 1..n : s[i] = s[j] => i = j
  BY Sizes, ListOrderIs DEF Now, Shape, Links, ListTyped
<1>2. Len(s) = n /\ DOMAIN s = 1..n
  BY <1>1
<1>3. Lru!Tracked = nodes
  BY <1>1, <1>2 DEF Lru!Tracked, Now, Shape, Links
<1>4. ASSUME NEW j \in 1..n, k = s[j] PROVE Lru!Position(k) = j
  BY <1>1, <1>2, <1>4 DEF Lru!Position
<1>5. CASE k \notin nodes \cup nulls /\ nulls' = nulls /\ Now(InFront(n, k, s))'
  <2>1. ListOrder' = <<k>> \o ListOrder
    BY <1>1, <1>5, ListOrderIs, Front
  <2>2. Lru!Add(k)
    BY <1>3, <1>5, <2>1 DEF Lru!Add
  <2> QED BY <2>2 DEF Lru!Next
<1>6. ASSUME NEW j \in 1..n, k = s[j], k \in nodes, nulls' = nulls,
             Now(InFront(n - 1, k, CutAt(n, s, j)))'
      PROVE  Lru!Use(k)
  <2>1. CutAt(n, s, j) \in [1..(n - 1) -> Keys] /\ n - 1 \in Nat
    <3>1. \A i \in 1..(n - 1) : i \in 1..n /\ i + 1 \in 1..n
      BY <1>1
    <3> QED BY <1>1, <1>6, <3>1 DEF CutAt
  <2>2. ListOrder' = <<k>> \o CutAt(n, s, j)
    BY <1>6, <2>1, ListOrderIs, Front
  <2>3. ListOrder' = <<k>> \o Lru!Cut(ListOrder, Lru!Position(k))
    <3>1. Lru!Position(k) = j
      BY <1>4, <1>6
    <3>2. CutAt(n, s, j) = Lru!Cut(s, j)
      BY <1>1, Sequence
    <3>3. ListOrder' = <<k>> \o Lru!Cut(s, j)
      BY <2>2, <3>2
    <3> QED BY <1>1, <3>1, <3>3
  <2> QED BY <1>3, <1>6, <2>3 DEF Lru!Use
<1>7. ASSUME NEW j \in 1..n, k = s[j], k \in nodes, nulls' = nulls,
             Now(CutAt(n, s, j))'
      PROVE  Lru!Drop(k)
  <2>1. ListOrder' = Lru!Cut(ListOrder, Lru!Position(k))
    <3>1. Lru!Position(k) = j
      BY <1>4, <1>7
    <3>2. CutAt(n, s, j) = Lru!Cut(s, j)
      BY <1>1, Sequence
    <3>3. ListOrder' = Lru!Cut(s, j)
      BY <1>7, <3>2, ListOrderIs
    <3> QED BY <1>1, <3>1, <3>3
  <2> QED BY <1>3, <1>7, <2>1 DEF Lru!Drop
<1>8. CASE n = 0 /\ nulls' = nulls \cup {k} /\ Now(s)'
  <2>1. ListOrder = <<>> /\ ListOrder' = ListOrder
    BY <1>1, <1>2, <1>8, ListOrderIs
  <2>2. Lru!Mark(k)
    BY <1>8, <2>1 DEF Lru!Mark
  <2> QED BY <2>2 DEF Lru!Next
<1> QED BY <1>5, <1>6, <1>7, <1>8 DEF Moves, Lru!Next

LEMMA OrderStep == ListInv /\ [ListNext]_listVars => [Lru!Next]_(Lru!vars)
<1> SUFFICES ASSUME ListInv, [ListNext]_listVars PROVE [Lru!Next]_(Lru!vars)
  OBVIOUS
<1>1. ListInv' /\ ListTyped /\ ListTyped' /\ nodes \cap nulls = {}
  BY StepInv DEF ListInv
<1>2. PICK s : Now(s)
  BY DEF ListInv
<1>3. PICK n : n = Size
  OBVIOUS
<1>4. ListOrder = s
  BY <1>1, <1>2, ListOrderIs
<1>5. ASSUME UNCHANGED listVars PROVE UNCHANGED Lru!vars
  <2>1. Now(s)'
    BY <1>2, <1>5 DEF listVars, Now, Size
  <2>2. ListOrder' = s /\ nulls' = nulls
    BY <1>1, <1>5, <2>1, ListOrderIs DEF listVars
  <2> QED BY <1>4, <2>2 DEF Lru!vars
<1>6. CASE RemoveTail
  <2>1. n \in 1..n /\ Now(CutAt(n, s, n))' /\ nulls' = nulls
    BY <1>1, <1>2, <1>3, <1>6, StepTail DEF RemoveTail
  <2>2. n \in Nat /\ s \in [1..n -> Keys]
    BY <1>1, <1>2, <1>3, Sizes DEF Now, Shape, ListTyped
  <2>3. ListOrder' = SubSeq(s, 1, n - 1) /\ Len(s) = n /\ s # <<>>
    <3>1. ListOrder' = CutAt(n, s, n)
      BY <1>1, <2>1, ListOrderIs
    <3>2. s[n] \in Keys
      BY <2>1, <2>2
    <3>3. CutAt(n, s, n) = SubSeq(s, 1, n - 1) /\ Len(s) = n
      BY <2>1, <2>2, <3>2, Sequence
    <3> QED BY <2>1, <2>2, <3>1, <3>3
  <2>4. Lru!Evict
    BY <1>4, <2>1, <2>3 DEF Lru!Evict
  <2> QED BY <2>4 DEF Lru!Next
<1>7. CASE Reset
  <2>1. ListOrder' = <<>> /\ nulls' = {}
    BY <1>7, StepReset, ListOrderIs DEF Reset
  <2> QED BY <2>1 DEF Lru!Next, Lru!Reset
<1>8. ASSUME NEW k \in Keys, ListSet(k) \/ ListGet(k) \/ ListRemove(k)
      PROVE  [Lru!Next]_(Lru!vars)
  <2>1. UNCHANGED listVars \/ Moves(n, s, k)
    BY <1>1, <1>2, <1>3, <1>8, StepKey
  <2> QED BY <1>1, <1>2, <1>3, <1>5, <2>1, OrderMoves
<1> QED BY <1>5, <1>6, <1>7, <1>8 DEF ListNext

-----------------------------------------------------------------------------
(* What the handlers of CdnDisk do to the tracker.                         *)

Places == CdnSteps \cup {"store", "idle"}

\* A thread that is not idle has a request.
JobInv ==
  /\ pc  \in [Threads -> Places]
  /\ job \in [Threads -> Request \cup {NoJob}]
  /\ \A t \in Threads : pc[t] # "idle" => job[t] \in Request

\* What the steps of a thread do to where it is.
Advances(t) ==
  \/ \E l \in Places : pc[t] # "idle" /\ Goto(t, l) /\ job' = job
  \/ pc[t] # "idle" /\ GotoManage(t) /\ job' = job
  \/ pc' = [pc EXCEPT ![t] = "idle"] /\ job' = [job EXCEPT ![t] = NoJob]
  \/ UNCHANGED <<pc, job>>

LEMMA AdvanceInv ==
  ASSUME JobInv, NEW t \in Threads, Advances(t)
  PROVE  JobInv'
BY DEF JobInv, Advances, Goto, GotoManage, Places, CdnSteps

LEMMA ThreadJobs ==
  ASSUME JobInv, NEW t \in Threads, Step(t)
  PROVE  JobInv'
<1> USE DEF Goto, Finish, Places, CdnSteps
<1>1. CASE Read(t)
  <2>1. CASE Lookup(t)
    <3>1. pc[t] # "idle" /\ job' = job
      BY <2>1 DEF Lookup
    <3>2. Goto(t, "relookup") \/ Goto(t, "fetch")
      BY <2>1 DEF Lookup
    <3> QED BY <3>1, <3>2, AdvanceInv DEF Advances
  <2>2. CASE Fetch(t)
    BY <2>2, AdvanceInv DEF Fetch, Advances
  <2>3. CASE ReadBlock(t)
    BY <2>3, AdvanceInv DEF ReadBlock, Advances
  <2>4. CASE ReadEnd(t)
    BY <2>4, AdvanceInv DEF ReadEnd, Advances
  <2>5. CASE Relookup(t)
    BY <2>5, AdvanceInv DEF Relookup, Advances
  <2>6. CASE Load(t)
    BY <2>6, AdvanceInv DEF Load, Advances
  <2>7. CASE Reply(t)
    BY <2>7, AdvanceInv DEF Reply, Advances
  <2> QED BY <1>1, <2>1, <2>2, <2>3, <2>4, <2>5, <2>6, <2>7 DEF Read
<1>2. CASE Manage(t)
  <2>1. CASE Evict(t)
    BY <2>1, AdvanceInv DEF Evict, Advances
  <2>2. CASE RemoveVictim(t)
    BY <2>2, AdvanceInv DEF RemoveVictim, Advances
  <2>3. CASE Refuse(t)
    BY <2>3, AdvanceInv DEF Refuse, Advances
  <2>4. CASE Track(t)
    BY <2>4, AdvanceInv DEF Track, Advances
  <2> QED BY <1>2, <2>1, <2>2, <2>3, <2>4 DEF Manage
<1>3. CASE Write(t)
  <2>1. CASE OpenCopy(t)
    BY <2>1, AdvanceInv DEF OpenCopy, Advances
  <2>2. CASE Post(t)
    BY <2>2, AdvanceInv DEF Post, Advances
  <2>3. CASE WriteBlock(t)
    BY <2>3, AdvanceInv DEF WriteBlock, Advances
  <2>4. CASE WriteEnd(t)
    <3>1. CASE pc[t] = "write"
      <4>1. job' = job /\ (Goto(t, "post") \/ Goto(t, "relookup"))
        BY <2>4, <3>1 DEF WriteEnd
      <4> QED BY <3>1, <4>1, AdvanceInv DEF Advances
    <3>2. CASE pc[t] = "store"
      BY <2>4, <3>2, AdvanceInv DEF WriteEnd, Advances
    <3> QED BY <2>4, <3>1, <3>2 DEF WriteEnd
  <2>5. CASE PostRefused(t)
    BY <2>5, AdvanceInv DEF PostRefused, Advances
  <2> QED BY <1>3, <2>1, <2>2, <2>3, <2>4, <2>5 DEF Write
<1>4. CASE Delete(t)
  <2>1. CASE Forget(t)
    BY <2>1, AdvanceInv DEF Forget, Advances
  <2>2. CASE RemoveFile(t)
    BY <2>2, AdvanceInv DEF RemoveFile, Advances
  <2> QED BY <1>4, <2>1, <2>2 DEF Delete
<1>5. CASE Crash(t) \/ RacedCrash(t)
  <2>1. Die
    BY <1>5 DEF Crash, RacedCrash
  <2> QED BY <2>1 DEF Die, JobInv
<1>6. CASE DiskError(t)
  BY <1>6, AdvanceInv DEF DiskError, Advances
<1> QED BY <1>1, <1>2, <1>3, <1>4, <1>5, <1>6 DEF Step, Break

LEMMA JobsKept == JobInv /\ [Next]_vars => JobInv'
<1> SUFFICES ASSUME JobInv, [Next]_vars PROVE JobInv'
  OBVIOUS
<1>1. ASSUME NEW t \in Threads, NEW j \in Jobs[t], Start(t, j) PROVE JobInv'
  <2>1. j \in Request
    BY JobsAssumption
  <2>2. /\ job' = [job EXCEPT ![t] = j] /\ pc[t] = "idle"
        /\ Goto(t, "lookup") \/ GotoManage(t) \/ Goto(t, "forget")
    BY <1>1, <2>1 DEF Start, Request
  <2> QED BY <2>1, <2>2 DEF JobInv, Goto, GotoManage, Places, CdnSteps
<1>2. CASE Stop
  BY <1>2 DEF Stop, Die, JobInv, Places, CdnSteps
<1>3. CASE Restart
  BY <1>3 DEF Restart, threadVars, JobInv
<1>4. CASE UNCHANGED vars
  BY <1>4 DEF vars, threadVars, JobInv
<1> QED BY <1>1, <1>2, <1>3, <1>4, ThreadJobs DEF Next

\* Every step of the storage is one step of the list, or none.
LEMMA ListSteps == JobInv /\ [Next]_vars => [ListNext]_listVars
<1> SUFFICES ASSUME JobInv, [Next]_vars PROVE [ListNext]_listVars
  OBVIOUS
<1>1. ASSUME NEW t \in Threads, Step(t) PROVE [ListNext]_listVars
  <2>1. pc[t] # "idle" => FileOf(t) \in Keys
    BY DEF JobInv, FileOf, Request, Files
  <2>2. CASE Read(t)
    <3>1. CASE Load(t)
      <4>1. ListGet(FileOf(t)) \/ UNCHANGED listVars
        BY <3>1 DEF Load
      <4>2. FileOf(t) \in Keys
        BY <2>1, <3>1 DEF Load
      <4> QED BY <4>1, <4>2 DEF ListNext
    <3> QED BY <2>2, <3>1 DEF Read, Lookup, Fetch, ReadBlock, ReadEnd, Relookup, Reply
  <2>3. CASE Manage(t)
    <3>1. CASE Evict(t)
      BY <3>1 DEF Evict, ListNext
    <3>2. CASE Track(t)
      <4>1. ListSet(FileOf(t)) /\ FileOf(t) \in Keys
        BY <2>1, <3>2 DEF Track
      <4> QED BY <4>1 DEF ListNext
    <3> QED BY <2>3, <3>1, <3>2 DEF Manage, RemoveVictim, Refuse
  <2>4. CASE Write(t)
    BY <2>4 DEF Write, OpenCopy, Post, WriteBlock, WriteEnd, PostRefused
  <2>5. CASE Delete(t)
    <3>1. CASE Forget(t)
      <4>1. ListRemove(FileOf(t)) /\ FileOf(t) \in Keys
        BY <2>1, <3>1 DEF Forget
      <4> QED BY <4>1 DEF ListNext
    <3> QED BY <2>5, <3>1 DEF Delete, RemoveFile
  <2>6. CASE Break(t)
    BY <2>6 DEF Break, Crash, RacedCrash, DiskError, Die, ListNext
  <2> QED BY <1>1, <2>2, <2>3, <2>4, <2>5, <2>6 DEF Step
<1>2. ASSUME NEW t \in Threads, NEW j \in Jobs[t], Start(t, j) PROVE [ListNext]_listVars
  BY <1>2 DEF Start
<1>3. CASE Stop
  BY <1>3 DEF Stop, Die, ListNext
<1>4. CASE Restart
  BY <1>4 DEF Restart
<1>5. CASE UNCHANGED vars
  BY <1>5 DEF vars
<1> QED BY <1>1, <1>2, <1>3, <1>4, <1>5 DEF Next

LEMMA DiskInit == Init => ListInv /\ Lru!Init /\ JobInv
<1> SUFFICES ASSUME Init PROVE ListInv /\ Lru!Init /\ JobInv
  OBVIOUS
<1>1. ListInv /\ Lru!Init
  BY InitInv, OrderInit DEF Init
<1>2. JobInv
  BY DEF Init, JobInv, Places, CdnSteps
<1> QED BY <1>1, <1>2

(* Whatever the handlers of a CDN do with its tracker, its pointers are a  *)
(* well formed list of the mapped nodes (CDN_Cache.h).                     *)
THEOREM DiskWellFormed == Spec => []WellFormed
<1>1. ListInv => WellFormed
  BY WellFormedIs DEF ListInv
<1> QED BY <1>1, DiskInit, JobsKept, ListSteps, StepInv, PTL DEF Spec

(* Whatever the handlers of a CDN do with its tracker, its nodes are in    *)
(* the order of their last use, the order in which managing_files evicts:  *)
(* the list of pointers implements LruOrder (CDN_Cache.h, CDN_Node.cpp).   *)
THEOREM DiskImplementsOrder == Spec => ImplementsOrder
BY DiskInit, JobsKept, ListSteps, StepInv, OrderStep, PTL
   DEF Spec, ImplementsOrder, Lru!Spec

=============================================================================
