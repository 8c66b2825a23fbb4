------------------------- MODULE InstallerInfoProofs -------------------------
(***************************************************************************)
(* What the functions of InstallerInfo make of lists of any length: that   *)
(* sorting, searching, inserting and deleting in sorted lists is adding to *)
(* and removing from sets.                                                 *)
(***************************************************************************)
EXTENDS InstallerInfo, SetInduction, FiniteSetTheorems, FunctionTheorems,
        SequenceTheorems, TLAPS

\* What a list in the file is: identifiers in ascending order.
Ascending(s) ==
  /\ s \in Seq(Nat)
  /\ \A i, j \in 1..Len(s) : i < j => s[i] < s[j]

\* Nothing occurs twice.
Distinct(s) == \A i, j \in 1..Len(s) : i # j => s[i] # s[j]

\* A set to which ids are added, or from which they are removed.
With(set, ids, isAdd) == IF isAdd THEN set \cup ids ELSE set \ ids

-----------------------------------------------------------------------------
(* Sorting *)

\* The elements of a sequence.
LEMMA ElementsOf ==
  ASSUME NEW S, NEW s \in Seq(S)
  PROVE  /\ Elements(s) = {s[i] : i \in 1..Len(s)}
         /\ Elements(s) \subseteq S
BY DEF Elements

\* In an ascending list as many elements are below the i-th as come before it.
LEMMA RankIsIndex ==
  ASSUME NEW s, Ascending(s), NEW i \in 1..Len(s)
  PROVE  Cardinality({y \in Elements(s) : y < s[i]}) = i - 1
<1> DEFINE B == {y \in Elements(s) : y < s[i]}
           f == [j \in 1..(i - 1) |-> s[j]]
<1>1. s \in Seq(Nat) /\ Len(s) \in Nat /\ \A j \in 1..Len(s) : s[j] \in Nat
  BY DEF Ascending
<1>2. ASSUME NEW j \in 1..(i - 1)
      PROVE  s[j] \in B
  <2>1. j \in 1..Len(s) /\ j < i
    BY <1>1
  <2>2. s[j] < s[i]
    BY <2>1 DEF Ascending
  <2> QED
    BY <1>1, <2>1, <2>2 DEF Elements
<1>3. \A j, k \in 1..(i - 1) : f[j] = f[k] => j = k
  <2> SUFFICES ASSUME NEW j \in 1..(i - 1), NEW k \in 1..(i - 1), s[j] = s[k], j # k
               PROVE  FALSE
    OBVIOUS
  <2>1. j \in 1..Len(s) /\ k \in 1..Len(s) /\ (j < k \/ k < j)
    BY <1>1
  <2>2. s[j] < s[k] \/ s[k] < s[j]
    BY <2>1 DEF Ascending
  <2> QED
    BY <1>1, <2>1, <2>2
<1>4. ASSUME NEW y \in B
      PROVE  \E j \in 1..(i - 1) : f[j] = y
  <2>1. PICK j \in 1..Len(s) : y = s[j]
    BY <1>1 DEF Elements
  <2>2. j < i
    BY <1>1, <2>1 DEF Ascending
  <2> QED
    BY <2>1, <2>2
<1>5. f \in Bijection(1..(i - 1), B)
  BY <1>2, <1>3, <1>4 DEF Bijection, Injection, Surjection, IsInjective
<1>6. ExistsBijection(1..(i - 1), B)
  BY <1>5 DEF ExistsBijection
<1> QED
  BY <1>6, FS_CountingElements

\* Sorting a list that is in order changes nothing.
LEMMA SortSorted ==
  ASSUME NEW s, Ascending(s)
  PROVE  Sort(s) = s
<1>1. s \in Seq(Nat) /\ Len(s) \in Nat /\ DOMAIN s = 1..Len(s)
  BY DEF Ascending
<1>2. ASSUME NEW i \in 1..Len(s)
      PROVE  Sort(s)[i] = s[i]
  <2> DEFINE Rank(x) == Cardinality({y \in Elements(s) : y < x})
  <2>1. s[i] \in Elements(s) /\ Rank(s[i]) = i - 1
    BY <1>1, RankIsIndex DEF Elements
  <2>2. ASSUME NEW x \in Elements(s), Rank(x) = i - 1
        PROVE  x = s[i]
    <3>1. PICK j \in 1..Len(s) : x = s[j]
      BY <1>1 DEF Elements
    <3>2. Rank(x) = j - 1
      BY <3>1, RankIsIndex
    <3> QED
      BY <2>2, <3>1, <3>2
  <2>3. (CHOOSE x \in Elements(s) : Rank(x) = i - 1) = s[i]
    <3> HIDE DEF Rank
    <3> QED
      BY <2>1, <2>2
  <2> QED
    BY <1>1, <2>3 DEF Sort
<1>3. DOMAIN Sort(s) = DOMAIN s /\ Sort(s) = [i \in DOMAIN s |-> Sort(s)[i]]
  BY DEF Sort
<1>4. s = [i \in DOMAIN s |-> s[i]]
  BY <1>1
<1> QED
  BY <1>1, <1>2, <1>3, <1>4

-----------------------------------------------------------------------------
(* Searching *)

\* The binary search returns where an ascending list has the identifier, or would.
LEMMA SearchFinds ==
  ASSUME NEW info, Ascending(info), NEW id \in Nat
  PROVE  LET k == SearchStrings(info, id)
         IN  /\ k \in 1..(Len(info) + 1)
             /\ \A j \in 1..(k - 1) : info[j] < id
             /\ k <= Len(info) => info[k] >= id
<1>1. info \in Seq(Nat) /\ Len(info) \in Nat /\ \A j \in 1..Len(info) : info[j] \in Nat
  BY DEF Ascending
<1> DEFINE C == {i \in 1..(Len(info) + 1) : i <= Len(info) => info[i] >= id}
<1>2. Len(info) + 1 \in C /\ C \in SUBSET Nat
  BY <1>1
<1>3. PICK k \in C : \A m \in C : k <= m
  BY <1>2, LeastNumber
<1>4. ASSUME NEW j \in 1..(k - 1)
      PROVE  info[j] < id
  BY <1>1, <1>3
<1>5. \E i \in 1..(Len(info) + 1) : /\ \A j \in 1..(i - 1) : info[j] < id
                                    /\ i <= Len(info) => info[i] >= id
  BY <1>3, <1>4
<1> QED
  BY <1>5 DEF SearchStrings

\* The search tells whether the identifier is there.
LEMMA SearchDecides ==
  ASSUME NEW info, Ascending(info), NEW id \in Nat,
         NEW k, k = SearchStrings(info, id)
  PROVE  (k <= Len(info) /\ info[k] = id) <=> id \in Elements(info)
<1>1. info \in Seq(Nat) /\ Len(info) \in Nat /\ \A j \in 1..Len(info) : info[j] \in Nat
  BY DEF Ascending
<1>2. /\ k \in 1..(Len(info) + 1)
      /\ \A j \in 1..(k - 1) : info[j] < id
      /\ k <= Len(info) => info[k] >= id
  BY SearchFinds
<1>3. ASSUME id \in Elements(info)
      PROVE  k <= Len(info) /\ info[k] = id
  <2>1. PICK j \in 1..Len(info) : info[j] = id
    BY <1>1, <1>3 DEF Elements
  <2>2. k <= j
    BY <1>1, <1>2, <2>1
  <2>3. ~(k < j)
    BY <1>1, <1>2, <2>1, <2>2 DEF Ascending
  <2> QED
    BY <1>1, <1>2, <2>1, <2>2, <2>3
<1> QED
  BY <1>1, <1>2, <1>3 DEF Elements

-----------------------------------------------------------------------------
(* Adding and removing one identifier *)

\* What a list becomes when an identifier is put in at place k, place by place.
LEMMA InsertedShape ==
  ASSUME NEW info \in Seq(Nat), NEW k \in 1..(Len(info) + 1),
         NEW one \in Seq(Nat), Len(one) = 1
  PROVE  LET new == SubSeq(info, 1, k - 1) \o one \o SubSeq(info, k, Len(info))
         IN  /\ new \in Seq(Nat)
             /\ Len(new) = Len(info) + 1
             /\ \A i \in 1..(Len(info) + 1) :
                  new[i] = IF i < k THEN info[i] ELSE IF i = k THEN one[1] ELSE info[i - 1]
<1> DEFINE n == Len(info)
           front == SubSeq(info, 1, k - 1)
           back == SubSeq(info, k, n)
<1>1. n \in Nat /\ k \in 1..(n + 1)
  OBVIOUS
<1>2. front \in Seq(Nat) /\ Len(front) = k - 1 /\ \A i \in 1..(k - 1) : front[i] = info[i]
  BY SubSeqProperties
<1>3. /\ back \in Seq(Nat) /\ Len(back) = n - k + 1
      /\ \A i \in 1..(n - k + 1) : back[i] = info[k + i - 1]
  BY SubSeqProperties
<1> DEFINE head == front \o one
           new  == head \o back
<1>4. /\ head \in Seq(Nat) /\ Len(head) = k
      /\ \A i \in 1..k : head[i] = IF i < k THEN info[i] ELSE one[1]
  <2> HIDE DEF front
  <2>1. /\ head \in Seq(Nat) /\ Len(head) = Len(front) + Len(one)
        /\ \A i \in 1..(Len(front) + Len(one)) :
             head[i] = IF i <= Len(front) THEN front[i] ELSE one[i - Len(front)]
    BY <1>2, ConcatProperties
  <2>2. Len(front) + Len(one) = k
    BY <1>1, <1>2
  <2> HIDE DEF head
  <2> DEFINE m == k - 1
  <2>4. Len(front) = m /\ m \in Nat /\ k = m + 1
    BY <1>1, <1>2
  <2>5. \A i \in 1..k : head[i] = IF i <= m THEN front[i] ELSE one[i - m]
    BY <2>1, <2>2, <2>4
  <2> HIDE DEF m
  <2>3. ASSUME NEW i \in 1..k
        PROVE  head[i] = IF i < k THEN info[i] ELSE one[1]
    <3>1. CASE i < k
      <4>1. i \in 1..(k - 1) /\ i <= m
        BY <1>1, <2>4, <3>1
      <4> QED
        BY <1>2, <2>5, <3>1, <4>1
    <3>2. CASE i = k
      <4>1. i - m = 1 /\ ~(i <= m)
        BY <2>4, <3>2
      <4> QED
        BY <2>5, <3>2, <4>1
    <3> QED
      BY <1>1, <3>1, <3>2
  <2> QED
    BY <2>1, <2>2, <2>3
<1>5. /\ new \in Seq(Nat) /\ Len(new) = n + 1
      /\ \A i \in 1..(n + 1) : new[i] = IF i <= k THEN head[i] ELSE back[i - k]
  <2> HIDE DEF head, back, n
  <2>1. /\ new \in Seq(Nat) /\ Len(new) = Len(head) + Len(back)
        /\ \A i \in 1..(Len(head) + Len(back)) :
             new[i] = IF i <= Len(head) THEN head[i] ELSE back[i - Len(head)]
    BY <1>3, <1>4, ConcatProperties
  <2>2. Len(head) + Len(back) = n + 1
    BY <1>1, <1>3, <1>4
  <2> HIDE DEF new
  <2> QED
    BY <1>4, <2>1, <2>2
<1> HIDE DEF front, back, head, new, n
<1>6. ASSUME NEW i \in 1..(n + 1)
      PROVE  new[i] = IF i < k THEN info[i] ELSE IF i = k THEN one[1] ELSE info[i - 1]
  <2>1. CASE i <= k
    BY <1>1, <1>4, <1>5, <2>1
  <2>2. CASE i > k
    <3>1. i - k \in 1..(n - k + 1) /\ k + (i - k) - 1 = i - 1
      BY <1>1, <2>2
    <3>2. back[i - k] = info[k + (i - k) - 1]
      <4> DEFINE m == i - k
      <4> HIDE DEF m
      <4>1. m \in 1..(n - k + 1)
        BY <3>1 DEF m
      <4>2. back[m] = info[k + m - 1]
        BY <1>3, <4>1
      <4> QED
        BY <4>2 DEF m
    <3>3. new[i] = back[i - k]
      <4>1. ~(i <= k)
        BY <1>1, <2>2
      <4> QED
        BY <1>5, <4>1, Zenon
    <3> QED
      BY <1>1, <2>2, <3>1, <3>2, <3>3
  <2> QED
    BY <1>1, <2>1, <2>2
<1> QED
  BY <1>5, <1>6 DEF head, new, front, back, n

\* What a list becomes when place k is taken out, place by place.
LEMMA DeletedShape ==
  ASSUME NEW info \in Seq(Nat), NEW k \in 1..Len(info)
  PROVE  LET new == SubSeq(info, 1, k - 1) \o <<>> \o SubSeq(info, k + 1, Len(info))
         IN  /\ new \in Seq(Nat)
             /\ Len(new) = Len(info) - 1
             /\ \A i \in 1..(Len(info) - 1) :
                  new[i] = IF i < k THEN info[i] ELSE info[i + 1]
<1> DEFINE n == Len(info)
           front == SubSeq(info, 1, k - 1)
           back == SubSeq(info, k + 1, n)
<1>1. n \in Nat /\ k \in 1..n
  OBVIOUS
<1>2. front \in Seq(Nat) /\ Len(front) = k - 1 /\ \A i \in 1..(k - 1) : front[i] = info[i]
  BY SubSeqProperties
<1>3. /\ back \in Seq(Nat) /\ Len(back) = n - k
      /\ \A i \in 1..(n - k) : back[i] = info[k + i]
  <2>1. /\ back \in Seq(Nat)
        /\ Len(back) = IF k + 1 <= n THEN n - (k + 1) + 1 ELSE 0
        /\ \A i \in 1..(n - (k + 1) + 1) : back[i] = info[(k + 1) + i - 1]
    BY SubSeqProperties
  <2> HIDE DEF back, n
  <2> QED
    BY <1>1, <2>1 DEF n
<1>4. front \o <<>> = front
  <2> HIDE DEF front
  <2> QED
    BY <1>2, ConcatEmptySeq
<1>5. /\ front \o back \in Seq(Nat)
      /\ Len(front \o back) = n - 1
      /\ \A i \in 1..(n - 1) : (front \o back)[i] =
             IF i < k THEN front[i] ELSE back[i - (k - 1)]
  <2> HIDE DEF front, back, n
  <2> DEFINE new == front \o back
  <2>1. /\ new \in Seq(Nat) /\ Len(new) = Len(front) + Len(back)
        /\ \A i \in 1..(Len(front) + Len(back)) :
             new[i] = IF i <= Len(front) THEN front[i] ELSE back[i - Len(front)]
    BY <1>2, <1>3, ConcatProperties
  <2>2. Len(front) = k - 1 /\ Len(front) + Len(back) = n - 1
    BY <1>1, <1>2, <1>3
  <2> HIDE DEF new
  <2>3. /\ Len(new) = n - 1
        /\ \A i \in 1..(n - 1) : new[i] = IF i <= k - 1 THEN front[i] ELSE back[i - (k - 1)]
    BY <2>1, <2>2
  <2>4. \A i \in 1..(n - 1) : i <= k - 1 <=> i < k
    BY <1>1
  <2> QED
    BY <2>1, <2>3, <2>4 DEF new
<1>6. \A i \in k..(n - 1) : back[i - (k - 1)] = info[i + 1]
  <2> HIDE DEF back, n
  <2> QED
    BY SMTT(30), <1>1, <1>3 DEF n
<1> HIDE DEF front, back, n
<1>7. \A i \in 1..(n - 1) : (front \o back)[i] = IF i < k THEN info[i] ELSE info[i + 1]
  BY SMTT(30), <1>1, <1>2, <1>5, <1>6
<1> QED
  BY <1>4, <1>5, <1>7 DEF front, back, n

\* An ascending list with an identifier put in where the search says.
LEMMA Inserted ==
  ASSUME NEW info, Ascending(info), NEW id \in Nat, id \notin Elements(info)
  PROVE  LET k   == SearchStrings(info, id)
             new == SubSeq(info, 1, k - 1) \o <<id>> \o SubSeq(info, k, Len(info))
         IN  Ascending(new) /\ Elements(new) = Elements(info) \cup {id}
<1> DEFINE n == Len(info)
           k == SearchStrings(info, id)
           one == <<id>>
           new == SubSeq(info, 1, k - 1) \o one \o SubSeq(info, k, n)
<1>1. /\ info \in Seq(Nat) /\ n \in Nat /\ \A i \in 1..n : info[i] \in Nat
      /\ \A i, j \in 1..n : i < j => info[i] < info[j]
  BY DEF Ascending
<1>2. Elements(info) = {info[i] : i \in 1..n}
  BY <1>1, ElementsOf
<1>3. /\ k \in 1..(n + 1)
      /\ \A j \in 1..(k - 1) : info[j] < id
      /\ k <= n => info[k] >= id
  BY SearchFinds
<1> HIDE DEF k
<1>4. /\ new \in Seq(Nat) /\ Len(new) = n + 1
      /\ \A i \in 1..(n + 1) :
           new[i] = IF i < k THEN info[i] ELSE IF i = k THEN id ELSE info[i - 1]
  <2>1. info \in Seq(Nat) /\ k \in 1..(Len(info) + 1)
    BY <1>1, <1>3
  <2>2. one \in Seq(Nat) /\ Len(one) = 1 /\ one[1] = id
    OBVIOUS
  <2> HIDE DEF one
  <2>3. /\ new \in Seq(Nat) /\ Len(new) = n + 1
        /\ \A i \in 1..(n + 1) :
             new[i] = IF i < k THEN info[i] ELSE IF i = k THEN one[1] ELSE info[i - 1]
    BY <2>1, <2>2, InsertedShape, ZenonT(30)
  <2> HIDE DEF new, n
  <2> QED
    BY <2>2, <2>3
<1> HIDE DEF new, n
<1>5. /\ n \in Nat /\ k \in 1..(n + 1)
      /\ \A i \in 1..(n + 1) : /\ i < k => new[i] = info[i]
                               /\ i = k => new[i] = id
                               /\ i > k => new[i] = info[i - 1]
  BY <1>1, <1>3, <1>4
<1>6. ASSUME NEW j \in k..n
      PROVE  id < info[j]
  <2>1. j \in 1..n /\ k \in 1..n /\ info[j] # id /\ info[k] # id
    BY <1>1, <1>2, <1>3
  <2>2. id < info[k]
    BY <1>1, <1>3, <2>1
  <2>3. CASE j = k
    BY <2>2, <2>3
  <2>4. CASE k < j
    BY <1>1, <2>1, <2>2, <2>4
  <2> QED
    BY <2>1, <2>3, <2>4
<1>7. ASSUME NEW i \in 1..(n + 1), NEW j \in 1..(n + 1), i < j
      PROVE  new[i] < new[j]
  <2>1. CASE j < k
    <3>1. new[i] = info[i] /\ new[j] = info[j] /\ i \in 1..n /\ j \in 1..n
      BY <1>5, <1>7, <2>1
    <3> QED
      BY <1>1, <1>7, <3>1
  <2>2. CASE i < k /\ j = k
    <3>1. new[i] = info[i] /\ new[j] = id /\ i \in 1..(k - 1)
      BY <1>5, <2>2
    <3> QED
      BY <1>3, <3>1
  <2>3. CASE i < k /\ j > k
    <3>1. new[i] = info[i] /\ new[j] = info[j - 1] /\ i \in 1..n /\ j - 1 \in 1..n /\ i < j - 1
      BY <1>5, <2>3
    <3> QED
      BY <1>1, <1>6, <3>1
  <2>4. CASE i = k
    <3>1. new[i] = id /\ new[j] = info[j - 1] /\ j - 1 \in k..n
      BY <1>5, <1>7, <2>4
    <3> QED
      BY <1>1, <1>6, <3>1
  <2>5. CASE i > k
    <3>1. i - 1 \in 1..n /\ j - 1 \in 1..n /\ i - 1 < j - 1 /\ j > k
      BY <1>5, <1>7, <2>5
    <3>2. new[i] = info[i - 1] /\ new[j] = info[j - 1]
      BY <1>5, <2>5, <3>1
    <3> QED
      BY <1>1, <3>1, <3>2
  <2> QED
    BY <1>5, <2>1, <2>2, <2>3, <2>4, <2>5
<1>8. ASSUME NEW i \in 1..(n + 1)
      PROVE  new[i] = id \/ \E j \in 1..n : new[i] = info[j]
  <2>1. CASE i < k
    <3>1. new[i] = info[i] /\ i \in 1..n
      BY <1>5, <2>1
    <3> QED
      BY <3>1
  <2>2. CASE i = k
    BY <1>5, <2>2
  <2>3. CASE i > k
    <3>1. i - 1 \in 1..n
      BY <1>5, <2>3
    <3>2. new[i] = info[i - 1]
      BY <1>5, <2>3, <3>1
    <3> QED
      BY <3>1, <3>2
  <2> QED
    BY <1>5, <2>1, <2>2, <2>3
<1>9. ASSUME NEW j \in 1..n
      PROVE  \E i \in 1..(n + 1) : new[i] = info[j]
  <2>1. CASE j < k
    <3>1. new[j] = info[j] /\ j \in 1..(n + 1)
      BY <1>5, <2>1
    <3> QED
      BY <3>1
  <2>2. CASE j >= k
    <3>1. j + 1 \in 1..(n + 1) /\ (j + 1) - 1 = j
      BY <1>5, <2>2
    <3>2. new[j + 1] = info[j]
      BY <1>5, <2>2, <3>1
    <3> QED
      BY <3>1, <3>2
  <2> QED
    BY <1>5, <2>1, <2>2
<1>10. new[k] = id
  BY <1>1, <1>3, <1>4
<1>11. {new[i] : i \in 1..(n + 1)} \subseteq {info[i] : i \in 1..n} \cup {id}
  BY <1>8
<1>12. {info[i] : i \in 1..n} \cup {id} \subseteq {new[i] : i \in 1..(n + 1)}
  BY <1>1, <1>3, <1>9, <1>10
<1>13. Elements(new) = {new[i] : i \in 1..(n + 1)} /\ Elements(info) = {info[i] : i \in 1..n}
  BY <1>2, <1>4, ElementsOf
<1> QED
  BY <1>4, <1>7, <1>11, <1>12, <1>13 DEF Ascending, k, new, n

\* An ascending list with the identifier taken out that the search found.
LEMMA Deleted ==
  ASSUME NEW info, Ascending(info), NEW id \in Nat, id \in Elements(info)
  PROVE  LET k   == SearchStrings(info, id)
             new == SubSeq(info, 1, k - 1) \o <<>> \o SubSeq(info, k + 1, Len(info))
         IN  Ascending(new) /\ Elements(new) = Elements(info) \ {id}
<1> DEFINE n == Len(info)
           k == SearchStrings(info, id)
           new == SubSeq(info, 1, k - 1) \o <<>> \o SubSeq(info, k + 1, n)
<1>1. /\ info \in Seq(Nat) /\ n \in Nat /\ \A i \in 1..n : info[i] \in Nat
      /\ \A i, j \in 1..n : i < j => info[i] < info[j]
  BY DEF Ascending
<1>2. Elements(info) = {info[i] : i \in 1..n}
  BY <1>1, ElementsOf
<1>3. k \in 1..(n + 1) /\ k <= n /\ info[k] = id
  BY SearchFinds, SearchDecides
<1>4. k \in 1..n
  <2> HIDE DEF n, k
  <2> QED
    BY <1>1, <1>3
<1> HIDE DEF k
<1>5. /\ new \in Seq(Nat) /\ Len(new) = n - 1
      /\ \A i \in 1..(n - 1) : new[i] = IF i < k THEN info[i] ELSE info[i + 1]
  BY <1>1, <1>4, DeletedShape
<1> HIDE DEF new, n
<1>6. ASSUME NEW i \in 1..(n - 1), NEW j \in 1..(n - 1), i < j
      PROVE  new[i] < new[j]
  <2>1. CASE j < k
    BY <1>1, <1>4, <1>5, <1>6, <2>1
  <2>2. CASE i < k /\ j >= k
    <3>1. new[i] = info[i] /\ new[j] = info[j + 1] /\ i \in 1..n /\ j + 1 \in 1..n /\ i < j + 1
      BY <1>1, <1>4, <1>5, <2>2
    <3> QED
      BY <1>1, <3>1
  <2>3. CASE i >= k
    <3>1. /\ new[i] = info[i + 1] /\ new[j] = info[j + 1]
          /\ i + 1 \in 1..n /\ j + 1 \in 1..n /\ i + 1 < j + 1
      BY <1>1, <1>4, <1>5, <1>6, <2>3
    <3> QED
      BY <1>1, <3>1
  <2> QED
    BY <1>1, <1>4, <1>5, <1>6, <2>1, <2>2, <2>3
<1>7. ASSUME NEW i \in 1..(n - 1)
      PROVE  \E j \in 1..n : new[i] = info[j] /\ info[j] # info[k]
  <2>1. CASE i < k
    <3>1. new[i] = info[i] /\ i \in 1..n /\ info[i] < info[k]
      BY <1>1, <1>4, <1>5, <2>1
    <3> QED
      BY <1>1, <3>1
  <2>2. CASE i >= k
    <3>1. new[i] = info[i + 1] /\ i + 1 \in 1..n /\ k < i + 1
      BY <1>1, <1>4, <1>5, <2>2
    <3>2. info[k] < info[i + 1]
      BY <1>1, <1>4, <1>5, <3>1
    <3> QED
      BY <1>1, <1>4, <1>5, <3>1, <3>2
  <2> QED
    BY <1>1, <1>4, <1>5, <2>1, <2>2
<1>8. ASSUME NEW j \in 1..n, j # k
      PROVE  \E i \in 1..(n - 1) : new[i] = info[j]
  <2>1. CASE j < k
    <3>1. new[j] = info[j] /\ j \in 1..(n - 1)
      BY <1>1, <1>4, <1>5, <2>1
    <3> QED
      BY <1>1, <3>1
  <2>2. CASE j > k
    <3>1. new[j - 1] = info[j] /\ j - 1 \in 1..(n - 1)
      BY <1>1, <1>4, <1>5, <2>2
    <3> QED
      BY <1>1, <3>1
  <2> QED
    BY <1>1, <1>4, <1>5, <1>8, <2>1, <2>2
<1>9. {new[i] : i \in 1..(n - 1)} \subseteq {info[i] : i \in 1..n} \ {info[k]}
  BY <1>7
<1>10. {info[i] : i \in 1..n} \ {info[k]} \subseteq {new[i] : i \in 1..(n - 1)}
  <2> SUFFICES ASSUME NEW j \in 1..n, info[j] # info[k]
               PROVE  info[j] \in {new[i] : i \in 1..(n - 1)}
    OBVIOUS
  <2>1. j # k
    OBVIOUS
  <2> QED
    BY <1>8, <2>1
<1>11. Elements(new) = {new[i] : i \in 1..(n - 1)} /\ Elements(info) = {info[i] : i \in 1..n}
  BY <1>2, <1>5, ElementsOf
<1> QED
  BY <1>3, <1>5, <1>6, <1>9, <1>10, <1>11 DEF Ascending, k, new, n

\* One round of the loop adds an identifier that is not there and keeps the list in
\* order; it fails for one that is there.
LEMMA WriteOneAdds ==
  ASSUME NEW info, Ascending(info), NEW id \in Nat, id # Blank,
         NEW result, result = WriteOne(info, id, TRUE)
  PROVE  /\ id \in Elements(info) => result = Failed
         /\ id \notin Elements(info) =>
              /\ result.ok
              /\ Ascending(result.info)
              /\ Elements(result.info) = Elements(info) \cup {id}
<1> DEFINE k == SearchStrings(info, id)
           found == k <= Len(info) /\ info[k] = id
           new == SubSeq(info, 1, k - 1) \o <<id>> \o SubSeq(info, k, Len(info))
<1>1. found <=> id \in Elements(info)
  BY SearchDecides
<1>2. found \in BOOLEAN
  OBVIOUS
<1>3. result = IF TRUE = found THEN Failed ELSE [ok |-> TRUE, info |-> new]
  BY DEF WriteOne
<1>4. id \notin Elements(info) => Ascending(new) /\ Elements(new) = Elements(info) \cup {id}
  BY Inserted
<1> HIDE DEF found, new
<1>5. id \in Elements(info) => result = Failed
  BY <1>1, <1>2, <1>3
<1>6. id \notin Elements(info) => result = [ok |-> TRUE, info |-> new]
  BY <1>1, <1>2, <1>3
<1>7. [ok |-> TRUE, info |-> new].ok /\ [ok |-> TRUE, info |-> new].info = new
  OBVIOUS
<1> QED
  BY <1>4, <1>5, <1>6, <1>7

\* One round of the loop removes an identifier that is there and keeps the list in
\* order; it fails for one that is not there.
LEMMA WriteOneRemoves ==
  ASSUME NEW info, Ascending(info), NEW id \in Nat, id # Blank,
         NEW result, result = WriteOne(info, id, FALSE)
  PROVE  /\ id \notin Elements(info) => result = Failed
         /\ id \in Elements(info) =>
              /\ result.ok
              /\ Ascending(result.info)
              /\ Elements(result.info) = Elements(info) \ {id}
<1> DEFINE k == SearchStrings(info, id)
           found == k <= Len(info) /\ info[k] = id
           new == SubSeq(info, 1, k - 1) \o <<>> \o SubSeq(info, k + 1, Len(info))
<1>1. found <=> id \in Elements(info)
  BY SearchDecides
<1>2. found \in BOOLEAN
  OBVIOUS
<1>3. result = IF FALSE = found THEN Failed ELSE [ok |-> TRUE, info |-> new]
  BY DEF WriteOne
<1>4. id \in Elements(info) => Ascending(new) /\ Elements(new) = Elements(info) \ {id}
  BY Deleted
<1> HIDE DEF found, new
<1>5. id \notin Elements(info) => result = Failed
  BY <1>1, <1>2, <1>3
<1>6. id \in Elements(info) => result = [ok |-> TRUE, info |-> new]
  BY <1>1, <1>2, <1>3
<1>7. [ok |-> TRUE, info |-> new].ok /\ [ok |-> TRUE, info |-> new].info = new
  OBVIOUS
<1> QED
  BY <1>4, <1>5, <1>6, <1>7

\* One round of the loop: it fails when the identifier cannot be added or removed,
\* and otherwise does to the list what is done to the set.
LEMMA WriteOneEffect ==
  ASSUME NEW info, Ascending(info), NEW id \in Nat, id # Blank, NEW isAdd \in BOOLEAN,
         NEW result, result = WriteOne(info, id, isAdd)
  PROVE  /\ (isAdd <=> id \in Elements(info)) => result = Failed
         /\ ~(isAdd <=> id \in Elements(info)) =>
              /\ result.ok = TRUE
              /\ Ascending(result.info)
              /\ Elements(result.info) = With(Elements(info), {id}, isAdd)
<1>1. CASE isAdd = TRUE
  <2>1. result = WriteOne(info, id, TRUE)
    BY <1>1
  <2> QED
    BY <1>1, <2>1, WriteOneAdds DEF With
<1>2. CASE isAdd = FALSE
  <2>1. result = WriteOne(info, id, FALSE)
    BY <1>2
  <2> QED
    BY <1>2, <2>1, WriteOneRemoves DEF With
<1> QED
  BY <1>1, <1>2

-----------------------------------------------------------------------------
(* Adding and removing a list *)

\* The rounds follow one from the other.
LEMMA RoundsUnfold ==
  ASSUME NEW info, NEW ids, Len(ids) \in Nat, NEW isAdd, NEW r, r = Rounds(info, ids, isAdd)
  PROVE  /\ r[0] = [ok |-> TRUE, info |-> Sort(info)]
         /\ \A n \in 1..Len(ids) :
              r[n] = IF r[n - 1].ok THEN WriteOne(r[n - 1].info, ids[n], isAdd) ELSE Failed
<1> DEFINE Start == [ok |-> TRUE, info |-> Sort(info)]
           Round(f, n) == IF f[n - 1].ok THEN WriteOne(f[n - 1].info, ids[n], isAdd) ELSE Failed
           Upto(f, n) == f = [m \in 0..n |-> IF m = 0 THEN Start ELSE Round(f, m)]
<1>1. \E f : Upto(f, Len(ids))
  <2> DEFINE S == {n \in Nat : \E f : Upto(f, n)}
  <2>1. 0 \in S
    <3>1. Upto([m \in 0..0 |-> Start], 0)
      OBVIOUS
    <3> QED
      BY <3>1
  <2>2. ASSUME NEW n \in Nat, n \in S
        PROVE  n + 1 \in S
    <3>1. PICK f : Upto(f, n)
      BY <2>2
    <3> DEFINE g == [m \in 0..(n + 1) |-> IF m = 0 THEN Start ELSE Round(f, m)]
    <3>2. ASSUME NEW m \in 0..n
          PROVE  g[m] = f[m]
      BY <3>1, <3>2
    <3>3. ASSUME NEW m \in 0..(n + 1), m # 0
          PROVE  Round(g, m) = Round(f, m)
      <4>1. m - 1 \in 0..n
        BY <3>3
      <4>2. g[m - 1] = f[m - 1]
        BY <3>2, <4>1
      <4> HIDE DEF g
      <4> QED
        BY <4>2
    <3>4. Upto(g, n + 1)
      <4> HIDE DEF Round, Start
      <4>1. g = [m \in 0..(n + 1) |-> IF m = 0 THEN Start ELSE Round(f, m)]
        OBVIOUS
      <4>2. ASSUME NEW m \in 0..(n + 1)
            PROVE  (IF m = 0 THEN Start ELSE Round(f, m)) = IF m = 0 THEN Start ELSE Round(g, m)
        BY <3>3
      <4> HIDE DEF g
      <4>3. [m \in 0..(n + 1) |-> IF m = 0 THEN Start ELSE Round(f, m)]
              = [m \in 0..(n + 1) |-> IF m = 0 THEN Start ELSE Round(g, m)]
        BY <4>2, Zenon
      <4> QED
        BY <4>1, <4>3
    <3>5. n + 1 \in Nat
      OBVIOUS
    <3> HIDE DEF g, Upto
    <3> QED
      BY <3>4, <3>5, Zenon
  <2> HIDE DEF S
  <2>3. \A n \in Nat : n \in S
    BY <2>1, <2>2, Induction
  <2> QED
    BY <2>3 DEF S
<1>2. Upto(r, Len(ids))
  BY <1>1, Zenon DEF Rounds
<1>3. ASSUME NEW n \in 0..Len(ids)
      PROVE  r[n] = IF n = 0 THEN Start ELSE Round(r, n)
  <2> DEFINE h == [m \in 0..Len(ids) |-> IF m = 0 THEN Start ELSE Round(r, m)]
  <2>1. h[n] = IF n = 0 THEN Start ELSE Round(r, n)
    OBVIOUS
  <2>2. r = h
    BY <1>2
  <2>3. r[n] = h[n]
    BY <2>2, Zenon
  <2> HIDE DEF h, Round, Start
  <2> QED
    BY <2>1, <2>3, Zenon
<1>4. r[0] = Start
  <2> HIDE DEF Round, Start
  <2> QED
    BY <1>3
<1>5. ASSUME NEW n \in 1..Len(ids)
      PROVE  r[n] = Round(r, n)
  <2> HIDE DEF Round, Start
  <2>1. n \in 0..Len(ids) /\ n # 0
    OBVIOUS
  <2> QED
    BY <1>3, <2>1
<1> QED
  BY <1>4, <1>5

\* Writing a list: it succeeds when every identifier in turn can be added or
\* removed, and then does to the list what is done to the set.
LEMMA WriteToInfoEffect ==
  ASSUME NEW info, Ascending(info), NEW ids \in Seq(Nat \ {Blank}), NEW isAdd \in BOOLEAN,
         NEW result, result = WriteToInfo(info, ids, isAdd)
  PROVE  LET Now(i) == With(Elements(info), {ids[j] : j \in 1..(i - 1)}, isAdd)
             Fits == \A i \in 1..Len(ids) : ~(isAdd <=> ids[i] \in Now(i))
         IN  /\ Fits => /\ result.ok = TRUE
                        /\ Ascending(result.info)
                        /\ Elements(result.info) = With(Elements(info), Elements(ids), isAdd)
             /\ ~Fits => result = Failed
<1> DEFINE r == Rounds(info, ids, isAdd)
           Now(i) == With(Elements(info), {ids[j] : j \in 1..(i - 1)}, isAdd)
           Fit(n) == \A i \in 1..n : ~(isAdd <=> ids[i] \in Now(i))
           P(n) == /\ Fit(n) => /\ r[n].ok = TRUE
                                /\ Ascending(r[n].info)
                                /\ Elements(r[n].info) = Now(n + 1)
                   /\ ~Fit(n) => r[n] = Failed
           S == {n \in Nat : n <= Len(ids) => P(n)}
<1>1. Len(ids) \in Nat /\ \A i \in 1..Len(ids) : ids[i] \in Nat /\ ids[i] # Blank
  OBVIOUS
<1>2. /\ r[0] = [ok |-> TRUE, info |-> Sort(info)]
      /\ \A n \in 1..Len(ids) :
           r[n] = IF r[n - 1].ok THEN WriteOne(r[n - 1].info, ids[n], isAdd) ELSE Failed
  BY <1>1, RoundsUnfold
<1> HIDE DEF r
<1>3. 0 \in S
  <2>1. Fit(0)
    OBVIOUS
  <2>2. r[0].ok = TRUE /\ r[0].info = info
    BY <1>2, SortSorted
  <2>3. Now(1) = Elements(info)
    BY DEF With
  <2> HIDE DEF Fit, Now
  <2> QED
    BY <2>1, <2>2, <2>3
<1>4. ASSUME NEW n \in Nat, n \in S
      PROVE  n + 1 \in S
  <2> HIDE DEF P
  <2> SUFFICES ASSUME n + 1 <= Len(ids)
               PROVE  P(n + 1)
    OBVIOUS
  <2>1. P(n) /\ n + 1 \in 1..Len(ids) /\ (n + 1) - 1 = n
    BY <1>1, <1>4
  <2> USE DEF P
  <2> DEFINE id == ids[n + 1]
  <2>2. id \in Nat /\ id # Blank
    BY <1>1, <2>1
  <2>3. r[n + 1] = IF r[n].ok THEN WriteOne(r[n].info, id, isAdd) ELSE Failed
    BY <1>2, <2>1
  <2>4. Fit(n + 1) <=> Fit(n) /\ ~(isAdd <=> id \in Now(n + 1))
    <3>1. 1..(n + 1) = (1..n) \cup {n + 1}
      OBVIOUS
    <3> HIDE DEF Now
    <3> QED
      BY <3>1
  <2>5. Now(n + 2) = With(Now(n + 1), {id}, isAdd)
    <3>1. 1..((n + 2) - 1) = (1..((n + 1) - 1)) \cup {n + 1}
      OBVIOUS
    <3> QED
      BY <3>1 DEF With
  <2>6. (n + 1) + 1 = n + 2
    OBVIOUS
  <2> HIDE DEF Fit, Now, id
  <2>7. CASE ~Fit(n)
    <3>1. r[n] = Failed
      BY <2>1, <2>7
    <3>2. r[n + 1] = Failed
      BY <2>3, <3>1 DEF Failed
    <3> QED
      BY <2>4, <2>7, <3>2
  <2>8. CASE Fit(n)
    <3>1. r[n].ok = TRUE /\ Ascending(r[n].info) /\ Elements(r[n].info) = Now(n + 1)
      BY <2>1, <2>8
    <3>2. r[n + 1] = WriteOne(r[n].info, id, isAdd)
      BY <2>3, <3>1
    <3> DEFINE now == r[n].info
    <3>3. /\ (isAdd <=> id \in Elements(now)) => r[n + 1] = Failed
          /\ ~(isAdd <=> id \in Elements(now)) =>
               /\ r[n + 1].ok = TRUE
               /\ Ascending(r[n + 1].info)
               /\ Elements(r[n + 1].info) = With(Elements(now), {id}, isAdd)
      <4>1. r[n + 1] = WriteOne(now, id, isAdd) /\ Ascending(now)
        BY <3>1, <3>2
      <4> HIDE DEF now
      <4> QED
        BY <2>2, <4>1, WriteOneEffect
    <3> QED
      BY <2>4, <2>5, <2>6, <2>8, <3>1, <3>3
  <2> QED
    BY <2>7, <2>8
<1>5. Len(ids) \in S
  <2> HIDE DEF S
  <2> QED
    BY <1>1, <1>3, <1>4, Induction
<1>6. P(Len(ids))
  <2> HIDE DEF P
  <2> QED
    BY <1>1, <1>5
<1>7. result = r[Len(ids)]
  BY DEF WriteToInfo, r
<1>8. Now(Len(ids) + 1) = With(Elements(info), Elements(ids), isAdd)
  <2>1. Elements(ids) = {ids[j] : j \in 1..Len(ids)}
    BY ElementsOf
  <2>2. (Len(ids) + 1) - 1 = Len(ids)
    BY <1>1
  <2> QED
    BY <2>1, <2>2
<1> HIDE DEF Now
<1> QED
  BY <1>6, <1>7, <1>8 DEF Now

\* Adding a list succeeds if nothing in it occurs twice or is there.
LEMMA WriteToInfoAdds ==
  ASSUME NEW info, Ascending(info), NEW ids \in Seq(Nat \ {Blank}),
         NEW result, result = WriteToInfo(info, ids, TRUE)
  PROVE  LET granted == Distinct(ids) /\ Elements(ids) \cap Elements(info) = {}
         IN  /\ granted => /\ result.ok = TRUE
                           /\ Ascending(result.info)
                           /\ Elements(result.info) = Elements(info) \cup Elements(ids)
             /\ ~granted => result = Failed
<1> DEFINE granted == Distinct(ids) /\ Elements(ids) \cap Elements(info) = {}
           Before(i) == {ids[j] : j \in 1..(i - 1)}
           Fits == \A i \in 1..Len(ids) : ~(TRUE <=> ids[i] \in With(Elements(info), Before(i), TRUE))
<1>1. Len(ids) \in Nat /\ Elements(ids) = {ids[i] : i \in 1..Len(ids)}
  BY ElementsOf
<1>2. Fits <=> \A i \in 1..Len(ids) : ids[i] \notin Elements(info) /\ ids[i] \notin Before(i)
  BY DEF With
<1>3. (\A i \in 1..Len(ids) : ids[i] \notin Before(i)) <=> Distinct(ids)
  <2>1. ASSUME \A i \in 1..Len(ids) : ids[i] \notin Before(i),
               NEW i \in 1..Len(ids), NEW j \in 1..Len(ids), i # j
        PROVE  ids[i] # ids[j]
    <3>1. CASE i < j
      BY <1>1, <2>1, <3>1
    <3>2. CASE j < i
      BY <1>1, <2>1, <3>2
    <3> QED
      BY <1>1, <2>1, <3>1, <3>2
  <2>2. ASSUME Distinct(ids), NEW i \in 1..Len(ids), NEW j \in 1..(i - 1)
        PROVE  ids[i] # ids[j]
    <3>1. j \in 1..Len(ids) /\ i # j
      BY <1>1
    <3> QED
      BY <2>2, <3>1 DEF Distinct
  <2> QED
    BY <2>1, <2>2 DEF Distinct
<1>4. Fits <=> granted
  <2> HIDE DEF Before
  <2> QED
    BY <1>1, <1>2, <1>3
<1>5. /\ Fits => /\ result.ok = TRUE
                 /\ Ascending(result.info)
                 /\ Elements(result.info) = With(Elements(info), Elements(ids), TRUE)
      /\ ~Fits => result = Failed
  BY WriteToInfoEffect
<1> HIDE DEF Fits, granted
<1>6. With(Elements(info), Elements(ids), TRUE) = Elements(info) \cup Elements(ids)
  BY DEF With
<1> QED
  BY <1>4, <1>5, <1>6 DEF granted

\* Removing a list succeeds if nothing in it occurs twice and all of it is there.
LEMMA WriteToInfoRemoves ==
  ASSUME NEW info, Ascending(info), NEW ids \in Seq(Nat \ {Blank}),
         NEW result, result = WriteToInfo(info, ids, FALSE)
  PROVE  LET granted == Distinct(ids) /\ Elements(ids) \subseteq Elements(info)
         IN  /\ granted => /\ result.ok = TRUE
                           /\ Ascending(result.info)
                           /\ Elements(result.info) = Elements(info) \ Elements(ids)
             /\ ~granted => result = Failed
<1> DEFINE granted == Distinct(ids) /\ Elements(ids) \subseteq Elements(info)
           Before(i) == {ids[j] : j \in 1..(i - 1)}
           Fits == \A i \in 1..Len(ids) : ~(FALSE <=> ids[i] \in With(Elements(info), Before(i), FALSE))
<1>1. Len(ids) \in Nat /\ Elements(ids) = {ids[i] : i \in 1..Len(ids)}
  BY ElementsOf
<1>2. Fits <=> \A i \in 1..Len(ids) : ids[i] \in Elements(info) /\ ids[i] \notin Before(i)
  BY DEF With
<1>3. (\A i \in 1..Len(ids) : ids[i] \notin Before(i)) <=> Distinct(ids)
  <2>1. ASSUME \A i \in 1..Len(ids) : ids[i] \notin Before(i),
               NEW i \in 1..Len(ids), NEW j \in 1..Len(ids), i # j
        PROVE  ids[i] # ids[j]
    <3>1. CASE i < j
      BY <1>1, <2>1, <3>1
    <3>2. CASE j < i
      BY <1>1, <2>1, <3>2
    <3> QED
      BY <1>1, <2>1, <3>1, <3>2
  <2>2. ASSUME Distinct(ids), NEW i \in 1..Len(ids), NEW j \in 1..(i - 1)
        PROVE  ids[i] # ids[j]
    <3>1. j \in 1..Len(ids) /\ i # j
      BY <1>1
    <3> QED
      BY <2>2, <3>1 DEF Distinct
  <2> QED
    BY <2>1, <2>2 DEF Distinct
<1>4. Fits <=> granted
  <2> HIDE DEF Before
  <2> QED
    BY <1>1, <1>2, <1>3
<1>5. /\ Fits => /\ result.ok = TRUE
                 /\ Ascending(result.info)
                 /\ Elements(result.info) = With(Elements(info), Elements(ids), FALSE)
      /\ ~Fits => result = Failed
  BY WriteToInfoEffect
<1> HIDE DEF Fits, granted
<1>6. With(Elements(info), Elements(ids), FALSE) = Elements(info) \ Elements(ids)
  BY DEF With
<1> QED
  BY <1>4, <1>5, <1>6 DEF granted

-----------------------------------------------------------------------------
(* Appending and removing *)

\* What the file holds while wni is the only one to write it: it is not there, was
\* left half written, or has two ascending lists.
Proper(file) ==
  \/ file \in {Absent, Unparsable}
  \/ file \in Contents /\ Ascending(file.instances) /\ Ascending(file.groups)

\* Two lists are not the absence of a file.
LEMMA InfoIsReadable ==
  ASSUME NEW ids, Ascending(ids), NEW sgs, Ascending(sgs)
  PROVE  /\ Proper(Info(ids, sgs))
         /\ Readable(Info(ids, sgs))
         /\ Info(ids, sgs) # Absent
         /\ InstancesIn(Info(ids, sgs)) = Elements(ids)
         /\ GroupsIn(Info(ids, sgs)) = Elements(sgs)
<1>1. Info(ids, sgs) \in Contents
  BY DEF Info, Contents, Ascending
<1>2. Readable(Info(ids, sgs)) /\ Info(ids, sgs) # Absent
  BY <1>1, ContentsAssumption DEF Readable
<1>3. Info(ids, sgs).instances = ids /\ Info(ids, sgs).groups = sgs
  BY DEF Info
<1> QED
  BY <1>1, <1>2, <1>3 DEF InstancesIn, GroupsIn, Proper

\* There is nothing in a file that is not there or cannot be read.
LEMMA AbsentIsEmpty ==
  /\ ~Readable(Absent) /\ InstancesIn(Absent) = {} /\ GroupsIn(Absent) = {}
  /\ ~Readable(Unparsable) /\ InstancesIn(Unparsable) = {} /\ GroupsIn(Unparsable) = {}
BY DEF Readable, InstancesIn, GroupsIn

\* A file that can be read is two ascending lists.
LEMMA ProperLists ==
  ASSUME NEW file, Proper(file), Readable(file)
  PROVE  /\ file = Info(file.instances, file.groups)
         /\ Ascending(file.instances) /\ Ascending(file.groups)
         /\ InstancesIn(file) = Elements(file.instances)
         /\ GroupsIn(file) = Elements(file.groups)
<1>1. file \in Contents /\ Ascending(file.instances) /\ Ascending(file.groups)
  BY DEF Proper, Readable
<1>2. file = Info(file.instances, file.groups)
  BY <1>1 DEF Contents, Info
<1> QED
  BY <1>1, <1>2 DEF InstancesIn, GroupsIn

\* In a list in order nothing occurs twice.
LEMMA AscendingIsDistinct ==
  ASSUME NEW s, Ascending(s)
  PROVE  Distinct(s)
<1> SUFFICES ASSUME NEW i \in 1..Len(s), NEW j \in 1..Len(s), i # j, s[i] = s[j]
             PROVE  FALSE
  BY DEF Distinct
<1>1. Len(s) \in Nat /\ s[i] \in Nat /\ s[j] \in Nat
  BY DEF Ascending
<1>2. i < j \/ j < i
  BY <1>1
<1>3. s[i] < s[j] \/ s[j] < s[i]
  BY <1>2 DEF Ascending
<1> QED
  BY <1>1, <1>3

\* A list of what is in a set.
LEMMA ListOf ==
  ASSUME NEW S, NEW s \in Seq(Nat), Elements(s) \subseteq S
  PROVE  s \in Seq(S)
<1>1. Len(s) \in Nat /\ \A i \in 1..Len(s) : s[i] \in S
  BY ElementsOf
<1>2. s = [i \in 1..Len(s) |-> s[i]]
  OBVIOUS
<1>3. s \in [1..Len(s) -> S]
  BY <1>1, <1>2
<1> QED
  BY <1>1, <1>3

\* A list of one identifier.
LEMMA JustOne ==
  ASSUME NEW n \in Nat, n # Blank
  PROVE  <<n>> \in Seq(Nat \ {Blank}) /\ Ascending(<<n>>) /\ Elements(<<n>>) = {n}
<1>1. <<n>> \in Seq(Nat \ {Blank}) /\ <<n>> \in Seq(Nat)
  OBVIOUS
<1>2. Ascending(<<n>>)
  BY <1>1 DEF Ascending
<1>3. Elements(<<n>>) = {n}
  BY DEF Elements
<1> QED
  BY <1>1, <1>2, <1>3

\* AppendInstallerInfo adds to two sets, and refuses what is there already.
LEMMA AppendedEffect ==
  ASSUME NEW file, Proper(file),
         NEW ids \in Seq(Nat \ {Blank}), Ascending(ids),
         NEW sgs \in Seq(Nat \ {Blank}), Ascending(sgs),
         NEW result, result = Appended(file, ids, sgs)
  PROVE  LET granted == /\ Elements(ids) \cap InstancesIn(file) = {}
                        /\ Elements(sgs) \cap GroupsIn(file) = {}
         IN  /\ granted => /\ result.ok = TRUE
                           /\ Proper(result.file)
                           /\ result.file # Absent
                           /\ InstancesIn(result.file) = InstancesIn(file) \cup Elements(ids)
                           /\ GroupsIn(result.file) = GroupsIn(file) \cup Elements(sgs)
             /\ ~granted => result.ok = FALSE
<1> DEFINE granted == /\ Elements(ids) \cap InstancesIn(file) = {}
                      /\ Elements(sgs) \cap GroupsIn(file) = {}
           i == WriteToInfo(file.instances, ids, TRUE)
           g == WriteToInfo(file.groups, sgs, TRUE)
<1>1. CASE ~Readable(file)
  <2>1. result = [ok |-> TRUE, file |-> Info(ids, sgs)]
    BY <1>1 DEF Appended
  <2>2. InstancesIn(file) = {} /\ GroupsIn(file) = {}
    BY <1>1 DEF InstancesIn, GroupsIn
  <2> QED
    BY <2>1, <2>2, InfoIsReadable
<1>2. CASE Readable(file)
  <2> DEFINE both == [ok |-> i.ok /\ g.ok, file |-> Info(i.info, g.info)]
  <2>1. result = both
    BY <1>2 DEF Appended, WriteBoth
  <2>2. /\ Ascending(file.instances) /\ Ascending(file.groups)
        /\ InstancesIn(file) = Elements(file.instances)
        /\ GroupsIn(file) = Elements(file.groups)
    BY <1>2, ProperLists
  <2>3. /\ Elements(ids) \cap InstancesIn(file) = {} =>
             i.ok = TRUE /\ Ascending(i.info) /\ Elements(i.info) = InstancesIn(file) \cup Elements(ids)
        /\ Elements(ids) \cap InstancesIn(file) # {} => i.ok = FALSE
    <3> DEFINE fits == Distinct(ids) /\ Elements(ids) \cap Elements(file.instances) = {}
    <3>1. /\ fits => /\ i.ok = TRUE
                   /\ Ascending(i.info)
                   /\ Elements(i.info) = Elements(file.instances) \cup Elements(ids)
          /\ ~fits => i = Failed
      <4>1. i = WriteToInfo(file.instances, ids, TRUE) /\ Ascending(file.instances)
        BY <2>2
      <4> HIDE DEF i
      <4> QED
        BY <4>1, WriteToInfoAdds
    <3>2. Failed.ok = FALSE
      BY DEF Failed
    <3>3. Distinct(ids)
      BY AscendingIsDistinct
    <3> HIDE DEF i
    <3> QED
      BY <2>2, <3>1, <3>2, <3>3
  <2>4. /\ Elements(sgs) \cap GroupsIn(file) = {} =>
             g.ok = TRUE /\ Ascending(g.info) /\ Elements(g.info) = GroupsIn(file) \cup Elements(sgs)
        /\ Elements(sgs) \cap GroupsIn(file) # {} => g.ok = FALSE
    <3> DEFINE fits == Distinct(sgs) /\ Elements(sgs) \cap Elements(file.groups) = {}
    <3>1. /\ fits => /\ g.ok = TRUE
                   /\ Ascending(g.info)
                   /\ Elements(g.info) = Elements(file.groups) \cup Elements(sgs)
          /\ ~fits => g = Failed
      <4>1. g = WriteToInfo(file.groups, sgs, TRUE) /\ Ascending(file.groups)
        BY <2>2
      <4> HIDE DEF g
      <4> QED
        BY <4>1, WriteToInfoAdds
    <3>2. Failed.ok = FALSE
      BY DEF Failed
    <3>3. Distinct(sgs)
      BY AscendingIsDistinct
    <3> HIDE DEF g
    <3> QED
      BY <2>2, <3>1, <3>2, <3>3
  <2> HIDE DEF i, g
  <2>5. both.ok = (i.ok /\ g.ok) /\ both.file = Info(i.info, g.info)
    OBVIOUS
  <2> HIDE DEF both
  <2>6. CASE granted
    <3>1. /\ result.ok = TRUE /\ Ascending(i.info) /\ Ascending(g.info)
          /\ result.file = Info(i.info, g.info)
          /\ Elements(i.info) = InstancesIn(file) \cup Elements(ids)
          /\ Elements(g.info) = GroupsIn(file) \cup Elements(sgs)
      BY <2>1, <2>3, <2>4, <2>5, <2>6
    <3> QED
      BY <2>6, <3>1, InfoIsReadable
  <2>7. CASE ~granted
    <3>1. result.ok = FALSE
      BY <2>1, <2>3, <2>4, <2>5, <2>7
    <3> QED
      BY <2>7, <3>1
  <2> QED
    BY <2>6, <2>7
<1> QED
  BY <1>1, <1>2

\* A list is empty when nothing is in it.
LEMMA NothingInIt ==
  ASSUME NEW s, Ascending(s)
  PROVE  s = <<>> <=> Elements(s) = {}
<1>1. s \in Seq(Nat) /\ Elements(s) = {s[i] : i \in 1..Len(s)} /\ Len(s) \in Nat
  BY ElementsOf DEF Ascending
<1>2. Elements(s) = {} <=> Len(s) = 0
  <2>1. ASSUME Len(s) # 0
        PROVE  s[1] \in Elements(s)
    BY <1>1, <2>1
  <2>2. ASSUME Len(s) = 0
        PROVE  Elements(s) = {}
    BY <1>1, <2>2
  <2> QED
    BY <2>1, <2>2
<1>3. Len(s) = 0 <=> s = <<>>
  BY <1>1, EmptySeq
<1> QED
  BY <1>2, <1>3

\* RemoveInstallerInfo removes from two sets, refuses what is not there, and leaves
\* no file that names nothing.
LEMMA RemovedEffect ==
  ASSUME NEW file, Proper(file),
         NEW ids \in Seq(Nat \ {Blank}), NEW sgs \in Seq(Nat \ {Blank}),
         NEW result, result = Removed(file, ids, sgs)
  PROVE  LET granted == /\ Readable(file) /\ Distinct(ids) /\ Distinct(sgs)
                        /\ Elements(ids) \subseteq InstancesIn(file)
                        /\ Elements(sgs) \subseteq GroupsIn(file)
         IN  /\ granted => /\ result.ok = TRUE
                           /\ Proper(result.file)
                           /\ InstancesIn(result.file) = InstancesIn(file) \ Elements(ids)
                           /\ GroupsIn(result.file) = GroupsIn(file) \ Elements(sgs)
                           /\ result.file # Absent =>
                                InstancesIn(result.file) \cup GroupsIn(result.file) # {}
             /\ ~granted => result.ok = FALSE
<1> DEFINE granted == /\ Readable(file) /\ Distinct(ids) /\ Distinct(sgs)
                      /\ Elements(ids) \subseteq InstancesIn(file)
                      /\ Elements(sgs) \subseteq GroupsIn(file)
           i == WriteToInfo(file.instances, ids, FALSE)
           g == WriteToInfo(file.groups, sgs, FALSE)
<1>1. CASE ~Readable(file)
  <2>1. result = [ok |-> FALSE, file |-> file]
    BY <1>1 DEF Removed
  <2> QED
    BY <1>1, <2>1
<1>2. CASE Readable(file)
  <2> DEFINE both == [ok |-> i.ok /\ g.ok, file |-> Info(i.info, g.info)]
  <2>1. result = IF both.ok /\ both.file = Info(<<>>, <<>>) THEN [ok |-> TRUE, file |-> Absent]
                 ELSE both
    BY <1>2 DEF Removed, WriteBoth
  <2>2. /\ Ascending(file.instances) /\ Ascending(file.groups)
        /\ InstancesIn(file) = Elements(file.instances)
        /\ GroupsIn(file) = Elements(file.groups)
    BY <1>2, ProperLists
  <2>3. /\ Distinct(ids) /\ Elements(ids) \subseteq InstancesIn(file) =>
             i.ok = TRUE /\ Ascending(i.info) /\ Elements(i.info) = InstancesIn(file) \ Elements(ids)
        /\ ~(Distinct(ids) /\ Elements(ids) \subseteq InstancesIn(file)) => i.ok = FALSE
    <3> DEFINE fits == Distinct(ids) /\ Elements(ids) \subseteq Elements(file.instances)
    <3>1. /\ fits => /\ i.ok = TRUE
                   /\ Ascending(i.info)
                   /\ Elements(i.info) = Elements(file.instances) \ Elements(ids)
          /\ ~fits => i = Failed
      <4>1. i = WriteToInfo(file.instances, ids, FALSE) /\ Ascending(file.instances)
        BY <2>2
      <4> HIDE DEF i
      <4> QED
        BY <4>1, WriteToInfoRemoves
    <3>2. Failed.ok = FALSE
      BY DEF Failed
    <3> HIDE DEF i
    <3> QED
      BY <2>2, <3>1, <3>2
  <2>4. /\ Distinct(sgs) /\ Elements(sgs) \subseteq GroupsIn(file) =>
             g.ok = TRUE /\ Ascending(g.info) /\ Elements(g.info) = GroupsIn(file) \ Elements(sgs)
        /\ ~(Distinct(sgs) /\ Elements(sgs) \subseteq GroupsIn(file)) => g.ok = FALSE
    <3> DEFINE fits == Distinct(sgs) /\ Elements(sgs) \subseteq Elements(file.groups)
    <3>1. /\ fits => /\ g.ok = TRUE
                   /\ Ascending(g.info)
                   /\ Elements(g.info) = Elements(file.groups) \ Elements(sgs)
          /\ ~fits => g = Failed
      <4>1. g = WriteToInfo(file.groups, sgs, FALSE) /\ Ascending(file.groups)
        BY <2>2
      <4> HIDE DEF g
      <4> QED
        BY <4>1, WriteToInfoRemoves
    <3>2. Failed.ok = FALSE
      BY DEF Failed
    <3> HIDE DEF g
    <3> QED
      BY <2>2, <3>1, <3>2
  <2> HIDE DEF i, g
  <2>5. both.ok = (i.ok /\ g.ok) /\ both.file = Info(i.info, g.info)
    OBVIOUS
  <2> HIDE DEF both
  <2>6. CASE granted
    <3>1. /\ both.ok = TRUE /\ Ascending(i.info) /\ Ascending(g.info)
          /\ Elements(i.info) = InstancesIn(file) \ Elements(ids)
          /\ Elements(g.info) = GroupsIn(file) \ Elements(sgs)
      BY <2>3, <2>4, <2>5, <2>6
    <3>2. CASE i.info = <<>> /\ g.info = <<>>
      <4>1. result = [ok |-> TRUE, file |-> Absent]
        BY <2>1, <2>5, <3>1, <3>2
      <4>2. Elements(i.info) = {} /\ Elements(g.info) = {}
        BY <3>1, <3>2, NothingInIt
      <4> QED
        BY <2>6, <3>1, <4>1, <4>2, AbsentIsEmpty DEF Proper
    <3>3. CASE ~(i.info = <<>> /\ g.info = <<>>)
      <4>1. Info(i.info, g.info) # Info(<<>>, <<>>)
        BY <3>3 DEF Info
      <4>2. result.ok = TRUE /\ result.file = Info(i.info, g.info)
        BY <2>1, <2>5, <3>1, <4>1
      <4>3. Elements(i.info) \cup Elements(g.info) # {}
        BY <3>1, <3>3, NothingInIt
      <4> QED
        BY <2>6, <3>1, <4>2, <4>3, InfoIsReadable
    <3> QED
      BY <3>2, <3>3
  <2>7. CASE ~granted
    <3>1. both.ok = FALSE
      BY <1>2, <2>3, <2>4, <2>5, <2>7
    <3> QED
      BY <2>1, <2>7, <3>1
  <2> QED
    BY <2>6, <2>7
<1> QED
  BY <1>1, <1>2

=============================================================================
