-------------------------- MODULE TaskBoardProofs --------------------------
(***************************************************************************)
(* Proofs about TaskBoard: types and locks in every interleaving of moves, *)
(* that the rows implement Board, and where a move puts its task.          *)
(*                                                                         *)
(* The first part is about sorted columns: a finite set of rows has one    *)
(* list by (sortOrder, id), and taking a task out of it leaves the list of *)
(* the others.                                                             *)
(***************************************************************************)
EXTENDS TaskBoard, FiniteSetTheorems, SequenceTheorems, TLAPS

Enumerates(s, S) == ToSet(s) = S /\ IsInjective(s)

(* The sortOrder is a number. *)
Sortable(rows, S) == \A t \in S : rows[t].sortOrder \in Int

InOrder(s, rows) == \A i, j \in DOMAIN s : i < j => Above(rows, s[i], s[j])

(* s lists S by (sortOrder, id). *)
Lists(s, S, rows) == s \in Seq(Tasks) /\ Enumerates(s, S) /\ InOrder(s, rows)

(* By (sortOrder, id), ids being unique, is a strict total order. *)
LEMMA AboveIsOrder ==
  ASSUME NEW rows, NEW S \in SUBSET Tasks, Sortable(rows, S)
  PROVE  /\ \A t \in S : ~Above(rows, t, t)
         /\ \A t, u \in S : t # u => Above(rows, t, u) \/ Above(rows, u, t)
         /\ \A t, u, v \in S :
              Above(rows, t, u) /\ Above(rows, u, v) => Above(rows, t, v)
  BY BoardAssumption DEF Sortable, Above

LEMMA ListElements ==
  ASSUME NEW S, NEW s \in Seq(Tasks), Enumerates(s, S)
  PROVE  /\ DOMAIN s = 1..Len(s) /\ Len(s) \in Nat
         /\ \A i \in 1..Len(s) : s[i] \in S /\ s[i] \in Tasks
         /\ \A t \in S : \E i \in 1..Len(s) : s[i] = t
         /\ \A i, j \in 1..Len(s) : s[i] = s[j] => i = j
  BY DEF Enumerates, ToSet, IsInjective

(* Who is at place i has i - 1 above it. *)
LEMMA RankOfPlace ==
  ASSUME NEW rows, NEW S \in SUBSET Tasks, Sortable(rows, S),
         NEW s, Lists(s, S, rows), NEW i \in 1..Len(s)
  PROVE  Cardinality({t \in S : Above(rows, t, s[i])}) = i - 1
<1> DEFINE U == {t \in S : Above(rows, t, s[i])}
<1> DEFINE f == [j \in 1..(i - 1) |-> s[j]]
<1>1. s \in Seq(Tasks) /\ Enumerates(s, S) /\ InOrder(s, rows)
  BY DEF Lists
<1>2. /\ DOMAIN s = 1..Len(s) /\ Len(s) \in Nat
      /\ \A j \in 1..Len(s) : s[j] \in S /\ s[j] \in Tasks
      /\ \A t \in S : \E j \in 1..Len(s) : s[j] = t
      /\ \A j, k \in 1..Len(s) : s[j] = s[k] => j = k
  BY <1>1, ListElements
<1>3. \A j, k \in 1..Len(s) : j < k => Above(rows, s[j], s[k])
  BY <1>1, <1>2 DEF InOrder
<1>4. \A j \in 1..(i - 1) : j \in 1..Len(s) /\ s[j] \in U
  BY <1>2, <1>3
<1>5. \A t \in U : \E j \in 1..(i - 1) : s[j] = t
  <2> SUFFICES ASSUME NEW t \in U PROVE \E j \in 1..(i - 1) : s[j] = t
    OBVIOUS
  <2>1. PICK j \in 1..Len(s) : s[j] = t
    BY <1>2
  <2>2. ~(i < j)
    BY <1>2, <1>3, <2>1, AboveIsOrder
  <2>3. i # j
    BY <1>2, <2>1, AboveIsOrder
  <2> QED
    BY <2>1, <2>2, <2>3
<1>6. f \in [1..(i - 1) -> U]
  BY <1>4
<1>7. f \in Bijection(1..(i - 1), U)
  BY <1>2, <1>4, <1>5, <1>6 DEF Bijection, Injection, Surjection, IsInjective
<1>8. IsFiniteSet(1..(i - 1)) /\ Cardinality(1..(i - 1)) = i - 1
  BY FS_Interval
<1> QED
  BY <1>7, <1>8, FS_Bijection DEF ExistsBijection

(* A set of rows has at most one list. *)
LEMMA OneList ==
  ASSUME NEW rows, NEW S \in SUBSET Tasks, Sortable(rows, S),
         NEW s, Lists(s, S, rows), NEW q, Lists(q, S, rows)
  PROVE  s = q
<1>1. /\ s \in Seq(Tasks) /\ Enumerates(s, S)
      /\ q \in Seq(Tasks) /\ Enumerates(q, S)
  BY DEF Lists
<1>2. /\ Len(s) \in Nat
      /\ \A i \in 1..Len(s) : s[i] \in S
      /\ \A t \in S : \E i \in 1..Len(s) : s[i] = t
  BY <1>1, ListElements
<1>3. /\ Len(q) \in Nat
      /\ \A i \in 1..Len(q) : q[i] \in S
      /\ \A t \in S : \E i \in 1..Len(q) : q[i] = t
  BY <1>1, ListElements
<1>4. \A i \in 1..Len(s) : Cardinality({t \in S : Above(rows, t, s[i])}) = i - 1
  BY RankOfPlace
<1>5. \A i \in 1..Len(q) : Cardinality({t \in S : Above(rows, t, q[i])}) = i - 1
  BY RankOfPlace
<1>6. \A i \in 1..Len(s) : i \in 1..Len(q) /\ s[i] = q[i]
  <2> SUFFICES ASSUME NEW i \in 1..Len(s) PROVE i \in 1..Len(q) /\ s[i] = q[i]
    OBVIOUS
  <2>1. PICK j \in 1..Len(q) : q[j] = s[i]
    BY <1>2, <1>3
  <2>2. i - 1 = j - 1
    BY <1>4, <1>5, <2>1
  <2> QED
    BY <2>1, <2>2
<1>7. \A i \in 1..Len(q) : i \in 1..Len(s)
  <2> SUFFICES ASSUME NEW i \in 1..Len(q) PROVE i \in 1..Len(s)
    OBVIOUS
  <2>1. PICK j \in 1..Len(s) : q[i] = s[j]
    BY <1>2, <1>3
  <2>2. i - 1 = j - 1
    BY <1>4, <1>5, <2>1
  <2> QED
    BY <2>1, <2>2
<1>8. Len(s) = Len(q)
  BY <1>2, <1>3, <1>6, <1>7
<1> QED
  BY <1>1, <1>6, <1>8, SeqEqual

(* And it has one: the rank of a row is its place. *)
LEMMA ListExists ==
  ASSUME NEW rows, NEW S \in SUBSET Tasks, Sortable(rows, S)
  PROVE  \E s \in [1..Cardinality(S) -> S] :
            \A i, j \in DOMAIN s : i < j => Above(rows, s[i], s[j])
<1> DEFINE n == Cardinality(S)
<1> DEFINE Higher(t) == {u \in S : Above(rows, u, t)}
<1> DEFINE rank == [t \in S |-> Cardinality(Higher(t)) + 1]
<1>1. IsFiniteSet(S) /\ n \in Nat
  BY BoardAssumption, FS_Subset, FS_CardinalityType
<1>2. \A t \in S : IsFiniteSet(Higher(t)) /\ Cardinality(Higher(t)) \in Nat
  <2> SUFFICES ASSUME NEW t \in S
               PROVE  IsFiniteSet(Higher(t)) /\ Cardinality(Higher(t)) \in Nat
    OBVIOUS
  <2>1. Higher(t) \in SUBSET S
    OBVIOUS
  <2> HIDE DEF Higher
  <2> QED
    BY <1>1, <2>1, FS_Subset, FS_CardinalityType
<1>3. \A t \in S : Cardinality(Higher(t)) < n
  <2> SUFFICES ASSUME NEW t \in S PROVE Cardinality(Higher(t)) < n
    OBVIOUS
  <2>1. Higher(t) \in SUBSET S /\ t \notin Higher(t)
    BY AboveIsOrder
  <2> HIDE DEF Higher
  <2>2. Cardinality(Higher(t)) <= n /\ Cardinality(Higher(t)) # n
    BY <1>1, <2>1, FS_Subset
  <2> QED
    BY <1>1, <1>2, <2>2
<1>4. \A t, u \in S : Above(rows, t, u) => Cardinality(Higher(t)) < Cardinality(Higher(u))
  <2> SUFFICES ASSUME NEW t \in S, NEW u \in S, Above(rows, t, u)
               PROVE  Cardinality(Higher(t)) < Cardinality(Higher(u))
    OBVIOUS
  <2>1. Higher(t) \in SUBSET Higher(u)
    BY AboveIsOrder
  <2>2. t \in Higher(u) /\ t \notin Higher(t)
    BY AboveIsOrder
  <2> HIDE DEF Higher
  <2>3. /\ Cardinality(Higher(t)) <= Cardinality(Higher(u))
        /\ Cardinality(Higher(t)) # Cardinality(Higher(u))
    BY <1>2, <2>1, <2>2, FS_Subset
  <2> QED
    BY <1>2, <2>3
<1> HIDE DEF Higher
<1>5. rank \in [S -> 1..n]
  BY <1>1, <1>2, <1>3
<1>6. rank \in Injection(S, 1..n)
  <2>1. \A t, u \in S : rank[t] = rank[u] => t = u
    BY <1>2, <1>4, AboveIsOrder
  <2> QED
    BY <1>5, <2>1 DEF Injection, IsInjective
<1>7. IsFiniteSet(1..n) /\ Cardinality(1..n) = n
  BY <1>1, FS_Interval
<1>8. rank \in Surjection(S, 1..n)
  BY <1>6, <1>7, FS_Injection
<1>9. \A i \in 1..n : \E t \in S : rank[t] = i
  BY <1>8 DEF Surjection
<1> DEFINE s == [i \in 1..n |-> CHOOSE t \in S : rank[t] = i]
<1>10. \A i \in 1..n : s[i] \in S /\ rank[s[i]] = i
  BY <1>9
<1>11. s \in [1..n -> S]
  BY <1>10
<1>12. \A i, j \in 1..n : i < j => Above(rows, s[i], s[j])
  <2> SUFFICES ASSUME NEW i \in 1..n, NEW j \in 1..n, i < j
               PROVE  Above(rows, s[i], s[j])
    OBVIOUS
  <2>1. /\ s[i] \in S /\ Cardinality(Higher(s[i])) + 1 = i
        /\ s[j] \in S /\ Cardinality(Higher(s[j])) + 1 = j
    BY <1>10
  <2> HIDE DEF s, rank
  <2>2. s[i] # s[j]
    BY <2>1
  <2>3. ~Above(rows, s[j], s[i])
    BY <1>2, <1>4, <2>1
  <2> QED
    BY <2>1, <2>2, <2>3, AboveIsOrder
<1> HIDE DEF s
<1> QED
  BY <1>11, <1>12

LEMMA SortedLists ==
  ASSUME NEW rows, NEW S \in SUBSET Tasks, Sortable(rows, S)
  PROVE  Lists(Sorted(rows, S), S, rows)
<1> DEFINE n == Cardinality(S)
<1> DEFINE s == Sorted(rows, S)
<1>1. /\ s \in [1..n -> S]
      /\ \A i, j \in DOMAIN s : i < j => Above(rows, s[i], s[j])
  BY ListExists DEF Sorted
<1>2. IsFiniteSet(S) /\ n \in Nat
  BY BoardAssumption, FS_Subset, FS_CardinalityType
<1> HIDE DEF s
<1>3. s \in Seq(Tasks) /\ DOMAIN s = 1..n
  BY <1>1, <1>2
<1>4. \A i, j \in 1..n : s[i] = s[j] => i = j
  <2> SUFFICES ASSUME NEW i \in 1..n, NEW j \in 1..n, s[i] = s[j], i < j PROVE FALSE
    BY <1>2
  <2>1. Above(rows, s[i], s[i]) /\ s[i] \in S
    BY <1>1, <1>3
  <2> QED
    BY <2>1, AboveIsOrder
<1>5. s \in Injection(1..n, S)
  BY <1>1, <1>3, <1>4 DEF Injection, IsInjective
<1>6. IsFiniteSet(1..n) /\ Cardinality(1..n) = n
  BY <1>2, FS_Interval
<1>7. s \in Surjection(1..n, S)
  BY <1>2, <1>5, <1>6, FS_Injection
<1>8. Enumerates(s, S)
  BY <1>1, <1>3, <1>5, <1>7 DEF Enumerates, ToSet, Injection, Surjection
<1> QED
  BY <1>1, <1>3, <1>8 DEF Lists, InOrder, s

(* So a list of a set of rows is what Sorted returns. *)
LEMMA ListIsSorted ==
  ASSUME NEW rows, NEW S \in SUBSET Tasks, Sortable(rows, S),
         NEW s, Lists(s, S, rows)
  PROVE  Sorted(rows, S) = s
  BY SortedLists, OneList

-----------------------------------------------------------------------------
(* A task taken out of a list *)

LEMMA StandingTasks == \A rows, c : Standing(rows, c) \in SUBSET Tasks
  BY DEF Standing

(* The elements of a list without the one at place k. *)
LEMMA Removed ==
  ASSUME NEW s \in Seq(Tasks), NEW k \in 1..Len(s)
  PROVE  /\ RemoveAt(s, k) \in Seq(Tasks)
         /\ Len(RemoveAt(s, k)) = Len(s) - 1
         /\ \A i \in 1..Len(s) - 1 :
              RemoveAt(s, k)[i] = IF i < k THEN s[i] ELSE s[i + 1]
<1> DEFINE a == SubSeq(s, 1, k - 1)
<1> DEFINE b == SubSeq(s, k + 1, Len(s))
<1>1. /\ a \in Seq(Tasks) /\ Len(a) = k - 1
      /\ \A i \in 1..k - 1 : a[i] = s[i]
  BY SubSeqProperties
<1>2. /\ b \in Seq(Tasks) /\ Len(b) = Len(s) - k
      /\ \A i \in 1..Len(s) - k : b[i] = s[k + i]
  BY SubSeqProperties
<1>3. RemoveAt(s, k) = a \o b
  BY DEF RemoveAt
<1> HIDE DEF a, b
<1>4. /\ a \o b \in Seq(Tasks)
      /\ Len(a \o b) = Len(s) - 1
      /\ \A i \in 1..Len(s) - 1 :
           (a \o b)[i] = IF i <= k - 1 THEN a[i] ELSE b[i - (k - 1)]
  BY <1>1, <1>2, ConcatProperties
<1>5. \A i \in 1..Len(s) - 1 : (a \o b)[i] = IF i < k THEN s[i] ELSE s[i + 1]
  BY <1>1, <1>2, <1>4
<1> QED
  BY <1>3, <1>4, <1>5

LEMMA Inserted ==
  ASSUME NEW s \in Seq(Tasks), NEW k \in 1..Len(s) + 1, NEW t \in Tasks
  PROVE  /\ InsertAt(s, k, t) \in Seq(Tasks)
         /\ Len(InsertAt(s, k, t)) = Len(s) + 1
         /\ \A i \in 1..Len(s) + 1 :
              InsertAt(s, k, t)[i] =
                 IF i < k THEN s[i] ELSE IF i = k THEN t ELSE s[i - 1]
<1> DEFINE a == SubSeq(s, 1, k - 1)
<1> DEFINE b == SubSeq(s, k, Len(s))
<1>1. /\ a \in Seq(Tasks) /\ Len(a) = k - 1
      /\ \A i \in 1..k - 1 : a[i] = s[i]
  BY SubSeqProperties
<1>2. /\ b \in Seq(Tasks) /\ Len(b) = Len(s) - k + 1
      /\ \A i \in 1..Len(s) - k + 1 : b[i] = s[k + i - 1]
  BY SubSeqProperties
<1>3. InsertAt(s, k, t) = (a \o <<t>>) \o b
  BY DEF InsertAt
<1> HIDE DEF a, b
<1>4. /\ <<t>> \in Seq(Tasks) /\ Len(<<t>>) = 1 /\ <<t>>[1] = t
  OBVIOUS
<1> DEFINE c == a \o <<t>>
<1>5. /\ c \in Seq(Tasks) /\ Len(c) = k
      /\ \A i \in 1..k : c[i] = IF i <= k - 1 THEN a[i] ELSE t
  BY <1>1, <1>4, ConcatProperties
<1> HIDE DEF c
<1>6. /\ c \o b \in Seq(Tasks)
      /\ Len(c \o b) = Len(s) + 1
      /\ \A i \in 1..Len(s) + 1 : (c \o b)[i] = IF i <= k THEN c[i] ELSE b[i - k]
  BY <1>2, <1>5, ConcatProperties
<1>7. \A i \in 1..Len(s) + 1 :
         (c \o b)[i] = IF i < k THEN s[i] ELSE IF i = k THEN t ELSE s[i - 1]
  BY <1>1, <1>2, <1>5, <1>6
<1> QED
  BY <1>3, <1>6, <1>7 DEF c

(* What is taken out and put back in its place. *)
LEMMA PutBack ==
  ASSUME NEW s \in Seq(Tasks), NEW k \in 1..Len(s)
  PROVE  InsertAt(RemoveAt(s, k), k, s[k]) = s
<1> DEFINE q == RemoveAt(s, k)
<1>1. /\ q \in Seq(Tasks) /\ Len(q) = Len(s) - 1
      /\ \A i \in 1..Len(s) - 1 : q[i] = IF i < k THEN s[i] ELSE s[i + 1]
  BY Removed
<1> HIDE DEF q
<1>2. k \in 1..Len(q) + 1 /\ s[k] \in Tasks
  BY <1>1, ElementOfSeq
<1>3. /\ InsertAt(q, k, s[k]) \in Seq(Tasks)
      /\ Len(InsertAt(q, k, s[k])) = Len(q) + 1
      /\ \A i \in 1..Len(q) + 1 : InsertAt(q, k, s[k])[i] =
              IF i < k THEN q[i] ELSE IF i = k THEN s[k] ELSE q[i - 1]
  <2> DEFINE t == s[k]
  <2>1. t \in Tasks
    BY <1>2
  <2> HIDE DEF t
  <2>2. /\ InsertAt(q, k, t) \in Seq(Tasks)
        /\ Len(InsertAt(q, k, t)) = Len(q) + 1
        /\ \A i \in 1..Len(q) + 1 : InsertAt(q, k, t)[i] =
              IF i < k THEN q[i] ELSE IF i = k THEN t ELSE q[i - 1]
    BY <1>1, <1>2, <2>1, Inserted
  <2> QED
    BY <2>2 DEF t
<1>4. Len(s) \in Nat /\ Len(q) + 1 = Len(s)
  BY <1>1
<1>5. \A i \in 1..Len(s) : InsertAt(q, k, s[k])[i] = s[i]
  <2> SUFFICES ASSUME NEW i \in 1..Len(s) PROVE InsertAt(q, k, s[k])[i] = s[i]
    OBVIOUS
  <2>1. InsertAt(q, k, s[k])[i] =
           IF i < k THEN q[i] ELSE IF i = k THEN s[k] ELSE q[i - 1]
    BY <1>3, <1>4
  <2>2. i < k => i \in 1..Len(s) - 1
    BY <1>4
  <2>3. i > k => i - 1 \in 1..Len(s) - 1 /\ ~(i - 1 < k) /\ (i - 1) + 1 = i
    BY <1>4
  <2> QED
    BY <1>1, <2>1, <2>2, <2>3
<1>6. Len(InsertAt(q, k, s[k])) = Len(s)
  BY <1>3, <1>4
<1> HIDE DEF q
<1>7. InsertAt(q, k, s[k]) = s
  BY <1>3, <1>5, <1>6, SeqEqual
<1> QED
  BY <1>7 DEF q

(* A list without a task lists the others. *)
LEMMA LessLists ==
  ASSUME NEW rows, NEW S \in SUBSET Tasks, NEW s, Lists(s, S, rows), NEW t \in Tasks
  PROVE  Lists(B!Less(s, t), S \ {t}, rows)
<1>1. s \in Seq(Tasks) /\ Enumerates(s, S) /\ InOrder(s, rows)
  BY DEF Lists
<1>2. /\ DOMAIN s = 1..Len(s) /\ Len(s) \in Nat
      /\ \A i \in 1..Len(s) : s[i] \in S /\ s[i] \in Tasks
      /\ \A u \in S : \E i \in 1..Len(s) : s[i] = u
      /\ \A i, j \in 1..Len(s) : s[i] = s[j] => i = j
  BY <1>1, ListElements
<1>3. t \in ToSet(s) <=> t \in S
  BY <1>1 DEF Enumerates
<1>4. CASE t \notin S
  BY <1>1, <1>3, <1>4 DEF B!Less, B!ToSet, ToSet, Lists
<1>5. CASE t \in S
  <2>1. PICK k \in 1..Len(s) : s[k] = t
    BY <1>2, <1>5
  <2> DEFINE q == RemoveAt(s, k)
  <2>2. (CHOOSE i \in DOMAIN s : s[i] = t) = k
    BY <1>2, <2>1
  <2>3. B!Less(s, t) = q
    BY <1>3, <1>5, <2>2 DEF B!Less, B!ToSet, ToSet, B!RemoveAt, RemoveAt
  <2>4. /\ q \in Seq(Tasks) /\ Len(q) = Len(s) - 1
        /\ \A i \in 1..Len(s) - 1 : q[i] = IF i < k THEN s[i] ELSE s[i + 1]
    BY <1>1, Removed
  <2> HIDE DEF q
  <2>5. DOMAIN q = 1..Len(s) - 1
    BY <2>4, LenProperties
  <2>6. \A i \in 1..Len(s) - 1 : q[i] \in S \ {t}
    BY <1>2, <2>1, <2>4
  <2>7. \A u \in S \ {t} : \E i \in 1..Len(s) - 1 : q[i] = u
    <3> SUFFICES ASSUME NEW u \in S \ {t} PROVE \E i \in 1..Len(s) - 1 : q[i] = u
      OBVIOUS
    <3>1. PICK i \in 1..Len(s) : s[i] = u
      BY <1>2
    <3>2. CASE i < k
      BY <1>2, <2>4, <3>1, <3>2
    <3>3. CASE i > k
      <4>1. i - 1 \in 1..Len(s) - 1 /\ ~(i - 1 < k) /\ (i - 1) + 1 = i
        BY <1>2, <3>3
      <4> QED
        BY <2>4, <3>1, <4>1
    <3> QED
      BY <1>2, <2>1, <3>1, <3>2, <3>3
  <2>8. \A i, j \in 1..Len(s) - 1 : q[i] = q[j] => i = j
    BY <1>2, <2>1, <2>4
  <2>9. Enumerates(q, S \ {t})
    <3>1. ToSet(q) = S \ {t}
      BY <2>5, <2>6, <2>7 DEF ToSet
    <3>2. IsInjective(q)
      BY <2>5, <2>8 DEF IsInjective
    <3> QED
      BY <3>1, <3>2 DEF Enumerates
  <2>10. InOrder(q, rows)
    <3> SUFFICES ASSUME NEW i \in 1..Len(s) - 1, NEW j \in 1..Len(s) - 1, i < j
                 PROVE  Above(rows, q[i], q[j])
      BY <2>5 DEF InOrder
    <3>1. \A m, n \in 1..Len(s) : m < n => Above(rows, s[m], s[n])
      BY <1>1, <1>2 DEF InOrder
    <3>2. i \in 1..Len(s) /\ i + 1 \in 1..Len(s) /\ j \in 1..Len(s) /\ j + 1 \in 1..Len(s)
      BY <1>2
    <3>3. (IF i < k THEN i ELSE i + 1) < (IF j < k THEN j ELSE j + 1)
      BY <1>2
    <3> QED
      BY <2>4, <3>1, <3>2, <3>3
  <2> QED
    BY <2>3, <2>4, <2>9, <2>10 DEF Lists
<1> QED
  BY <1>4, <1>5

Rows == [Tasks -> Row \cup {Unborn, Gone}]

LEMMA RowValue ==
  ASSUME NEW rows \in Rows, NEW t \in Tasks
  PROVE  /\ rows[t].at = "there" => rows[t] \in Row
         /\ rows[t] \in Row => /\ rows[t].at = "there"
                               /\ rows[t].column \in Columns
                               /\ rows[t].sortOrder \in Int
         /\ rows[t].at \in {"there", "unborn", "gone"}
  BY DEF Rows, Row, Unborn, Gone

LEMMA RowsSortable ==
  ASSUME NEW rows \in Rows, NEW c, NEW S \in SUBSET Standing(rows, c)
  PROVE  S \in SUBSET Tasks /\ Sortable(rows, S)
  BY RowValue DEF Sortable, Standing

LEMMA ColumnLists ==
  ASSUME NEW rows \in Rows, NEW c
  PROVE  Lists(Column(rows, c), Standing(rows, c), rows)
  BY RowsSortable, StandingTasks, SortedLists DEF Column

(* When only t moves, the other tasks of a column keep their list. *)
LEMMA OthersListed ==
  ASSUME NEW a \in Rows, NEW b \in Rows, NEW c, NEW t \in Tasks,
         Standing(b, c) \ {t} = Standing(a, c) \ {t},
         \A u, v \in Standing(a, c) \ {t} : Above(b, u, v) <=> Above(a, u, v)
  PROVE  B!Less(Column(b, c), t) = B!Less(Column(a, c), t)
<1> DEFINE S == Standing(a, c) \ {t}
<1>1. S \in SUBSET Tasks /\ Sortable(a, S)
  BY RowsSortable
<1>2. Lists(B!Less(Column(a, c), t), S, a)
  BY ColumnLists, StandingTasks, LessLists
<1>3. Lists(B!Less(Column(b, c), t), S, b)
  BY ColumnLists, StandingTasks, LessLists
<1> DEFINE q == B!Less(Column(b, c), t)
<1>4. q \in Seq(Tasks) /\ Enumerates(q, S) /\ InOrder(q, b)
  BY <1>3 DEF Lists
<1> HIDE DEF q
<1>5. DOMAIN q = 1..Len(q) /\ \A i \in 1..Len(q) : q[i] \in S
  BY <1>4, ListElements
<1>6. Lists(q, S, a)
  BY <1>4, <1>5 DEF InOrder, Lists
<1> HIDE DEF S
<1> QED
  BY <1>1, <1>2, <1>6, OneList DEF q

(* t stands somewhere among the others of its column, or not there. *)
LEMMA AmongOthers ==
  ASSUME NEW rows \in Rows, NEW c, NEW t \in Tasks
  PROVE  LET s == Column(rows, c)
             q == B!Less(s, t)
         IN  /\ t \notin Standing(rows, c) => q = s
             /\ t \in Standing(rows, c) =>
                  \E k \in 1..Len(q) + 1 : s = InsertAt(q, k, t)
<1> DEFINE s == Column(rows, c)
<1>1. s \in Seq(Tasks) /\ Enumerates(s, Standing(rows, c))
  BY ColumnLists DEF Lists
<1> HIDE DEF s
<1>2. t \in ToSet(s) <=> t \in Standing(rows, c)
  BY <1>1 DEF Enumerates
<1>3. CASE t \notin Standing(rows, c)
  BY <1>2, <1>3 DEF B!Less, B!ToSet, ToSet, s
<1>4. CASE t \in Standing(rows, c)
  <2>1. /\ DOMAIN s = 1..Len(s) /\ Len(s) \in Nat
        /\ \E i \in 1..Len(s) : s[i] = t
        /\ \A i, j \in 1..Len(s) : s[i] = s[j] => i = j
    BY <1>1, <1>4, ListElements
  <2>2. PICK k \in 1..Len(s) : s[k] = t
    BY <2>1
  <2>3. (CHOOSE i \in DOMAIN s : s[i] = t) = k
    BY <2>1, <2>2
  <2>4. B!Less(s, t) = RemoveAt(s, k)
    BY <1>2, <1>4, <2>3 DEF B!Less, B!ToSet, ToSet, B!RemoveAt, RemoveAt
  <2>5. InsertAt(RemoveAt(s, k), k, t) = s
    <3>1. InsertAt(RemoveAt(s, k), k, s[k]) = s
      BY <1>1, PutBack
    <3> QED
      BY <2>2, <3>1
  <2>6. Len(RemoveAt(s, k)) = Len(s) - 1
    BY <1>1, Removed
  <2>7. k \in 1..Len(B!Less(s, t)) + 1 /\ s = InsertAt(B!Less(s, t), k, t)
    <3>1. Len(RemoveAt(s, k)) + 1 = Len(s)
      BY <2>1, <2>6
    <3> QED
      BY <2>2, <2>4, <2>5, <3>1
  <2> QED
    BY <1>4, <2>7 DEF s
<1> QED
  BY <1>3, <1>4

(* t stands at most once. *)
LEMMA OneColumn ==
  ASSUME NEW rows, NEW t, NEW c, NEW d, t \in Standing(rows, c), t \in Standing(rows, d)
  PROVE  c = d
  BY DEF Standing

(* A step that leaves the others where they were puts t somewhere or takes it
   off the board. *)
LEMMA BoardMoves ==
  ASSUME task \in Rows, task' \in Rows, NEW t \in Tasks,
         \A c \in Columns : Standing(task', c) \ {t} = Standing(task, c) \ {t},
         \A c \in Columns : \A u, v \in Standing(task, c) \ {t} :
            Above(task', u, v) <=> Above(task, u, v)
  PROVE  B!Put(t) \/ B!Take(t)
<1>1. BoardView' = [c \in Columns |-> Column(task', c)]
  BY DEF BoardView
<1>2. B!Without(t) = [c \in Columns |-> B!Less(Column(task, c), t)]
  BY DEF B!Without, BoardView
<1>3. \A c \in Columns : B!Less(Column(task', c), t) = B!Less(Column(task, c), t)
  BY OthersListed
<1>4. CASE \E c \in Columns : t \in Standing(task', c)
  <2>1. PICK c \in Columns : t \in Standing(task', c)
    BY <1>4
  <2> DEFINE q == B!Less(Column(task, c), t)
  <2>2. PICK k \in 1..Len(q) + 1 : Column(task', c) = InsertAt(q, k, t)
    BY <1>3, <2>1, AmongOthers
  <2>3. \A d \in Columns \ {c} : Column(task', d) = B!Less(Column(task, d), t)
    <3> SUFFICES ASSUME NEW d \in Columns \ {c}
                 PROVE  Column(task', d) = B!Less(Column(task, d), t)
      OBVIOUS
    <3>1. t \notin Standing(task', d)
      BY <2>1, OneColumn
    <3> QED
      BY <1>3, <3>1, AmongOthers
  <2>4. B!Without(t)[c] = q
    BY <1>2
  <2>5. BoardView' = [B!Without(t) EXCEPT ![c] = InsertAt(q, k, t)]
    BY <1>1, <1>2, <2>2, <2>3
  <2>6. k \in 1..Len(B!Without(t)[c]) + 1
    BY <2>2, <2>4
  <2>7. BoardView' = [B!Without(t) EXCEPT ![c] = B!InsertAt(B!Without(t)[c], k, t)]
    BY <2>4, <2>5 DEF B!InsertAt, InsertAt
  <2> QED
    BY <2>6, <2>7 DEF B!Put
<1>5. CASE \A c \in Columns : t \notin Standing(task', c)
  <2>1. \A c \in Columns : Column(task', c) = B!Less(Column(task, c), t)
    BY <1>3, <1>5, AmongOthers
  <2> QED
    BY <1>1, <1>2, <2>1 DEF B!Take
<1> QED
  BY <1>4, <1>5


-----------------------------------------------------------------------------
(* Types and locks *)

LEMMA MoveFields ==
  ASSUME NEW m \in Move
  PROVE  /\ m.op \in Ops /\ m.task \in Tasks /\ m.from \in Columns
         /\ m.column \in Columns /\ m.position \in Positions
         /\ m.queue \in Seq(Tasks) /\ m.next \in Nat
         /\ m.written \in [Tasks -> Row \cup {None}] /\ m.overtaken \in BOOLEAN
  BY DEF Move

LEMMA MovingOrIdle ==
  ASSUME TypeOK, NEW r \in Requests
  PROVE  /\ Moving(r) <=> request[r] \in Move
         /\ ~Moving(r) => request[r] = Idle
<1>1. request[r] \in Move \cup {Idle}
  BY DEF TypeOK
<1>2. Idle.op \notin Ops
  BY DEF Idle, Ops
<1> QED
  BY <1>1, <1>2, MoveFields DEF Moving

LEMMA OvertakenMove ==
  ASSUME NEW m \in Move
  PROVE  LET n == [m EXCEPT !.overtaken = TRUE]
         IN  /\ n \in Move
             /\ n.op = m.op /\ n.task = m.task /\ n.from = m.from
             /\ n.column = m.column /\ n.position = m.position
             /\ n.queue = m.queue /\ n.next = m.next
             /\ n.written = m.written /\ n.overtaken
  BY DEF Move

LEMMA WrittenMove ==
  ASSUME NEW m \in Move, NEW t \in Tasks, NEW row \in Row
  PROVE  LET n == [m EXCEPT !.written[t] = row]
         IN  /\ n \in Move
             /\ n.op = m.op /\ n.task = m.task /\ n.from = m.from
             /\ n.column = m.column /\ n.position = m.position
             /\ n.queue = m.queue /\ n.next = m.next
             /\ n.written = [m.written EXCEPT ![t] = row]
             /\ n.overtaken = m.overtaken
  BY DEF Move

(* A transaction reads a row wherever one is committed. *)
LEMMA ViewType ==
  ASSUME TypeOK, NEW r \in Requests, Moving(r)
  PROVE  /\ View(r) \in Rows
         /\ \A t \in Tasks : View(r)[t].at = "there" <=> Exists(t)
         /\ \A t \in Tasks : Exists(t) => View(r)[t] \in Row
<1>1. task \in Rows
  BY DEF TypeOK, Rows
<1>2. request[r] \in Move
  BY MovingOrIdle
<1>3. \A t \in Tasks : request[r].written[t] \in Row \cup {None}
  BY <1>2, MoveFields
<1>4. View(r) \in Rows
  BY <1>1, <1>3 DEF View, Rows
<1>5. \A t \in Tasks : request[r].written[t] # None => Exists(t)
  BY NoneAssumption DEF TypeOK
<1>6. \A t \in Tasks : View(r)[t].at = "there" <=> Exists(t)
  <2> SUFFICES ASSUME NEW t \in Tasks PROVE View(r)[t].at = "there" <=> Exists(t)
    OBVIOUS
  <2>1. CASE request[r].written[t] = None
    BY <2>1 DEF View, Exists
  <2>2. CASE request[r].written[t] # None
    BY <1>3, <1>4, <1>5, <2>2, RowValue DEF View, Row
  <2> QED
    BY <2>1, <2>2
<1> QED
  BY <1>4, <1>6, RowValue

(* What overtaking changes. *)
LEMMA OvertakeFrame ==
  ASSUME TypeOK, Overtake, NEW r \in Requests
  PROVE  /\ request'[r] \in Move \cup {Idle}
         /\ Moving(r)' <=> Moving(r)
         /\ Moving(r) => /\ request'[r].overtaken
                         /\ request'[r].task = request[r].task
                         /\ request'[r].op = request[r].op
                         /\ request'[r].next = request[r].next
                         /\ request'[r].written = request[r].written
<1>1. request'[r] = IF Moving(r) THEN [request[r] EXCEPT !.overtaken = TRUE] ELSE request[r]
  BY DEF Overtake
<1>2. CASE Moving(r)
  BY <1>1, <1>2, MovingOrIdle, OvertakenMove DEF Moving
<1>3. CASE ~Moving(r)
  BY <1>1, <1>3, MovingOrIdle DEF Moving
<1> QED
  BY <1>2, <1>3

(* The transactions that go on keep their rows and the locks on them. *)
LEMMA OvertakeKeepsLocks ==
  ASSUME TypeOK, Overtake, UNCHANGED lock
  PROVE  /\ request' \in [Requests -> Move \cup {Idle}]
         /\ \A r \in Requests, t \in Tasks :
              lock'[t] = r <=> Moving(r)' /\ request'[r].written[t] # None
<1>1. request' \in [Requests -> Move \cup {Idle}]
  <2>1. DOMAIN request' = Requests /\ request' = [r \in Requests |-> request'[r]]
    BY DEF Overtake
  <2> QED
    BY <2>1, OvertakeFrame
<1>2. ASSUME NEW r \in Requests, NEW t \in Tasks
      PROVE  lock'[t] = r <=> Moving(r)' /\ request'[r].written[t] # None
  <2>1. lock[t] = r <=> Moving(r) /\ request[r].written[t] # None
    BY DEF TypeOK
  <2> QED
    BY <2>1, OvertakeFrame
<1> QED
  BY <1>1, <1>2

(* What a transaction remembers is its own business. *)
LEMMA RememberFrame ==
  ASSUME TypeOK, NEW r \in Requests, NEW m \in Move \cup {Idle}, Remember(r, m)
  PROVE  /\ request' \in [Requests -> Move \cup {Idle}]
         /\ request'[r] = m
         /\ \A s \in Requests \ {r} :
              request'[s] = request[s] /\ (Moving(s)' <=> Moving(s))
  BY DEF TypeOK, Remember, Moving

(* What an update by id leaves behind: m with the row, if there is one, and its lock. *)
Wrote(r, t, row, m) ==
    /\ request' \in [Requests -> Move \cup {Idle}]
    /\ \A s \in Requests \ {r} :
         request'[s] = request[s] /\ (Moving(s)' <=> Moving(s))
    /\ request'[r] \in Move /\ Moving(r)'
    /\ request'[r].op = m.op /\ request'[r].task = m.task
    /\ request'[r].from = m.from /\ request'[r].column = m.column
    /\ request'[r].position = m.position /\ request'[r].queue = m.queue
    /\ request'[r].next = m.next /\ request'[r].overtaken = m.overtaken
    /\ request'[r].written =
         IF Exists(t) THEN [request[r].written EXCEPT ![t] = row]
         ELSE request[r].written
    /\ lock' = IF Exists(t) THEN [lock EXCEPT ![t] = r] ELSE lock
    /\ lock[t] \in {None, r}

LEMMA WriteFrame ==
  ASSUME TypeOK, NEW r \in Requests, Moving(r), NEW t \in Tasks, NEW row,
         Exists(t) => row \in Row,
         NEW m \in Move, m.written = request[r].written,
         Write(r, t, row, m)
  PROVE  Wrote(r, t, row, m)
<1>1. CASE Exists(t)
  <2> DEFINE n == [m EXCEPT !.written[t] = row]
  <2>1. /\ n \in Move
        /\ n.op = m.op /\ n.task = m.task /\ n.from = m.from
        /\ n.column = m.column /\ n.position = m.position
        /\ n.queue = m.queue /\ n.next = m.next
        /\ n.written = [m.written EXCEPT ![t] = row]
        /\ n.overtaken = m.overtaken
    BY <1>1, WrittenMove
  <2>2. Remember(r, n) /\ lock' = [lock EXCEPT ![t] = r] /\ lock[t] \in {None, r}
    BY <1>1 DEF Write
  <2> HIDE DEF n
  <2>3. /\ request' \in [Requests -> Move \cup {Idle}]
        /\ request'[r] = n
        /\ \A s \in Requests \ {r} :
             request'[s] = request[s] /\ (Moving(s)' <=> Moving(s))
    BY <2>1, <2>2, RememberFrame
  <2>4. n.op \in Ops
    BY <2>1, MoveFields
  <2> QED
    BY <1>1, <2>1, <2>2, <2>3, <2>4 DEF Moving, Wrote
<1>2. CASE ~Exists(t)
  <2>1. Remember(r, m) /\ lock' = lock /\ lock[t] \in {None, r}
    BY <1>2 DEF Write
  <2>2. /\ request' \in [Requests -> Move \cup {Idle}]
        /\ request'[r] = m
        /\ \A s \in Requests \ {r} :
             request'[s] = request[s] /\ (Moving(s)' <=> Moving(s))
    BY <2>1, RememberFrame
  <2> QED
    BY <1>2, <2>1, <2>2, MoveFields DEF Moving, Wrote
<1> QED
  BY <1>1, <1>2

LEMMA ThereIsRow ==
  ASSUME NEW c \in Columns, NEW n \in Int
  PROVE  There(c, n) \in Row /\ There(c, n).at = "there"
         /\ There(c, n).column = c /\ There(c, n).sortOrder = n
  BY DEF There, Row

(* The columns of a project, one for each status. *)
LEMMA WithStatusColumn ==
  ASSUME NEW c \in Columns, NEW status
  PROVE  /\ WithStatus(c, status)[2] = status
         /\ status \in Statuses => WithStatus(c, status) \in Columns
         /\ c[2] \in Statuses
  BY DEF Columns, WithStatus

(* The end of a transaction frees its rows and no others. *)
LEMMA ReleaseFrame ==
  ASSUME TypeOK, NEW r \in Requests, Release(r)
  PROVE  /\ lock' \in [Tasks -> Requests \cup {None}]
         /\ \A t \in Tasks : lock'[t] # r
         /\ \A t \in Tasks, s \in Requests \ {r} : lock'[t] = s <=> lock[t] = s
         /\ \A t \in Tasks : lock'[t] # None => lock[t] # None
  BY NoneAssumption DEF TypeOK, Release

(* What a commit leaves of the others' memory. *)
LEMMA CommitFrame ==
  ASSUME TypeOK, NEW r \in Requests, MoveCommits(r)
  PROVE  /\ request' \in [Requests -> Move \cup {Idle}]
         /\ ~Moving(r)'
         /\ \A s \in Requests \ {r} :
              /\ Moving(s)' <=> Moving(s)
              /\ Moving(s) => /\ request'[s].overtaken
                              /\ request'[s].task = request[s].task
                              /\ request'[s].op = request[s].op
                              /\ request'[s].next = request[s].next
                              /\ request'[s].written = request[s].written
<1>1. request' = [s \in Requests |->
           IF s = r THEN Idle
           ELSE IF Moving(s) THEN [request[s] EXCEPT !.overtaken = TRUE]
           ELSE request[s]]
  BY DEF MoveCommits
<1>2. request'[r] = Idle
  BY <1>1
<1>3. ASSUME NEW s \in Requests \ {r}
      PROVE  /\ request'[s] \in Move \cup {Idle}
             /\ Moving(s)' <=> Moving(s)
             /\ Moving(s) => /\ request'[s].overtaken
                             /\ request'[s].task = request[s].task
                             /\ request'[s].op = request[s].op
                             /\ request'[s].next = request[s].next
                             /\ request'[s].written = request[s].written
  <2>1. request'[s] =
           IF Moving(s) THEN [request[s] EXCEPT !.overtaken = TRUE] ELSE request[s]
    BY <1>1
  <2>2. CASE Moving(s)
    BY <2>1, <2>2, MovingOrIdle, OvertakenMove DEF Moving
  <2>3. CASE ~Moving(s)
    BY <2>1, <2>3, MovingOrIdle DEF Moving
  <2> QED
    BY <2>2, <2>3
<1>4. request' \in [Requests -> Move \cup {Idle}]
  BY <1>1, <1>2, <1>3
<1> QED
  BY <1>2, <1>3, <1>4 DEF Moving, Idle, Ops

LEMMA TypeInit == Init => TypeOK
<1> SUFFICES ASSUME Init PROVE TypeOK
  OBVIOUS
<1>1. \A r \in Requests : ~Moving(r)
  BY DEF Init, Moving, Idle, Ops
<1>2. task \in [Tasks -> Row \cup {Unborn, Gone}]
  BY DEF Init
<1> QED
  BY <1>1, <1>2, BoardAssumption, NoneAssumption DEF TypeOK, Init

(* The operations that commit a row at once. *)
LEMMA RowChangesType ==
  ASSUME TypeOK, NEW t \in Tasks, NEW row \in Row \cup {Unborn, Gone},
         task' = [task EXCEPT ![t] = row], lock[t] = None \/ row \in Row,
         Overtake, UNCHANGED lock, changes' \in 0..MaxChanges
  PROVE  TypeOK'
<1>1. task' \in [Tasks -> Row \cup {Unborn, Gone}]
  BY DEF TypeOK
<1>2. \A u \in Tasks : lock'[u] # None => Exists(u)'
  BY <1>1, RowValue DEF TypeOK, Exists, Row
<1> QED
  BY <1>1, <1>2, OvertakeKeepsLocks DEF TypeOK

(* The steps of a transaction that has not ended. *)
LEMMA MoveGoesOnType ==
  ASSUME TypeOK, NEW r \in Requests, NEW t \in Tasks,
         UNCHANGED task, changes' \in 0..MaxChanges,
         request' \in [Requests -> Move \cup {Idle}],
         \A s \in Requests \ {r} :
            request'[s] = request[s] /\ (Moving(s)' <=> Moving(s)),
         lock' \in [Tasks -> Requests \cup {None}],
         \A u \in Tasks, s \in Requests \ {r} : lock'[u] = s <=> lock[u] = s,
         \A u \in Tasks : lock'[u] = r <=> Moving(r)' /\ request'[r].written[u] # None,
         \A u \in Tasks : lock'[u] = r => Exists(u)
  PROVE  TypeOK'
<1>1. \A s \in Requests, u \in Tasks :
         lock'[u] = s <=> Moving(s)' /\ request'[s].written[u] # None
  BY DEF TypeOK
<1>2. \A u \in Tasks : lock'[u] # None => Exists(u)'
  <2> SUFFICES ASSUME NEW u \in Tasks, lock'[u] # None PROVE Exists(u)
    BY DEF Exists
  <2>1. PICK s \in Requests : lock'[u] = s
    OBVIOUS
  <2>2. CASE s = r
    BY <2>1, <2>2
  <2>3. CASE s # r
    BY <2>1, <2>3, NoneAssumption DEF TypeOK
  <2> QED
    BY <2>2, <2>3
<1> QED
  BY <1>1, <1>2 DEF TypeOK

(* A step that writes nothing. *)
LEMMA MoveReadsType ==
  ASSUME TypeOK, NEW r \in Requests, NEW m \in Move, Remember(r, m),
         UNCHANGED <<task, lock>>, changes' \in 0..MaxChanges,
         \/ Moving(r) /\ m.written = request[r].written
         \/ ~Moving(r) /\ \A u \in Tasks : m.written[u] = None
  PROVE  TypeOK'
<1>1. /\ request' \in [Requests -> Move \cup {Idle}]
      /\ request'[r] = m
      /\ \A s \in Requests \ {r} :
           request'[s] = request[s] /\ (Moving(s)' <=> Moving(s))
  BY RememberFrame
<1>2. Moving(r)'
  BY <1>1, MoveFields DEF Moving
<1>3. \A s \in Requests, u \in Tasks :
         lock'[u] = s <=> Moving(s)' /\ request'[s].written[u] # None
  BY <1>1, <1>2 DEF TypeOK
<1> QED
  BY <1>1, <1>3 DEF TypeOK, Exists

LEMMA MoveWritesType ==
  ASSUME TypeOK, NEW r \in Requests, Moving(r), NEW t \in Tasks, NEW row,
         Exists(t) => row \in Row,
         NEW m \in Move, m.written = request[r].written,
         Write(r, t, row, m), UNCHANGED <<task, changes>>
  PROVE  TypeOK'
<1>1. /\ request' \in [Requests -> Move \cup {Idle}]
      /\ \A s \in Requests \ {r} :
           request'[s] = request[s] /\ (Moving(s)' <=> Moving(s))
      /\ request'[r] \in Move /\ Moving(r)'
      /\ request'[r].written =
           IF Exists(t) THEN [request[r].written EXCEPT ![t] = row]
           ELSE request[r].written
      /\ lock' = IF Exists(t) THEN [lock EXCEPT ![t] = r] ELSE lock
      /\ lock[t] \in {None, r}
  BY WriteFrame DEF Wrote
<1>2. /\ lock \in [Tasks -> Requests \cup {None}]
      /\ \A u \in Tasks : lock[u] = r <=> request[r].written[u] # None
      /\ \A u \in Tasks : lock[u] # None => Exists(u)
      /\ changes \in 0..MaxChanges
  BY DEF TypeOK
<1>3. request[r].written \in [Tasks -> Row \cup {None}]
  BY MovingOrIdle, MoveFields
<1>4. lock' \in [Tasks -> Requests \cup {None}]
  BY <1>1, <1>2
<1>5. \A u \in Tasks, s \in Requests \ {r} : lock'[u] = s <=> lock[u] = s
  BY <1>1, <1>2, NoneAssumption
<1>6. \A u \in Tasks : lock'[u] = r <=> request'[r].written[u] # None
  BY <1>1, <1>2, <1>3, NoneAssumption
<1>7. \A u \in Tasks : lock'[u] = r => Exists(u)
  BY <1>1, <1>2, NoneAssumption
<1> QED
  BY <1>1, <1>2, <1>4, <1>5, <1>6, <1>7, MoveGoesOnType

(* A column without the task that moves, as the transaction reads it. *)
LEMMA OthersLists ==
  ASSUME TypeOK, NEW r \in Requests, Moving(r), NEW c
  PROVE  Lists(Others(r, c), Standing(View(r), c) \ {request[r].task}, View(r))
<1>1. View(r) \in Rows
  BY ViewType
<1>2. Standing(View(r), c) \ {request[r].task} \in SUBSET Standing(View(r), c)
  OBVIOUS
<1> QED
  BY <1>1, <1>2, RowsSortable, SortedLists DEF Others

LEMMA ClampBounds ==
  ASSUME NEW p \in Int, NEW n \in Nat
  PROVE  Clamp(p, n) \in 0..n
  BY DEF Clamp

(* The task dropped among the others. *)
LEMMA PlaceInList ==
  ASSUME NEW s \in Seq(Tasks), NEW p \in Int, NEW t \in Tasks
  PROVE  /\ Clamp(p, Len(s)) + 1 \in 1..Len(s) + 1
         /\ InsertAt(s, Clamp(p, Len(s)) + 1, t) \in Seq(Tasks)
<1> DEFINE n == Len(s)
<1>0. n \in Nat
  OBVIOUS
<1> HIDE DEF n
<1>1. Clamp(p, n) + 1 \in 1..n + 1
  <2>1. Clamp(p, n) \in 0..n
    BY <1>0, ClampBounds
  <2> QED
    BY <1>0, <2>1
<1> USE DEF n
<1> QED
  BY <1>1, Inserted

LEMMA RenumberingMove ==
  ASSUME NEW m \in Move, Tail(m.queue) \in Seq(Tasks)
  PROVE  LET n == [m EXCEPT !.queue = Tail(@), !.next = @ + 1]
         IN  /\ n \in Move
             /\ n.op = m.op /\ n.task = m.task /\ n.from = m.from
             /\ n.column = m.column /\ n.position = m.position
             /\ n.queue = Tail(m.queue) /\ n.next = m.next + 1
             /\ n.written = m.written /\ n.overtaken = m.overtaken
<1> DEFINE q == Tail(m.queue)
<1> DEFINE k == m.next + 1
<1>1. q \in Seq(Tasks) /\ k \in Nat
  BY MoveFields
<1>2. [m EXCEPT !.queue = Tail(@), !.next = @ + 1] = [m EXCEPT !.queue = q, !.next = k]
  BY DEF Move
<1> HIDE DEF q, k
<1>3. LET n == [m EXCEPT !.queue = q, !.next = k]
      IN  /\ n \in Move
          /\ n.op = m.op /\ n.task = m.task /\ n.from = m.from
          /\ n.column = m.column /\ n.position = m.position
          /\ n.queue = q /\ n.next = k
          /\ n.written = m.written /\ n.overtaken = m.overtaken
  BY <1>1 DEF Move
<1> QED
  BY <1>2, <1>3 DEF q, k

(* A row with another status stands in another column of its project. *)
LEMMA StatusWritten ==
  ASSUME TypeOK, NEW r \in Requests, Moving(r), NEW t \in Tasks, Exists(t),
         NEW c \in Columns
  PROVE  LET row == [View(r)[t] EXCEPT !.column = WithStatus(@, c[2])]
         IN  /\ row \in Row
             /\ row.column = WithStatus(View(r)[t].column, c[2])
             /\ row.sortOrder = View(r)[t].sortOrder
<1>1. PICK v : v = View(r)[t]
  OBVIOUS
<1>2. v \in Row /\ v.column \in Columns
  BY <1>1, ViewType DEF Row
<1>3. PICK d : d = WithStatus(v.column, c[2]) /\ d \in Columns
  BY <1>2, WithStatusColumn
<1>4. [v EXCEPT !.column = WithStatus(@, c[2])] = [v EXCEPT !.column = d]
  BY <1>2, <1>3 DEF Row
<1> QED
  BY <1>1, <1>2, <1>3, <1>4 DEF Row

LEMMA TypeStep == TypeOK /\ [Next]_vars => TypeOK'
<1> SUFFICES ASSUME TypeOK, [Next]_vars PROVE TypeOK'
  OBVIOUS
<1>0. MaxChanges \in Nat /\ changes \in 0..MaxChanges /\ task \in Rows
  BY BoardAssumption DEF TypeOK, Rows
<1>1. ASSUME NEW t \in Tasks, NEW column \in CreatedIn, Create(t, column) PROVE TypeOK'
  <2>1. There(column, 0) \in Row
    BY BoardAssumption, ThereIsRow
  <2> QED
    BY <1>0, <1>1, <2>1, RowChangesType DEF Create
<1>2. ASSUME NEW t \in Tasks, Update(t) PROVE TypeOK'
  <2>1. PICK column \in EditedTo \cup {task[t].column},
             sortOrder \in Orders \cup {task[t].sortOrder} :
           task' = [task EXCEPT ![t] = There(column, sortOrder)]
    BY <1>2 DEF Update
  <2>2. sortOrder \in Int /\ column \in Columns
    BY <1>0, <1>2, BoardAssumption, RowValue DEF Update, Exists
  <2>3. There(column, sortOrder) \in Row
    BY <2>2, ThereIsRow
  <2>4. changes' \in 0..MaxChanges
    BY <1>0, <1>2 DEF Update, Another
  <2> QED
    BY <1>2, <2>1, <2>3, <2>4, RowChangesType DEF Update
<1>3. ASSUME NEW t \in Tasks, Delete(t) PROVE TypeOK'
  <2>1. changes' \in 0..MaxChanges
    BY <1>0, <1>3 DEF Delete, Another
  <2> QED
    BY <1>3, <2>1, RowChangesType DEF Delete
<1>4. ASSUME NEW r \in Requests, NEW t \in Tasks, NEW status \in Statuses,
             NEW position \in Positions, MoveBegins(r, t, status, position)
      PROVE  TypeOK'
  <2> DEFINE m == [op |-> "readTarget", task |-> t, from |-> task[t].column,
                   column |-> WithStatus(task[t].column, status),
                   position |-> position,
                   queue |-> <<>>, next |-> 0,
                   written |-> [u \in Tasks |-> None], overtaken |-> FALSE]
  <2>1. task[t].column \in Columns /\ WithStatus(task[t].column, status) \in Columns
    BY <1>0, <1>4, RowValue, WithStatusColumn DEF MoveBegins, Exists
  <2>2. m \in Move /\ \A u \in Tasks : m.written[u] = None
    BY <2>1 DEF Move, Ops
  <2>3. Remember(r, m) /\ ~Moving(r) /\ UNCHANGED <<task, lock>>
    BY <1>4 DEF MoveBegins
  <2>4. changes' \in 0..MaxChanges
    BY <1>0, <1>4 DEF MoveBegins, Another
  <2> HIDE DEF m
  <2> QED
    BY <2>2, <2>3, <2>4, MoveReadsType
<1>5. ASSUME NEW r \in Requests, MoveReadsTarget(r) PROVE TypeOK'
  <2> DEFINE o == Others(r, request[r].column)
  <2> DEFINE q == InsertAt(o, Clamp(request[r].position, Len(o)) + 1, request[r].task)
  <2> DEFINE m == [request[r] EXCEPT !.op = "writeStatus", !.queue = q]
  <2>1. Moving(r) /\ Remember(r, m) /\ UNCHANGED <<task, lock, changes>>
    BY <1>5 DEF MoveReadsTarget, Moving, Ops
  <2>2. request[r] \in Move
    BY <2>1, MovingOrIdle
  <2>3. o \in Seq(Tasks)
    BY <2>1, OthersLists DEF Lists
  <2> HIDE DEF o
  <2>4. q \in Seq(Tasks)
    BY <2>2, <2>3, BoardAssumption, MoveFields, PlaceInList
  <2> HIDE DEF q
  <2>5. m \in Move /\ m.written = request[r].written
    BY <2>2, <2>4 DEF Move, Ops
  <2> HIDE DEF m
  <2> QED
    BY <1>0, <2>1, <2>5, MoveReadsType
<1>6. ASSUME NEW r \in Requests, MoveWritesStatus(r) PROVE TypeOK'
  <2> DEFINE m == [request[r] EXCEPT !.op = "renumber"]
  <2> DEFINE t == request[r].task
  <2> DEFINE row == [View(r)[t] EXCEPT !.column = WithStatus(@, request[r].column[2])]
  <2>1. Moving(r) /\ Write(r, t, row, m) /\ UNCHANGED <<task, changes>>
    BY <1>6 DEF MoveWritesStatus, Moving, Ops
  <2>2. request[r] \in Move /\ t \in Tasks /\ request[r].column \in Columns
    BY <2>1, MovingOrIdle, MoveFields
  <2>3. m \in Move /\ m.written = request[r].written
    BY <2>2 DEF Move, Ops
  <2>4. Exists(t) => row \in Row
    BY <2>1, <2>2, StatusWritten
  <2> HIDE DEF m, t, row
  <2> QED
    BY <2>1, <2>2, <2>3, <2>4, MoveWritesType
<1>7. ASSUME NEW r \in Requests, MoveRenumbers(r) PROVE TypeOK'
  <2> DEFINE m == [request[r] EXCEPT !.queue = Tail(@), !.next = @ + 1]
  <2> DEFINE t == Head(request[r].queue)
  <2> DEFINE row == [View(r)[t] EXCEPT !.sortOrder = request[r].next]
  <2>1. /\ Moving(r) /\ Write(r, t, row, m) /\ UNCHANGED <<task, changes>>
        /\ request[r].queue # <<>>
    BY <1>7 DEF MoveRenumbers, Moving, Ops
  <2>2. /\ request[r] \in Move /\ request[r].queue \in Seq(Tasks)
        /\ request[r].next \in Nat
    BY <2>1, MovingOrIdle, MoveFields
  <2>3. t \in Tasks /\ Tail(request[r].queue) \in Seq(Tasks)
    BY <2>1, <2>2
  <2>4. m \in Move /\ m.written = request[r].written
    BY <2>2, <2>3, RenumberingMove
  <2>5. Exists(t) => row \in Row
    BY <2>1, <2>2, <2>3, ViewType DEF Row
  <2> HIDE DEF m, t, row
  <2> QED
    BY <2>1, <2>3, <2>4, <2>5, MoveWritesType
<1>8. ASSUME NEW r \in Requests, MoveReadsSource(r) PROVE TypeOK'
  <2> DEFINE o == Others(r, request[r].from)
  <2> DEFINE m == [request[r] EXCEPT !.queue = o, !.next = 0, !.from = request[r].column]
  <2>1. Moving(r) /\ Remember(r, m) /\ UNCHANGED <<task, lock, changes>>
    BY <1>8 DEF MoveReadsSource, Moving, Ops
  <2>2. request[r] \in Move
    BY <2>1, MovingOrIdle
  <2>3. o \in Seq(Tasks)
    BY <2>1, OthersLists DEF Lists
  <2> HIDE DEF o
  <2>4. m \in Move /\ m.written = request[r].written
    BY <2>2, <2>3 DEF Move
  <2> HIDE DEF m
  <2> QED
    BY <1>0, <2>1, <2>4, MoveReadsType
<1>9. ASSUME NEW r \in Requests, MoveCommits(r) PROVE TypeOK'
  <2>1. Moving(r) /\ task' = View(r) /\ Release(r) /\ changes' = changes
    BY <1>9 DEF MoveCommits, Commits, Moving, Ops
  <2>2. task' \in Rows /\ \A t \in Tasks : Exists(t)' <=> Exists(t)
    BY <2>1, ViewType DEF Exists
  <2>3. /\ lock' \in [Tasks -> Requests \cup {None}]
        /\ \A t \in Tasks : lock'[t] # r
        /\ \A t \in Tasks, s \in Requests \ {r} : lock'[t] = s <=> lock[t] = s
        /\ \A t \in Tasks : lock'[t] # None => lock[t] # None
    BY <2>1, ReleaseFrame
  <2>4. \A s \in Requests, t \in Tasks :
           lock'[t] = s <=> Moving(s)' /\ request'[s].written[t] # None
    <3> SUFFICES ASSUME NEW s \in Requests, NEW t \in Tasks
                 PROVE  lock'[t] = s <=> Moving(s)' /\ request'[s].written[t] # None
      OBVIOUS
    <3>1. CASE s = r
      BY <1>9, <2>3, <3>1, CommitFrame
    <3>2. CASE s # r
      <4>1. lock[t] = s <=> Moving(s) /\ request[s].written[t] # None
        BY DEF TypeOK
      <4> QED
        BY <1>9, <2>3, <3>2, <4>1, CommitFrame
    <3> QED
      BY <3>1, <3>2
  <2>5. \A t \in Tasks : lock'[t] # None => Exists(t)'
    BY <2>2, <2>3 DEF TypeOK
  <2> QED
    BY <1>0, <1>9, <2>1, <2>2, <2>3, <2>4, <2>5, CommitFrame DEF TypeOK, Rows
<1>10. ASSUME NEW r \in Requests, MoveFails(r) PROVE TypeOK'
  <2>1. Release(r) /\ Remember(r, Idle) /\ UNCHANGED <<task, changes>>
    BY <1>10 DEF MoveFails
  <2>2. /\ request' \in [Requests -> Move \cup {Idle}]
        /\ request'[r] = Idle
        /\ \A s \in Requests \ {r} :
             request'[s] = request[s] /\ (Moving(s)' <=> Moving(s))
    BY <2>1, RememberFrame
  <2>3. ~Moving(r)'
    BY <2>2 DEF Moving, Idle, Ops
  <2>4. /\ lock' \in [Tasks -> Requests \cup {None}]
        /\ \A t \in Tasks : lock'[t] # r
        /\ \A t \in Tasks, s \in Requests \ {r} : lock'[t] = s <=> lock[t] = s
        /\ \A t \in Tasks : lock'[t] # None => lock[t] # None
    BY <2>1, ReleaseFrame
  <2>5. \A s \in Requests, t \in Tasks :
           lock'[t] = s <=> Moving(s)' /\ request'[s].written[t] # None
    BY <2>2, <2>3, <2>4 DEF TypeOK
  <2>6. \A t \in Tasks : lock'[t] # None => Exists(t)'
    BY <2>1, <2>4 DEF TypeOK, Exists
  <2> QED
    BY <1>0, <2>1, <2>2, <2>4, <2>5, <2>6 DEF TypeOK
<1>11. CASE UNCHANGED vars
  BY <1>11 DEF TypeOK, vars, Moving, Exists
<1> QED
  BY <1>1, <1>2, <1>3, <1>4, <1>5, <1>6, <1>7, <1>8, <1>9, <1>10, <1>11
     DEF Next, MoveStep, MoveAborts

(* Rows, locks and what the transactions remember have their types; a row is
   locked by the transaction that wrote it and only while it stands. *)
THEOREM TaskTypes == Spec => []TypeOK
<1>1. Init => TypeOK
  BY TypeInit
<1>2. TypeOK /\ [Next]_vars => TypeOK'
  BY TypeStep
<1> QED
  BY <1>1, <1>2, PTL DEF Spec
-----------------------------------------------------------------------------
(* What a move in flight knows *)

\* The tasks of s but t are by (sortOrder, id).
Ordered(s, rows, t) ==
    \A i, j \in DOMAIN s :
        i < j /\ s[i] # t /\ s[j] # t => Above(rows, s[i], s[j])

\* The place the user dropped the task at.
Dropped(r, s) == DroppedInPlace(request[r], s)

\* The column to renumber has been read.
Planned(r) ==
    LET m == request[r]
    IN  /\ Enumerates(m.queue, Standing(task, m.column) \cup {m.task})
        /\ Ordered(m.queue, task, m.task)
        /\ Dropped(r, m.queue)

\* The first n tasks of column c, which s lists as the move wants it, have
\* their new places.
Renumbered(r, s, c, n) ==
    /\ Enumerates(s, Standing(View(r), c))
    /\ Ordered(s, task, request[r].task)
    /\ \A i \in 1..n : View(r)[s[i]].sortOrder = i - 1

\* The others of the column stand as they did.
KeepsOrder(r, c) ==
    \A t, u \in Standing(View(r), c) \ {request[r].task} :
        Above(View(r), t, u) <=> Above(task, t, u)

\* s lists the column at which the move is.
Renumbering(r, s, c) ==
    LET m == request[r]
    IN  /\ m.next <= Len(s)
        /\ m.queue = SubSeq(s, m.next + 1, Len(s))
        /\ Renumbered(r, s, c, m.next)
        /\ \A d \in Columns \ {c} : KeepsOrder(r, d)

\* The column the task is dropped in comes first.
AtTarget(r) ==
    \E s \in Seq(Tasks) : Renumbering(r, s, request[r].column) /\ Dropped(r, s)

AtSource(r) ==
    /\ request[r].from = request[r].column
    /\ \E c \in Columns \ {request[r].column}, s, target \in Seq(Tasks) :
         /\ Renumbering(r, s, c)
         /\ Renumbered(r, target, request[r].column, Len(target))
         /\ Dropped(r, target)

\* The column the task is dropped in is one of the project it has.
InProject(r) ==
    LET m == request[r]
    IN  WithStatus(task[m.task].column, m.column[2]) = m.column

\* A move that nothing has overtaken is on its way to what it promises.
OnCourse(r) ==
    /\ Exists(request[r].task)
    /\ request[r].op # "renumber" => InProject(r)
    /\ request[r].op = "writeStatus" => Planned(r)
    /\ request[r].op = "renumber" => AtTarget(r) \/ AtSource(r)

\* Before the status nothing is written, and afterwards the status of the own
\* task only.
WritesOwnStatus(r) ==
    /\ request[r].op # "renumber" =>
         /\ request[r].next = 0
         /\ \A t \in Tasks : request[r].written[t] = None
    /\ \A t \in Tasks \ {request[r].task} :
         request[r].written[t] # None => request[r].written[t].column = task[t].column

MoveInv ==
    /\ TypeOK
    /\ \A r \in Requests : Moving(r) =>
         /\ WritesOwnStatus(r)
         /\ ~request[r].overtaken => OnCourse(r)


(* What is remembered is what was, and so is all that follows from it. *)
LEMMA Untouched ==
  ASSUME NEW r, request'[r] = request[r], task' = task
  PROVE  /\ WritesOwnStatus(r)' <=> WritesOwnStatus(r)
         /\ OnCourse(r)' <=> OnCourse(r)
<1>1. View(r)' = View(r)
  BY DEF View
<1>2. \A s, c, n : Renumbered(r, s, c, n)' <=> Renumbered(r, s, c, n)
  BY <1>1 DEF Renumbered
<1>3. \A c : KeepsOrder(r, c)' <=> KeepsOrder(r, c)
  BY <1>1 DEF KeepsOrder
<1>4. \A s : Dropped(r, s)' <=> Dropped(r, s)
  BY DEF Dropped, DroppedInPlace
<1>5. \A s, c : Renumbering(r, s, c)' <=> Renumbering(r, s, c)
  BY <1>2, <1>3 DEF Renumbering
<1>6. AtTarget(r)' <=> AtTarget(r)
  BY <1>4, <1>5 DEF AtTarget
<1>7. AtSource(r)' <=> AtSource(r)
  BY <1>2, <1>4, <1>5 DEF AtSource
<1>8. Planned(r)' <=> Planned(r)
  BY <1>4 DEF Planned
<1>9. OnCourse(r)' <=> OnCourse(r)
  BY <1>6, <1>7, <1>8 DEF OnCourse, Exists, InProject
<1>10. WritesOwnStatus(r)' <=> WritesOwnStatus(r)
  BY DEF WritesOwnStatus
<1> QED
  BY <1>9, <1>10

(* Rows that a transaction wrote are locked, so what it wrote keeps fitting them. *)
LEMMA OvertakenInv ==
  ASSUME MoveInv, NEW r \in Requests, Moving(r),
         request'[r].op = request[r].op, request'[r].task = request[r].task,
         request'[r].next = request[r].next, request'[r].written = request[r].written,
         \A u \in Tasks : request[r].written[u] # None => task'[u] = task[u]
  PROVE  WritesOwnStatus(r)'
  BY DEF MoveInv, WritesOwnStatus

LEMMA WriterOfRow ==
  ASSUME TypeOK, NEW r \in Requests, Moving(r), NEW t \in Tasks, request[r].written[t] # None
  PROVE  lock[t] = r /\ r # None /\ Exists(t)
  BY NoneAssumption DEF TypeOK

(* Where the dropped task stands in the list to renumber. *)
LEMMA InsertedList ==
  ASSUME NEW S \in SUBSET Tasks, NEW rows, NEW o, Lists(o, S, rows),
         NEW t \in Tasks, t \notin S, NEW k \in 1..Len(o) + 1
  PROVE  LET q == InsertAt(o, k, t)
         IN  /\ q \in Seq(Tasks) /\ Len(q) = Len(o) + 1 /\ q[k] = t
             /\ Enumerates(q, S \cup {t})
             /\ Ordered(q, rows, t)
<1> DEFINE q == InsertAt(o, k, t)
<1>1. o \in Seq(Tasks) /\ Enumerates(o, S) /\ InOrder(o, rows)
  BY DEF Lists
<1>2. /\ DOMAIN o = 1..Len(o) /\ Len(o) \in Nat
      /\ \A i \in 1..Len(o) : o[i] \in S /\ o[i] \in Tasks
      /\ \A u \in S : \E i \in 1..Len(o) : o[i] = u
      /\ \A i, j \in 1..Len(o) : o[i] = o[j] => i = j
  BY <1>1, ListElements
<1>3. /\ q \in Seq(Tasks) /\ Len(q) = Len(o) + 1
      /\ \A i \in 1..Len(o) + 1 :
           q[i] = IF i < k THEN o[i] ELSE IF i = k THEN t ELSE o[i - 1]
  <2>1. o \in Seq(Tasks)
    BY <1>1
  <2> QED
    BY <2>1, Inserted
<1> HIDE DEF q
<1>4. DOMAIN q = 1..Len(o) + 1
  BY <1>3
<1>5. q[k] = t
  BY <1>3
<1> DEFINE at(i) == IF i < k THEN i ELSE i - 1
<1>6. \A i \in 1..Len(o) + 1 : i # k => at(i) \in 1..Len(o) /\ q[i] = o[at(i)]
  BY <1>2, <1>3
<1>7. \A i, j \in 1..Len(o) + 1 : i # k /\ j # k /\ i < j => at(i) < at(j)
  BY <1>2
<1> HIDE DEF at
<1>8. \A i \in 1..Len(o) + 1 : q[i] \in S \cup {t} /\ (q[i] = t <=> i = k)
  BY <1>2, <1>5, <1>6
<1>9. \A u \in S : \E i \in 1..Len(o) + 1 : q[i] = u
  <2> SUFFICES ASSUME NEW u \in S PROVE \E i \in 1..Len(o) + 1 : q[i] = u
    OBVIOUS
  <2>1. PICK i \in 1..Len(o) : o[i] = u
    BY <1>2
  <2>2. CASE i < k
    BY <1>2, <1>3, <2>1, <2>2
  <2>3. CASE i >= k
    <3>1. i + 1 \in 1..Len(o) + 1 /\ ~(i + 1 < k) /\ i + 1 # k /\ (i + 1) - 1 = i
      BY <1>2, <2>3
    <3> QED
      BY <1>3, <2>1, <3>1
  <2> QED
    BY <2>2, <2>3
<1>10. \A i, j \in 1..Len(o) + 1 : q[i] = q[j] => i = j
  <2> SUFFICES ASSUME NEW i \in 1..Len(o) + 1, NEW j \in 1..Len(o) + 1, q[i] = q[j], i < j
               PROVE  FALSE
    BY <1>2
  <2>1. i # k /\ j # k
    BY <1>2, <1>8
  <2>2. at(i) < at(j) /\ at(i) \in 1..Len(o) /\ at(j) \in 1..Len(o) /\ o[at(i)] = o[at(j)]
    BY <1>6, <1>7, <2>1
  <2> QED
    BY <1>2, <2>2
<1>11. Enumerates(q, S \cup {t})
  <2>1. ToSet(q) = S \cup {t}
    BY <1>4, <1>5, <1>8, <1>9 DEF ToSet
  <2>2. IsInjective(q)
    BY <1>4, <1>10 DEF IsInjective
  <2> QED
    BY <2>1, <2>2 DEF Enumerates
<1>12. Ordered(q, rows, t)
  <2> SUFFICES ASSUME NEW i \in 1..Len(o) + 1, NEW j \in 1..Len(o) + 1,
                      i < j, q[i] # t, q[j] # t
               PROVE  Above(rows, q[i], q[j])
    BY <1>4 DEF Ordered
  <2>1. i # k /\ j # k
    BY <1>8
  <2>2. /\ at(i) < at(j) /\ at(i) \in 1..Len(o) /\ at(j) \in 1..Len(o)
        /\ q[i] = o[at(i)] /\ q[j] = o[at(j)]
    BY <1>6, <1>7, <2>1
  <2> QED
    BY <1>1, <1>2, <2>2 DEF InOrder
<1> QED
  BY <1>3, <1>5, <1>11, <1>12 DEF q

(* A column whose rows are all renumbered stands in the order of the list, which
   for the others is the one it had. *)
LEMMA FullyRenumbered ==
  ASSUME TypeOK, NEW r \in Requests, Moving(r), NEW c, NEW s \in Seq(Tasks),
         Renumbered(r, s, c, Len(s))
  PROVE  /\ Lists(s, Standing(View(r), c), View(r))
         /\ KeepsOrder(r, c)
<1> DEFINE v == View(r)
<1> DEFINE S == Standing(v, c)
<1> DEFINE own == request[r].task
<1>1. /\ Enumerates(s, S) /\ Ordered(s, task, own)
      /\ \A i \in 1..Len(s) : v[s[i]].sortOrder = i - 1
  BY DEF Renumbered
<1>2. S \in SUBSET Tasks
  BY StandingTasks
<1>3. Sortable(task, S)
  <2>1. task \in Rows
    BY DEF TypeOK, Rows
  <2>2. \A t \in S : t \in Tasks /\ task[t].at = "there"
    BY ViewType DEF Standing, Exists
  <2> QED
    BY <2>1, <2>2, RowValue DEF Sortable
<1> HIDE DEF v, S, own
<1>4. /\ DOMAIN s = 1..Len(s) /\ Len(s) \in Nat
      /\ \A i \in 1..Len(s) : s[i] \in S /\ s[i] \in Tasks
      /\ \A t \in S : \E i \in 1..Len(s) : s[i] = t
      /\ \A i, j \in 1..Len(s) : s[i] = s[j] => i = j
  BY <1>1, ListElements
<1>5. \A i, j \in 1..Len(s) : Above(v, s[i], s[j]) <=> i < j
  <2> SUFFICES ASSUME NEW i \in 1..Len(s), NEW j \in 1..Len(s)
               PROVE  Above(v, s[i], s[j]) <=> i < j
    OBVIOUS
  <2>1. v[s[i]].sortOrder = i - 1 /\ v[s[j]].sortOrder = j - 1
    BY <1>1
  <2>2. i - 1 = j - 1 => i = j
    OBVIOUS
  <2>3. i = j => s[i] = s[j]
    OBVIOUS
  <2>4. s[i] \in Nat
    BY <1>4, BoardAssumption
  <2> HIDE DEF v
  <2> QED
    BY <2>1, <2>2, <2>3, <2>4 DEF Above
<1>6. Lists(s, S, v)
  BY <1>1, <1>4, <1>5 DEF Lists, InOrder
<1>7. ASSUME NEW t \in S \ {own}, NEW u \in S \ {own}
      PROVE  Above(v, t, u) <=> Above(task, t, u)
  <2>1. PICK i \in 1..Len(s) : s[i] = t
    BY <1>4
  <2>2. PICK j \in 1..Len(s) : s[j] = u
    BY <1>4
  <2>3. /\ i < j => Above(task, t, u)
        /\ j < i => Above(task, u, t)
    BY <1>1, <1>4, <2>1, <2>2 DEF Ordered
  <2>4. i = j => t = u
    BY <2>1, <2>2
  <2>5. ~Above(task, t, t) /\ (Above(task, t, u) /\ Above(task, u, t) => Above(task, t, t))
    BY <1>2, <1>3, AboveIsOrder
  <2>6. Above(task, t, u) <=> i < j
    BY <1>4, <2>3, <2>4, <2>5
  <2> QED
    BY <1>5, <2>1, <2>2, <2>6
<1> QED
  BY <1>6, <1>7 DEF KeepsOrder, v, S, own

(* Reading the target column: nothing is written yet, so it is read as it is
   committed. *)
LEMMA ReadsTargetInv ==
  ASSUME MoveInv, NEW r \in Requests, MoveReadsTarget(r)
  PROVE  /\ WritesOwnStatus(r)'
         /\ ~request'[r].overtaken => OnCourse(r)'
<1>0. PICK c, own, p : c = request[r].column /\ own = request[r].task /\ p = request[r].position
  OBVIOUS
<1> DEFINE o == Others(r, c)
<1> DEFINE k == Clamp(p, Len(o)) + 1
<1> DEFINE S == Standing(task, c) \ {own}
<1>a. PICK q : q = InsertAt(o, k, own)
  OBVIOUS
<1> DEFINE m == [request[r] EXCEPT !.op = "writeStatus", !.queue = q]
<1>1. TypeOK /\ Moving(r) /\ request[r].op = "readTarget" /\ task' = task /\ Remember(r, m)
  BY <1>0, <1>a DEF MoveInv, MoveReadsTarget, Moving, Ops
<1>2. request[r] \in Move /\ own \in Tasks /\ p \in Int
  BY <1>0, <1>1, BoardAssumption, MovingOrIdle, MoveFields
<1>3. WritesOwnStatus(r) /\ (~request[r].overtaken => OnCourse(r))
  BY <1>1 DEF MoveInv
<1>4. request[r].next = 0 /\ \A t \in Tasks : request[r].written[t] = None
  BY <1>1, <1>3 DEF WritesOwnStatus
<1>5. View(r) = task
  <2>1. task = [t \in Tasks |-> task[t]]
    BY <1>1 DEF TypeOK
  <2> QED
    BY <1>4, <2>1 DEF View
<1>6. Lists(o, S, task)
  BY <1>0, <1>1, <1>5, OthersLists
<1>7. o \in Seq(Tasks) /\ S \in SUBSET Tasks /\ own \notin S
  BY <1>6, StandingTasks DEF Lists
<1> HIDE DEF o, S
<1>8. k \in 1..Len(o) + 1
  BY <1>2, <1>7, PlaceInList
<1>9. /\ q \in Seq(Tasks) /\ Len(q) = Len(o) + 1 /\ q[k] = own
      /\ Enumerates(q, S \cup {own})
      /\ Ordered(q, task, own)
  <2> HIDE DEF k
  <2>0. /\ q \in Seq(Tasks) /\ Len(q) = Len(o) + 1 /\ q[k] = own
        /\ Enumerates(q, S \cup {own}) /\ Ordered(q, task, own)
    <3> DEFINE z == InsertAt(o, k, own)
    <3>1. /\ z \in Seq(Tasks) /\ Len(z) = Len(o) + 1 /\ z[k] = own
          /\ Enumerates(z, S \cup {own})
          /\ Ordered(z, task, own)
      BY <1>2, <1>6, <1>7, <1>8, InsertedList
    <3> HIDE DEF z
    <3>2. q = z
      BY <1>a DEF z
    <3> QED
      BY <3>1, <3>2
  <2> QED
    BY <2>0
<1>10. k = Clamp(p, Len(q) - 1) + 1 /\ k \in DOMAIN q
  <2>1. Len(o) \in Nat /\ Len(q) - 1 = Len(o) /\ DOMAIN q = 1..Len(q)
    BY <1>7, <1>9
  <2>2. k = Clamp(p, Len(q) - 1) + 1
    BY <2>1
  <2> HIDE DEF k
  <2> QED
    BY <1>8, <1>9, <2>1, <2>2
<1> HIDE DEF k
<1>11. /\ m \in Move /\ m.op = "writeStatus" /\ m.task = own /\ m.column = c
       /\ m.position = p /\ m.queue = q /\ m.next = 0
       /\ m.written = request[r].written /\ m.overtaken = request[r].overtaken
  BY <1>0, <1>2, <1>4, <1>9 DEF Move, Ops
<1> HIDE DEF m
<1>12. request'[r] = m
  BY <1>1, <1>11, RememberFrame
<1>13. WritesOwnStatus(r)'
  BY <1>4, <1>11, <1>12 DEF WritesOwnStatus
<1>14. ASSUME ~request'[r].overtaken PROVE OnCourse(r)'
  <2>1. Exists(own)
    BY <1>0, <1>3, <1>11, <1>12, <1>14 DEF OnCourse
  <2>2. S \cup {own} = Standing(task, c) \cup {own}
    BY DEF S
  <2>3. Dropped(r, q)'
    BY <1>9, <1>10, <1>11, <1>12 DEF Dropped, DroppedInPlace
  <2>4. Planned(r)'
    BY <1>1, <1>9, <1>11, <1>12, <2>2, <2>3 DEF Planned
  <2>5. InProject(r)'
    <3>1. InProject(r)
      BY <1>1, <1>3, <1>11, <1>12, <1>14 DEF OnCourse, MoveReadsTarget
    <3> QED
      BY <1>0, <1>1, <1>11, <1>12, <3>1 DEF InProject
  <2> QED
    BY <1>1, <1>11, <1>12, <2>1, <2>4, <2>5 DEF OnCourse, Exists
<1> QED
  BY <1>13, <1>14

(* Writing the status puts the task into its column, before anything is
   renumbered. *)
LEMMA WritesStatusInv ==
  ASSUME MoveInv, NEW r \in Requests, MoveWritesStatus(r)
  PROVE  /\ WritesOwnStatus(r)'
         /\ ~request'[r].overtaken => OnCourse(r)'
<1>0. PICK c, own, q, row :
         /\ c = request[r].column /\ own = request[r].task /\ q = request[r].queue
         /\ row = [View(r)[own] EXCEPT !.column = WithStatus(@, c[2])]
  OBVIOUS
<1>m. PICK m : m = [request[r] EXCEPT !.op = "renumber"]
  OBVIOUS
<1>1. /\ TypeOK /\ Moving(r) /\ request[r].op = "writeStatus" /\ task' = task
      /\ Write(r, own, row, m)
  BY <1>0, <1>m DEF MoveInv, MoveWritesStatus, Moving, Ops
<1>2. request[r] \in Move /\ own \in Tasks /\ c \in Columns /\ q \in Seq(Tasks)
  BY <1>0, <1>1, MovingOrIdle, MoveFields
<1>3. WritesOwnStatus(r) /\ (~request[r].overtaken => OnCourse(r))
  BY <1>1 DEF MoveInv
<1>4. request[r].next = 0 /\ \A t \in Tasks : request[r].written[t] = None
  BY <1>1, <1>3 DEF WritesOwnStatus
<1>5. View(r) = task
  <2>1. task = [t \in Tasks |-> task[t]]
    BY <1>1 DEF TypeOK
  <2> QED
    BY <1>4, <2>1 DEF View
<1>6. Exists(own) => /\ row \in Row
                     /\ row.column = WithStatus(task[own].column, c[2])
                     /\ row.sortOrder = task[own].sortOrder
  <2>1. ASSUME Exists(own)
        PROVE  LET new == [View(r)[own] EXCEPT !.column = WithStatus(@, c[2])]
               IN  /\ new \in Row
                   /\ new.column = WithStatus(View(r)[own].column, c[2])
                   /\ new.sortOrder = View(r)[own].sortOrder
    BY <1>1, <1>2, <2>1, StatusWritten
  <2> QED
    BY <1>0, <1>5, <2>1
<1>7. /\ m \in Move /\ m.op = "renumber" /\ m.task = own /\ m.column = c
      /\ m.position = request[r].position /\ m.queue = q /\ m.next = 0
      /\ m.from = request[r].from
      /\ m.written = request[r].written /\ m.overtaken = request[r].overtaken
  BY <1>0, <1>m, <1>2, <1>4 DEF Move, Ops
<1>8. /\ request'[r].op = m.op /\ request'[r].task = m.task
      /\ request'[r].from = m.from /\ request'[r].column = m.column
      /\ request'[r].position = m.position /\ request'[r].queue = m.queue
      /\ request'[r].next = m.next /\ request'[r].overtaken = m.overtaken
      /\ request'[r].written =
           IF Exists(own) THEN [request[r].written EXCEPT ![own] = row]
           ELSE request[r].written
  <2>1. /\ TypeOK /\ Moving(r) /\ own \in Tasks /\ (Exists(own) => row \in Row)
        /\ m \in Move /\ m.written = request[r].written /\ Write(r, own, row, m)
    BY <1>1, <1>2, <1>6, <1>7
  <2>2. Wrote(r, own, row, m)
    BY <2>1, WriteFrame
  <2> QED
    BY <2>2 DEF Wrote
<1>9. WritesOwnStatus(r)'
  BY <1>4, <1>7, <1>8 DEF WritesOwnStatus
<1>10. ASSUME ~request'[r].overtaken PROVE OnCourse(r)'
  <2>1. OnCourse(r) /\ Exists(own) /\ Planned(r) /\ row.column = c
    BY <1>0, <1>1, <1>3, <1>6, <1>7, <1>8, <1>10 DEF OnCourse, InProject
  <2>2. View(r)' = [task EXCEPT ![own] = row]
    <3>1. request'[r].written = [request[r].written EXCEPT ![own] = row]
      BY <1>8, <2>1
    <3>2. request[r].written \in [Tasks -> Row \cup {None}] /\ task \in [Tasks -> Row \cup {Unborn, Gone}]
      BY <1>1, <1>2, MoveFields DEF TypeOK
    <3>3. row # None
      BY <1>6, <2>1, NoneAssumption
    <3> QED
      <4>1. View(r)' = [t \in Tasks |-> IF request'[r].written[t] = None THEN task'[t]
                                       ELSE request'[r].written[t]]
        BY DEF View
      <4>2. \A t \in Tasks : request'[r].written[t] = IF t = own THEN row ELSE None
        BY <1>2, <1>4, <3>1, <3>2
      <4>3. View(r)' = [t \in Tasks |-> IF t = own THEN row ELSE task[t]]
        BY <1>1, <3>3, <4>1, <4>2
      <4> QED
        BY <3>2, <4>3
  <2>3. row.at = "there"
    BY <1>6, <2>1 DEF Row
  <2>4. task \in [Tasks -> Row \cup {Unborn, Gone}]
    BY <1>1 DEF TypeOK
  <2>5. Standing(View(r)', c) = Standing(task, c) \cup {own}
    BY <1>2, <1>6, <2>1, <2>2, <2>3, <2>4 DEF Standing
  <2>6. \A d \in Columns \ {c} : KeepsOrder(r, d)'
    <3> SUFFICES ASSUME NEW d \in Columns \ {c},
                        NEW t \in Standing(View(r)', d) \ {own},
                        NEW u \in Standing(View(r)', d) \ {own}
                 PROVE  Above(View(r)', t, u) <=> Above(task, t, u)
      BY <1>1, <1>7, <1>8 DEF KeepsOrder
    <3>1. t \in Tasks /\ u \in Tasks
      BY StandingTasks
    <3>2. View(r)'[t] = task[t] /\ View(r)'[u] = task[u]
      BY <2>2, <2>4, <3>1
    <3> QED
      BY <3>2 DEF Above
  <2>7. Enumerates(q, Standing(View(r)', c)) /\ Ordered(q, task, own) /\ Dropped(r, q)
    BY <1>0, <2>1, <2>5 DEF Planned
  <2>8. Renumbered(r, q, c, 0)'
    BY <1>1, <1>7, <1>8, <2>7 DEF Renumbered
  <2>9. q = SubSeq(q, 0 + 1, Len(q)) /\ 0 <= Len(q)
    BY <1>2
  <2>10. Renumbering(r, q, c)'
    <3>1. request'[r].queue = q /\ request'[r].next = 0 /\ request'[r].column = c
      BY <1>7, <1>8
    <3> QED
      BY <2>6, <2>8, <2>9, <3>1 DEF Renumbering
  <2>11. Dropped(r, q)'
    BY <1>0, <1>7, <1>8, <2>7 DEF Dropped, DroppedInPlace
  <2>12. AtTarget(r)'
    <3>1. request'[r].column = c
      BY <1>7, <1>8
    <3> QED
      BY <1>2, <2>10, <2>11, <3>1 DEF AtTarget
  <2> QED
    BY <1>1, <1>7, <1>8, <2>1, <2>12 DEF OnCourse, Exists
<1> QED
  BY <1>9, <1>10

(* One more row of the column has its place. *)
LEMMA OneMoreRenumbered ==
  ASSUME TypeOK, NEW r \in Requests, Moving(r), NEW c \in Columns, NEW s \in Seq(Tasks),
         Renumbering(r, s, c), request[r].next < Len(s), UNCHANGED task,
         request'[r].task = request[r].task, request'[r].column = request[r].column,
         request'[r].queue = Tail(request[r].queue),
         request'[r].next = request[r].next + 1,
         View(r)' = [View(r) EXCEPT ![s[request[r].next + 1]] =
                        [View(r)[s[request[r].next + 1]] EXCEPT !.sortOrder = request[r].next]]
  PROVE  /\ Renumbering(r, s, c)'
         /\ \A d \in Columns : Standing(View(r)', d) = Standing(View(r), d)
<1>0. PICK n, t, v, w :
         n = request[r].next /\ t = s[request[r].next + 1] /\ v = View(r) /\ w = View(r)'
  OBVIOUS
<1>1. /\ n \in Nat /\ n < Len(s) /\ Len(s) \in Nat /\ n + 1 \in 1..Len(s)
  <2>1. n \in Nat
    BY <1>0, MovingOrIdle, MoveFields
  <2> QED
    BY <1>0, <2>1
<1>2. /\ Enumerates(s, Standing(v, c)) /\ Ordered(s, task, request[r].task)
      /\ \A i \in 1..n : v[s[i]].sortOrder = i - 1
      /\ \A d \in Columns \ {c} : KeepsOrder(r, d)
      /\ request[r].queue = SubSeq(s, n + 1, Len(s))
  BY <1>0 DEF Renumbering, Renumbered
<1>3. /\ \A i \in 1..Len(s) : s[i] \in Standing(v, c) /\ s[i] \in Tasks
      /\ \A i, j \in 1..Len(s) : s[i] = s[j] => i = j
  BY <1>2, ListElements
<1>4. t \in Standing(v, c) /\ t \in Tasks
  BY <1>0, <1>1, <1>3
<1>5. v \in Rows /\ v[t] \in Row
  <2>1. v \in Rows
    BY <1>0, ViewType
  <2>2. v[t].at = "there"
    BY <1>4 DEF Standing
  <2> QED
    BY <1>4, <2>1, <2>2, RowValue
<1>6. /\ \A u \in Tasks \ {t} : w[u] = v[u]
      /\ w[t].at = v[t].at /\ w[t].column = v[t].column /\ w[t].sortOrder = n
  BY <1>0, <1>4, <1>5 DEF Rows, Row
<1>7. \A d : Standing(w, d) = Standing(v, d)
  BY <1>6 DEF Standing
<1>8. \A i \in 1..n + 1 : w[s[i]].sortOrder = i - 1
  <2> SUFFICES ASSUME NEW i \in 1..n + 1 PROVE w[s[i]].sortOrder = i - 1
    OBVIOUS
  <2>1. CASE i = n + 1
    BY <1>0, <1>1, <1>6, <2>1
  <2>2. CASE i # n + 1
    <3>1. i \in 1..n /\ i \in 1..Len(s)
      BY <1>1, <2>2
    <3>2. s[i] # t
      BY <1>0, <1>1, <1>3, <2>2, <3>1
    <3>3. w[s[i]] = v[s[i]]
      BY <1>3, <1>6, <3>1, <3>2
    <3> QED
      BY <1>2, <3>1, <3>3
  <2> QED
    BY <2>1, <2>2
<1>9. ASSUME NEW d \in Columns \ {c} PROVE KeepsOrder(r, d)'
  <2> SUFFICES ASSUME NEW a \in Standing(w, d) \ {request[r].task},
                      NEW b \in Standing(w, d) \ {request[r].task}
               PROVE  Above(w, a, b) <=> Above(task, a, b)
    BY <1>0 DEF KeepsOrder
  <2>1. /\ a \in Standing(v, d) \ {request[r].task} /\ a \in Tasks
        /\ b \in Standing(v, d) \ {request[r].task} /\ b \in Tasks
    BY <1>7, StandingTasks
  <2>2. a # t /\ b # t
    BY <1>4, <2>1, OneColumn
  <2>3. w[a] = v[a] /\ w[b] = v[b]
    BY <1>6, <2>1, <2>2
  <2>4. Above(v, a, b) <=> Above(task, a, b)
    BY <1>0, <1>2, <2>1 DEF KeepsOrder
  <2> QED
    BY <2>3, <2>4 DEF Above
<1>10. Renumbered(r, s, c, n + 1)'
  BY <1>0, <1>2, <1>7, <1>8 DEF Renumbered
<1>11. Tail(SubSeq(s, n + 1, Len(s))) = SubSeq(s, (n + 1) + 1, Len(s))
  BY <1>1
<1>12. n + 1 <= Len(s)
  BY <1>1
<1>13. Renumbering(r, s, c)'
  <2>1. /\ request'[r].next = n + 1
        /\ request'[r].queue = SubSeq(s, (n + 1) + 1, Len(s))
    BY <1>0, <1>2, <1>11
  <2> QED
    BY <1>9, <1>10, <1>12, <2>1 DEF Renumbering
<1> QED
  BY <1>0, <1>7, <1>13

(* The queue ends where the list does. *)
LEMMA QueueOfList ==
  ASSUME NEW s \in Seq(Tasks), NEW n \in Nat, n <= Len(s), NEW q, q = SubSeq(s, n + 1, Len(s))
  PROVE  /\ q = <<>> <=> n = Len(s)
         /\ q # <<>> => n < Len(s) /\ Head(q) = s[n + 1]
<1>1. Len(s) \in Nat /\ n + 1 \in Nat
  OBVIOUS
<1>2. /\ q \in Seq(Tasks) /\ Len(q) = Len(s) - n
      /\ \A i \in 1..Len(s) - n : q[i] = s[n + i]
  BY <1>1, SubSeqProperties
<1>3. q = <<>> <=> Len(q) = 0
  BY <1>2, EmptySeq
<1>4. q # <<>> => n < Len(s) /\ 1 \in 1..Len(s) - n
  BY <1>1, <1>2, <1>3
<1>5. q # <<>> => Head(q) = q[1]
  BY <1>2
<1> QED
  BY <1>1, <1>2, <1>3, <1>4, <1>5

(* A renumbered column stays so while another is being renumbered. *)
LEMMA StaysRenumbered ==
  ASSUME TypeOK, NEW r \in Requests, NEW c, NEW s \in Seq(Tasks),
         NEW d, d # c, NEW v, v = View(r), NEW t \in Standing(v, d),
         Renumbered(r, s, c, Len(s)),
         UNCHANGED task, request'[r].task = request[r].task,
         Standing(View(r)', c) = Standing(v, c),
         \A u \in Tasks \ {t} : View(r)'[u] = v[u]
  PROVE  Renumbered(r, s, c, Len(s))'
<1>1. /\ Enumerates(s, Standing(v, c)) /\ Ordered(s, task, request[r].task)
      /\ \A i \in 1..Len(s) : v[s[i]].sortOrder = i - 1
  BY DEF Renumbered
<1>2. \A i \in 1..Len(s) : s[i] \in Standing(v, c) /\ s[i] \in Tasks
  BY <1>1, ListElements
<1>3. \A i \in 1..Len(s) : View(r)'[s[i]] = v[s[i]]
  BY <1>2, OneColumn
<1> QED
  BY <1>1, <1>3 DEF Renumbered

(* The row that comes next keeps its column and gets its place. *)
LEMMA RenumbersInv ==
  ASSUME MoveInv, NEW r \in Requests, MoveRenumbers(r)
  PROVE  /\ WritesOwnStatus(r)'
         /\ ~request'[r].overtaken => OnCourse(r)'
<1>0. PICK t, row, n, v :
         /\ t = Head(request[r].queue) /\ n = request[r].next /\ v = View(r)
         /\ row = [View(r)[t] EXCEPT !.sortOrder = request[r].next]
  OBVIOUS
<1>m. PICK m : m = [request[r] EXCEPT !.queue = Tail(@), !.next = @ + 1]
  OBVIOUS
<1>1. /\ TypeOK /\ Moving(r) /\ request[r].op = "renumber" /\ task' = task
      /\ request[r].queue # <<>> /\ Write(r, t, row, m)
  BY <1>0, <1>m DEF MoveInv, MoveRenumbers, Moving, Ops
<1>2. /\ request[r] \in Move /\ request[r].queue \in Seq(Tasks) /\ n \in Nat
      /\ request[r].written \in [Tasks -> Row \cup {None}]
      /\ t \in Tasks /\ Tail(request[r].queue) \in Seq(Tasks)
  <2>1. /\ request[r] \in Move /\ request[r].queue \in Seq(Tasks) /\ n \in Nat
        /\ request[r].written \in [Tasks -> Row \cup {None}]
    BY <1>0, <1>1, MovingOrIdle, MoveFields
  <2> QED
    BY <1>0, <1>1, <2>1
<1>3. WritesOwnStatus(r) /\ (~request[r].overtaken => OnCourse(r))
  BY <1>1 DEF MoveInv
<1>4. /\ m \in Move /\ m.op = request[r].op /\ m.task = request[r].task
      /\ m.from = request[r].from /\ m.column = request[r].column
      /\ m.position = request[r].position
      /\ m.queue = Tail(request[r].queue) /\ m.next = request[r].next + 1
      /\ m.written = request[r].written /\ m.overtaken = request[r].overtaken
  BY <1>m, <1>2, RenumberingMove
<1>5. /\ v \in Rows
      /\ v[t].at = "there" <=> Exists(t)
      /\ Exists(t) => v[t] \in Row
  BY <1>0, <1>1, <1>2, ViewType
<1>6. Exists(t) => row \in Row /\ row.column = v[t].column /\ row # None
  <2>1. ASSUME Exists(t) PROVE row \in Row /\ row.column = v[t].column
    BY <1>0, <1>2, <1>5, <2>1 DEF Row
  <2> QED
    BY <2>1, NoneAssumption
<1>7. /\ request'[r].op = m.op /\ request'[r].task = m.task
      /\ request'[r].from = m.from /\ request'[r].column = m.column
      /\ request'[r].position = m.position /\ request'[r].queue = m.queue
      /\ request'[r].next = m.next /\ request'[r].overtaken = m.overtaken
      /\ request'[r].written =
           IF Exists(t) THEN [request[r].written EXCEPT ![t] = row]
           ELSE request[r].written
  <2>1. /\ TypeOK /\ Moving(r) /\ t \in Tasks /\ (Exists(t) => row \in Row)
        /\ m \in Move /\ m.written = request[r].written /\ Write(r, t, row, m)
    BY <1>1, <1>2, <1>4, <1>6
  <2>2. Wrote(r, t, row, m)
    BY <2>1, WriteFrame
  <2> QED
    BY <2>2 DEF Wrote
<1>8. WritesOwnStatus(r)'
  <2> SUFFICES ASSUME NEW u \in Tasks \ {request[r].task}, request'[r].written[u] # None
               PROVE  request'[r].written[u].column = task[u].column
    BY <1>1, <1>4, <1>7 DEF WritesOwnStatus
  <2>1. CASE Exists(t) /\ u = t
    <3>1. request'[r].written[u].column = v[t].column
      BY <1>2, <1>6, <1>7, <2>1
    <3>2. v[t].column = task[t].column
      BY <1>0, <1>2, <1>3, <2>1 DEF View, WritesOwnStatus
    <3> QED
      BY <2>1, <3>1, <3>2
  <2>2. CASE ~(Exists(t) /\ u = t)
    BY <1>2, <1>3, <1>7, <2>2 DEF WritesOwnStatus
  <2> QED
    BY <2>1, <2>2
<1>9. Exists(t) => View(r)' = [v EXCEPT ![t] = [v[t] EXCEPT !.sortOrder = n]]
  <2> SUFFICES ASSUME Exists(t)
               PROVE  View(r)' = [v EXCEPT ![t] = [v[t] EXCEPT !.sortOrder = n]]
    OBVIOUS
  <2>1. View(r)' = [u \in Tasks |-> IF request'[r].written[u] = None THEN task'[u]
                                    ELSE request'[r].written[u]]
    BY DEF View
  <2>2. v = [u \in Tasks |-> IF request[r].written[u] = None THEN task[u]
                             ELSE request[r].written[u]]
    BY <1>0 DEF View
  <2>3. request'[r].written = [request[r].written EXCEPT ![t] = row]
    BY <1>7
  <2>4. View(r)' = [v EXCEPT ![t] = row]
    BY <1>1, <1>2, <1>6, <2>1, <2>2, <2>3
  <2> QED
    BY <1>0, <2>4
<1>10. ASSUME ~request'[r].overtaken PROVE OnCourse(r)'
  <2>1. OnCourse(r) /\ (AtTarget(r) \/ AtSource(r))
    BY <1>1, <1>3, <1>4, <1>7, <1>10 DEF OnCourse
  <2>2. ASSUME NEW c \in Columns, NEW s \in Seq(Tasks), Renumbering(r, s, c)
        PROVE  /\ Renumbering(r, s, c)' /\ t \in Standing(v, c)
               /\ \A d \in Columns : Standing(View(r)', d) = Standing(v, d)
               /\ \A u \in Tasks \ {t} : View(r)'[u] = v[u]
    <3>1. n <= Len(s) /\ request[r].queue = SubSeq(s, n + 1, Len(s))
      BY <1>0, <2>2 DEF Renumbering
    <3>2. n < Len(s) /\ t = s[n + 1]
      BY <1>0, <1>1, <1>2, <3>1, QueueOfList
    <3>3. t \in Standing(v, c)
      <4>1. Enumerates(s, Standing(v, c))
        BY <1>0, <2>2 DEF Renumbering, Renumbered
      <4>2. n + 1 \in 1..Len(s)
        BY <1>2, <3>2
      <4> QED
        BY <3>2, <4>1, <4>2, ListElements
    <3>4. Exists(t)
      BY <1>5, <3>3 DEF Standing
    <3>5. View(r)' = [v EXCEPT ![t] = [v[t] EXCEPT !.sortOrder = n]]
      BY <1>9, <3>4
    <3>6. \A u \in Tasks \ {t} : View(r)'[u] = v[u]
      BY <1>5, <3>5 DEF Rows
    <3>7. /\ request'[r].task = request[r].task /\ request'[r].column = request[r].column
          /\ request'[r].queue = Tail(request[r].queue)
          /\ request'[r].next = request[r].next + 1
      BY <1>4, <1>7
    <3>8. /\ Renumbering(r, s, c)'
          /\ \A d \in Columns : Standing(View(r)', d) = Standing(v, d)
      <4>1. /\ TypeOK /\ Moving(r) /\ t = s[request[r].next + 1]
            /\ request[r].next < Len(s) /\ UNCHANGED task
            /\ View(r)' = [View(r) EXCEPT ![t] =
                              [View(r)[t] EXCEPT !.sortOrder = request[r].next]]
        BY <1>0, <1>1, <3>2, <3>5
      <4>2. /\ Renumbering(r, s, c)'
            /\ \A d \in Columns : Standing(View(r)', d) = Standing(View(r), d)
        BY <2>2, <3>7, <4>1, OneMoreRenumbered
      <4> QED
        BY <1>0, <4>2
    <3> QED
      BY <3>3, <3>6, <3>8
  <2>3. \A s : Dropped(r, s)' <=> Dropped(r, s)
    BY <1>4, <1>7 DEF Dropped, DroppedInPlace
  <2>4. request[r].column \in Columns /\ request'[r].column = request[r].column
    BY <1>2, <1>4, <1>7, MoveFields
  <2>5. CASE AtTarget(r)
    <3>1. PICK s \in Seq(Tasks) : Renumbering(r, s, request[r].column) /\ Dropped(r, s)
      BY <2>5 DEF AtTarget
    <3>2. PICK c \in Columns : c = request[r].column
      BY <2>4
    <3>3. Renumbering(r, s, c)' /\ Dropped(r, s)'
      BY <2>2, <2>3, <3>1, <3>2
    <3>4. AtTarget(r)'
      BY <2>4, <3>2, <3>3 DEF AtTarget
    <3> QED
      BY <1>1, <1>4, <1>7, <2>1, <3>4 DEF OnCourse, Exists
  <2>6. CASE AtSource(r)
    <3>1. PICK c \in Columns \ {request[r].column}, s \in Seq(Tasks), target \in Seq(Tasks) :
             /\ Renumbering(r, s, c)
             /\ Renumbered(r, target, request[r].column, Len(target))
             /\ Dropped(r, target)
      BY <2>6 DEF AtSource
    <3>2. PICK e \in Columns : e = request[r].column
      BY <2>4
    <3>3. /\ Renumbering(r, s, c)' /\ t \in Standing(v, c)
          /\ \A d \in Columns : Standing(View(r)', d) = Standing(v, d)
          /\ \A u \in Tasks \ {t} : View(r)'[u] = v[u]
      BY <2>2, <3>1
    <3>4. Renumbered(r, target, e, Len(target))'
      <4>1. Renumbered(r, target, e, Len(target)) /\ c # e
        BY <3>1, <3>2
      <4>2. request'[r].task = request[r].task
        BY <1>4, <1>7
      <4> QED
        BY <1>0, <1>1, <3>3, <4>1, <4>2, StaysRenumbered
    <3>5. AtSource(r)'
      <4>1. request[r].from = request[r].column
        BY <2>6 DEF AtSource
      <4> QED
        BY <1>4, <1>7, <2>3, <2>4, <3>1, <3>2, <3>3, <3>4, <4>1 DEF AtSource
    <3> QED
      BY <1>1, <1>4, <1>7, <2>1, <3>5 DEF OnCourse, Exists
  <2> QED
    BY <2>1, <2>5, <2>6
<1> QED
  BY <1>8, <1>10

(* The column the task came from, when the one it is dropped in is done. *)
LEMMA ReadsSourceInv ==
  ASSUME MoveInv, NEW r \in Requests, MoveReadsSource(r)
  PROVE  /\ WritesOwnStatus(r)'
         /\ ~request'[r].overtaken => OnCourse(r)'
<1>0. PICK c, d, own, o :
         /\ c = request[r].from /\ d = request[r].column /\ own = request[r].task
         /\ o = Others(r, request[r].from)
  OBVIOUS
<1> DEFINE m == [request[r] EXCEPT !.queue = o, !.next = 0, !.from = d]
<1>1. /\ TypeOK /\ Moving(r) /\ request[r].op = "renumber" /\ task' = task
      /\ request[r].queue = <<>> /\ c # d /\ Remember(r, m)
  BY <1>0 DEF MoveInv, MoveReadsSource, Moving, Ops
<1>2. request[r] \in Move /\ c \in Columns /\ d \in Columns
  BY <1>0, <1>1, MovingOrIdle, MoveFields
<1>3. Lists(o, Standing(View(r), c) \ {own}, View(r))
  BY <1>0, <1>1, OthersLists
<1>4. o \in Seq(Tasks) /\ Enumerates(o, Standing(View(r), c) \ {own}) /\ InOrder(o, View(r))
  BY <1>3 DEF Lists
<1>5. /\ m \in Move /\ m.op = request[r].op /\ m.task = own
      /\ m.from = d /\ m.column = d /\ m.position = request[r].position
      /\ m.queue = o /\ m.next = 0
      /\ m.written = request[r].written /\ m.overtaken = request[r].overtaken
  BY <1>0, <1>2, <1>4 DEF Move
<1> HIDE DEF m
<1>6. request'[r] = m
  BY <1>1, <1>5, RememberFrame
<1>7. View(r)' = View(r)
  BY <1>1, <1>5, <1>6 DEF View
<1>8. WritesOwnStatus(r) /\ (~request[r].overtaken => OnCourse(r))
  BY <1>1 DEF MoveInv
<1>9. WritesOwnStatus(r)'
  BY <1>0, <1>1, <1>5, <1>6, <1>8 DEF WritesOwnStatus
<1>10. ASSUME ~request'[r].overtaken PROVE OnCourse(r)'
  <2>1. OnCourse(r) /\ AtTarget(r)
    BY <1>0, <1>1, <1>5, <1>6, <1>8, <1>10 DEF OnCourse, AtSource
  <2>2. PICK s \in Seq(Tasks) : Renumbering(r, s, d) /\ Dropped(r, s)
    BY <1>0, <2>1 DEF AtTarget
  <2>3. /\ request[r].next \in Nat /\ request[r].next <= Len(s)
        /\ request[r].queue = SubSeq(s, request[r].next + 1, Len(s))
        /\ Renumbered(r, s, d, request[r].next)
        /\ \A e \in Columns \ {d} : KeepsOrder(r, e)
    BY <1>2, <2>2, MoveFields DEF Renumbering
  <2>4. Renumbered(r, s, d, Len(s))
    BY <1>1, <2>2, <2>3, QueueOfList
  <2>5. KeepsOrder(r, d)
    BY <1>1, <2>2, <2>4, FullyRenumbered
  <2>6. own \in Standing(View(r), d)
    <3>1. Enumerates(s, Standing(View(r), d))
      BY <2>4 DEF Renumbered
    <3>2. own \in ToSet(s)
      BY <1>0, <2>2 DEF Dropped, DroppedInPlace, ToSet
    <3> QED
      BY <3>1, <3>2 DEF Enumerates
  <2>7. Standing(View(r), c) \ {own} = Standing(View(r), c)
    BY <1>1, <2>6, OneColumn
  <2>8. Ordered(o, task, own)
    <3> SUFFICES ASSUME NEW i \in DOMAIN o, NEW j \in DOMAIN o, i < j
                 PROVE  Above(task, o[i], o[j])
      BY DEF Ordered
    <3>1. Above(View(r), o[i], o[j])
      BY <1>4 DEF InOrder
    <3>2. /\ o[i] \in Standing(View(r), c) \ {own}
          /\ o[j] \in Standing(View(r), c) \ {own}
      BY <1>4 DEF Enumerates, ToSet
    <3>3. KeepsOrder(r, c)
      BY <1>1, <1>2, <2>3
    <3> QED
      BY <1>0, <3>1, <3>2, <3>3 DEF KeepsOrder
  <2>9. Renumbered(r, o, c, 0)'
    <3>1. Enumerates(o, Standing(View(r)', c))
      BY <1>4, <1>7, <2>7
    <3>2. Ordered(o, task', request'[r].task)
      BY <1>1, <1>5, <1>6, <2>8
    <3>3. \A i \in 1..0 : View(r)'[o[i]].sortOrder = i - 1
      OBVIOUS
    <3> QED
      BY <3>1, <3>2, <3>3 DEF Renumbered
  <2>10. \A e \in Columns : KeepsOrder(r, e) => KeepsOrder(r, e)'
    BY <1>0, <1>1, <1>5, <1>6, <1>7 DEF KeepsOrder
  <2>11. Renumbering(r, o, c)'
    <3>1. o = SubSeq(o, 0 + 1, Len(o)) /\ 0 <= Len(o)
      BY <1>4
    <3>2. request'[r].queue = o /\ request'[r].next = 0
      BY <1>5, <1>6
    <3>3. \A e \in Columns \ {c} : KeepsOrder(r, e)'
      BY <2>3, <2>5, <2>10
    <3> QED
      BY <2>9, <3>1, <3>2, <3>3 DEF Renumbering
  <2>12. Renumbered(r, s, d, Len(s))'
    BY <1>0, <1>1, <1>5, <1>6, <1>7, <2>4 DEF Renumbered
  <2>13. Dropped(r, s)'
    BY <1>0, <1>5, <1>6, <2>2 DEF Dropped, DroppedInPlace
  <2>14. AtSource(r)'
    <3>1. request'[r].from = d /\ request'[r].column = d
      BY <1>5, <1>6
    <3> QED
      BY <1>1, <1>2, <1>4, <2>2, <2>11, <2>12, <2>13, <3>1 DEF AtSource
  <2> QED
    BY <1>0, <1>1, <1>5, <1>6, <2>1, <2>14 DEF OnCourse, Exists
<1> QED
  BY <1>9, <1>10

(* A move begins with a task that stands and with nothing written. *)
LEMMA BeginsInv ==
  ASSUME MoveInv, NEW r \in Requests, NEW t \in Tasks, NEW status \in Statuses,
         NEW position \in Positions, MoveBegins(r, t, status, position)
  PROVE  /\ WritesOwnStatus(r)'
         /\ ~request'[r].overtaken => OnCourse(r)'
<1>1. /\ request'[r].op = "readTarget" /\ request'[r].task = t /\ request'[r].next = 0
      /\ request'[r].written = [u \in Tasks |-> None]
      /\ request'[r].column = WithStatus(task[t].column, status)
      /\ task' = task /\ Exists(t)
  BY DEF MoveBegins, Remember, MoveInv, TypeOK
<1>2. WritesOwnStatus(r)'
  BY <1>1 DEF WritesOwnStatus
<1>3. InProject(r)'
  <2>1. task[t].column \in Columns
    BY <1>1, RowValue DEF Exists, Rows, MoveInv, TypeOK
  <2> QED
    BY <1>1, <2>1, WithStatusColumn DEF InProject
<1>4. OnCourse(r)'
  BY <1>1, <1>3 DEF OnCourse, Exists
<1> QED
  BY <1>2, <1>4

(* The requests that do not take the step. *)
LEMMA OthersGoOn ==
  ASSUME MoveInv, NEW r \in Requests, UNCHANGED task,
         \A s \in Requests \ {r} :
            request'[s] = request[s] /\ (Moving(s)' <=> Moving(s)),
         TypeOK',
         Moving(r)' => /\ WritesOwnStatus(r)'
                       /\ ~request'[r].overtaken => OnCourse(r)'
  PROVE  MoveInv'
<1>1. ASSUME NEW s \in Requests, Moving(s)'
      PROVE  /\ WritesOwnStatus(s)'
             /\ ~request'[s].overtaken => OnCourse(s)'
  <2>1. CASE s = r
    BY <1>1, <2>1
  <2>2. CASE s # r
    <3>1. request'[s] = request[s] /\ Moving(s)
      BY <1>1, <2>2
    <3>2. WritesOwnStatus(s) /\ (~request[s].overtaken => OnCourse(s))
      BY <3>1 DEF MoveInv
    <3> QED
      BY <3>1, <3>2, Untouched
  <2> QED
    BY <2>1, <2>2
<1> QED
  BY <1>1 DEF MoveInv

(* A step that changes a row which no transaction holds. *)
LEMMA RowChangesInv ==
  ASSUME MoveInv, TypeOK', NEW t \in Tasks, lock[t] = None, NEW row,
         task' = [task EXCEPT ![t] = row], Overtake
  PROVE  MoveInv'
<1>1. ASSUME NEW r \in Requests, Moving(r)'
      PROVE  /\ WritesOwnStatus(r)'
             /\ request'[r].overtaken
  <2>1. /\ Moving(r)
        /\ request'[r].overtaken
        /\ request'[r].op = request[r].op /\ request'[r].task = request[r].task
        /\ request'[r].next = request[r].next
        /\ request'[r].written = request[r].written
    BY <1>1, OvertakeFrame DEF MoveInv
  <2>2. \A u \in Tasks : request[r].written[u] # None => u # t
    BY <2>1, WriterOfRow DEF MoveInv
  <2>3. \A u \in Tasks : request[r].written[u] # None => task'[u] = task[u]
    BY <2>2 DEF MoveInv, TypeOK
  <2> QED
    BY <2>1, <2>3, OvertakenInv
<1> QED
  BY <1>1 DEF MoveInv

LEMMA CommitsInv ==
  ASSUME MoveInv, TypeOK', NEW r \in Requests, MoveCommits(r)
  PROVE  MoveInv'
<1>1. TypeOK /\ Moving(r) /\ task' = View(r)
  BY DEF MoveInv, MoveCommits, Commits, Moving, Ops
<1>2. ASSUME NEW s \in Requests, Moving(s)'
      PROVE  /\ WritesOwnStatus(s)'
             /\ request'[s].overtaken
  <2>1. s # r /\ Moving(s)
    BY <1>1, <1>2, CommitFrame
  <2>2. /\ request'[s].overtaken
        /\ request'[s].op = request[s].op /\ request'[s].task = request[s].task
        /\ request'[s].next = request[s].next
        /\ request'[s].written = request[s].written
    BY <1>1, <2>1, CommitFrame
  <2>3. ASSUME NEW u \in Tasks, request[s].written[u] # None PROVE task'[u] = task[u]
    <3>1. lock[u] = s
      BY <1>1, <2>1, <2>3, WriterOfRow
    <3>2. request[r].written[u] = None
      BY <1>1, <2>1, <3>1, WriterOfRow
    <3> QED
      BY <1>1, <3>2 DEF View
  <2> QED
    BY <2>1, <2>2, <2>3, OvertakenInv
<1> QED
  BY <1>2 DEF MoveInv

LEMMA WriteOfOne ==
  ASSUME TypeOK, NEW r \in Requests, NEW t, NEW row, NEW m, Write(r, t, row, m)
  PROVE  \A s \in Requests \ {r} :
            request'[s] = request[s] /\ (Moving(s)' <=> Moving(s))
<1>1. PICK n : request' = [request EXCEPT ![r] = n]
  BY DEF Write, Remember
<1> QED
  BY <1>1 DEF TypeOK, Moving

LEMMA MoveInvInit == Init => MoveInv
<1>1. Init => \A r \in Requests : ~Moving(r)
  BY DEF Init, Moving, Idle, Ops
<1> QED
  BY <1>1, TypeInit DEF MoveInv

LEMMA MoveInvStep == MoveInv /\ [Next]_vars => MoveInv'
<1> SUFFICES ASSUME MoveInv, [Next]_vars PROVE MoveInv'
  OBVIOUS
<1>0. TypeOK /\ TypeOK'
  BY TypeStep DEF MoveInv
<1>1. ASSUME NEW t \in Tasks, NEW column \in CreatedIn, Create(t, column) PROVE MoveInv'
  <2>1. lock[t] = None
    BY <1>0, <1>1 DEF Create, TypeOK, Exists
  <2> QED
    BY <1>0, <1>1, <2>1, RowChangesInv DEF Create
<1>2. ASSUME NEW t \in Tasks, Update(t) PROVE MoveInv'
  BY <1>0, <1>2, RowChangesInv DEF Update
<1>3. ASSUME NEW t \in Tasks, Delete(t) PROVE MoveInv'
  BY <1>0, <1>3, RowChangesInv DEF Delete
<1>4. ASSUME NEW r \in Requests, NEW t \in Tasks, NEW status \in Statuses,
             NEW position \in Positions, MoveBegins(r, t, status, position)
      PROVE  MoveInv'
  <2>1. /\ UNCHANGED task
        /\ \A s \in Requests \ {r} :
             request'[s] = request[s] /\ (Moving(s)' <=> Moving(s))
    BY <1>0, <1>4 DEF MoveBegins, Remember, Moving
  <2> QED
    BY <1>0, <1>4, <2>1, BeginsInv, OthersGoOn
<1>5. ASSUME NEW r \in Requests, MoveReadsTarget(r) PROVE MoveInv'
  <2>1. /\ UNCHANGED task
        /\ \A s \in Requests \ {r} :
             request'[s] = request[s] /\ (Moving(s)' <=> Moving(s))
    BY <1>0, <1>5 DEF MoveReadsTarget, Remember, Moving
  <2> QED
    BY <1>0, <1>5, <2>1, ReadsTargetInv, OthersGoOn
<1>6. ASSUME NEW r \in Requests, MoveWritesStatus(r) PROVE MoveInv'
  <2>1. /\ UNCHANGED task
        /\ \A s \in Requests \ {r} :
             request'[s] = request[s] /\ (Moving(s)' <=> Moving(s))
    BY <1>0, <1>6, WriteOfOne DEF MoveWritesStatus
  <2> QED
    BY <1>0, <1>6, <2>1, WritesStatusInv, OthersGoOn
<1>7. ASSUME NEW r \in Requests, MoveRenumbers(r) PROVE MoveInv'
  <2>1. /\ UNCHANGED task
        /\ \A s \in Requests \ {r} :
             request'[s] = request[s] /\ (Moving(s)' <=> Moving(s))
    BY <1>0, <1>7, WriteOfOne DEF MoveRenumbers
  <2> QED
    BY <1>0, <1>7, <2>1, RenumbersInv, OthersGoOn
<1>8. ASSUME NEW r \in Requests, MoveReadsSource(r) PROVE MoveInv'
  <2>1. /\ UNCHANGED task
        /\ \A s \in Requests \ {r} :
             request'[s] = request[s] /\ (Moving(s)' <=> Moving(s))
    BY <1>0, <1>8 DEF MoveReadsSource, Remember, Moving
  <2> QED
    BY <1>0, <1>8, <2>1, ReadsSourceInv, OthersGoOn
<1>9. ASSUME NEW r \in Requests, MoveCommits(r) PROVE MoveInv'
  BY <1>0, <1>9, CommitsInv
<1>10. ASSUME NEW r \in Requests, MoveFails(r) PROVE MoveInv'
  <2>1. /\ UNCHANGED task
        /\ \A s \in Requests \ {r} :
             request'[s] = request[s] /\ (Moving(s)' <=> Moving(s))
    BY <1>0, <1>10 DEF MoveFails, Remember, Moving
  <2>2. ~Moving(r)'
    BY <1>0, <1>10 DEF MoveFails, Remember, Moving, Idle, Ops, TypeOK
  <2> QED
    BY <1>0, <2>1, <2>2, OthersGoOn
<1>11. CASE UNCHANGED vars
  <2>1. UNCHANGED <<task, request>>
    BY <1>11 DEF vars
  <2>2. \A r \in Requests : (Moving(r)' <=> Moving(r)) /\ request'[r] = request[r]
    BY <2>1 DEF Moving
  <2>3. ASSUME NEW r \in Requests, Moving(r)'
        PROVE  /\ WritesOwnStatus(r)'
               /\ ~request'[r].overtaken => OnCourse(r)'
    BY <2>1, <2>2, <2>3, Untouched DEF MoveInv
  <2> QED
    BY <1>0, <2>3 DEF MoveInv
<1> QED
  BY <1>1, <1>2, <1>3, <1>4, <1>5, <1>6, <1>7, <1>8, <1>9, <1>10, <1>11
     DEF Next, MoveStep, MoveAborts

(* A move in flight that nothing has overtaken knows where its task is to stand
   and keeps the order of everything else. *)
THEOREM MovesOnCourse == Spec => []MoveInv
  BY MoveInvInit, MoveInvStep, PTL DEF Spec

-----------------------------------------------------------------------------
(* What a commit does to the board *)

(* In a commit that nothing has overtaken every column has its order, and the
   task stands where it was dropped. *)
LEMMA CommitInOrder ==
  ASSUME MoveInv, NEW r \in Requests, Commits(r), ~request[r].overtaken
  PROVE  /\ \A c \in Columns : KeepsOrder(r, c)
         /\ \E s \in Seq(Tasks) :
              /\ Lists(s, Standing(View(r), request[r].column), View(r))
              /\ Dropped(r, s)
<1>0. PICK d : d = request[r].column
  OBVIOUS
<1>1. /\ TypeOK /\ Moving(r) /\ request[r].op = "renumber" /\ request[r].queue = <<>>
      /\ request[r].next \in Nat
  BY MovingOrIdle, MoveFields DEF MoveInv, Commits, Moving, Ops
<1>2. OnCourse(r) /\ (AtTarget(r) \/ AtSource(r))
  BY <1>1 DEF MoveInv, OnCourse
<1>3. ASSUME NEW c, NEW s \in Seq(Tasks), Renumbering(r, s, c)
      PROVE  Renumbered(r, s, c, Len(s)) /\ \A e \in Columns \ {c} : KeepsOrder(r, e)
  <2>1. /\ request[r].next <= Len(s)
        /\ request[r].queue = SubSeq(s, request[r].next + 1, Len(s))
        /\ Renumbered(r, s, c, request[r].next)
        /\ \A e \in Columns \ {c} : KeepsOrder(r, e)
    BY <1>3 DEF Renumbering
  <2>2. request[r].next = Len(s)
    BY <1>1, <2>1, QueueOfList
  <2> QED
    BY <2>1, <2>2
<1>4. CASE AtTarget(r)
  <2>1. PICK s \in Seq(Tasks) : Renumbering(r, s, d) /\ Dropped(r, s)
    BY <1>0, <1>4 DEF AtTarget
  <2>2. Renumbered(r, s, d, Len(s)) /\ \A e \in Columns \ {d} : KeepsOrder(r, e)
    BY <1>3, <2>1
  <2>3. Lists(s, Standing(View(r), d), View(r)) /\ KeepsOrder(r, d)
    BY <1>1, <2>2, FullyRenumbered
  <2> QED
    BY <1>0, <2>1, <2>2, <2>3
<1>5. CASE AtSource(r)
  <2>1. PICK c \in Columns \ {d}, s \in Seq(Tasks), target \in Seq(Tasks) :
           /\ Renumbering(r, s, c)
           /\ Renumbered(r, target, d, Len(target))
           /\ Dropped(r, target)
    BY <1>0, <1>5 DEF AtSource
  <2>2. Renumbered(r, s, c, Len(s)) /\ \A e \in Columns \ {c} : KeepsOrder(r, e)
    BY <1>3, <2>1
  <2>3. KeepsOrder(r, c)
    BY <1>1, <2>2, FullyRenumbered
  <2>4. Lists(target, Standing(View(r), d), View(r))
    BY <1>1, <2>1, FullyRenumbered
  <2> QED
    BY <1>0, <2>1, <2>2, <2>3, <2>4
<1> QED
  BY <1>2, <1>4, <1>5

(* A move takes no task but its own out of its column. *)
LEMMA OthersStand ==
  ASSUME MoveInv, NEW r \in Requests, Moving(r), NEW c
  PROVE  Standing(View(r), c) \ {request[r].task} = Standing(task, c) \ {request[r].task}
<1>1. TypeOK /\ WritesOwnStatus(r)
  BY DEF MoveInv
<1>2. \A t \in Tasks : View(r)[t].at = "there" <=> task[t].at = "there"
  BY <1>1, ViewType DEF Exists
<1>3. \A t \in Tasks \ {request[r].task} : View(r)[t].column = task[t].column
  BY <1>1 DEF View, WritesOwnStatus
<1> QED
  BY <1>2, <1>3 DEF Standing

LEMMA CommitOnBoard ==
  ASSUME MoveInv, TypeOK', NEW r \in Requests, MoveCommits(r)
  PROVE  B!Next
<1>0. PICK own : own = request[r].task
  OBVIOUS
<1>1. TypeOK /\ Moving(r) /\ task' = View(r) /\ Commits(r)
  BY DEF MoveInv, MoveCommits, Commits, Moving, Ops
<1>2. own \in Tasks /\ task \in Rows /\ task' \in Rows
  BY <1>0, <1>1, MovingOrIdle, MoveFields DEF TypeOK, Rows
<1>3. \A c \in Columns : Standing(task', c) \ {own} = Standing(task, c) \ {own}
  BY <1>0, <1>1, OthersStand
<1>4. CASE ~request[r].overtaken
  <2>1. \A c \in Columns : KeepsOrder(r, c)
    BY <1>1, <1>4, CommitInOrder
  <2>2. \A c \in Columns : \A u, v \in Standing(task, c) \ {own} :
           Above(task', u, v) <=> Above(task, u, v)
    BY <1>0, <1>1, <1>3, <2>1 DEF KeepsOrder
  <2>3. B!Put(own) \/ B!Take(own)
    BY <1>2, <1>3, <2>2, BoardMoves
  <2> QED
    BY <1>2, <2>3 DEF B!Next
<1>5. CASE request[r].overtaken
  <2>1. own \in Overtaken
    BY <1>0, <1>1, <1>5 DEF Overtaken
  <2>2. ASSUME NEW c \in Columns
        PROVE  /\ B!ToSet(BoardView'[c]) \ {own} = B!ToSet(BoardView[c]) \ {own}
               /\ B!IsInjective(BoardView'[c])
    <3>1. BoardView[c] = Column(task, c) /\ BoardView'[c] = Column(task', c)
      BY DEF BoardView
    <3>2. /\ Enumerates(Column(task, c), Standing(task, c))
          /\ Enumerates(Column(task', c), Standing(task', c))
      BY <1>2, ColumnLists DEF Lists
    <3>3. /\ ToSet(BoardView[c]) = Standing(task, c)
          /\ ToSet(BoardView'[c]) = Standing(task', c)
          /\ IsInjective(BoardView'[c])
      BY <3>1, <3>2 DEF Enumerates
    <3> QED
      BY <1>3, <3>3 DEF B!ToSet, ToSet, B!IsInjective, IsInjective
  <2>3. B!Muddle(own)
    BY <2>1, <2>2 DEF B!Muddle
  <2> QED
    BY <1>2, <2>3 DEF B!Next
<1> QED
  BY <1>4, <1>5

(* An operation of one statement changes one row. *)
LEMMA RowChangesBoard ==
  ASSUME TypeOK, TypeOK', NEW t \in Tasks, NEW row, task' = [task EXCEPT ![t] = row]
  PROVE  B!Next
<1>1. task \in Rows /\ task' \in Rows
  BY DEF TypeOK, Rows
<1>2. \A u \in Tasks \ {t} : task'[u] = task[u]
  BY <1>1 DEF Rows
<1>3. \A c \in Columns : Standing(task', c) \ {t} = Standing(task, c) \ {t}
  BY <1>2 DEF Standing
<1>4. ASSUME NEW c \in Columns,
             NEW u \in Standing(task, c) \ {t}, NEW v \in Standing(task, c) \ {t}
      PROVE  Above(task', u, v) <=> Above(task, u, v)
  <2>1. task'[u] = task[u] /\ task'[v] = task[v]
    BY <1>2, StandingTasks
  <2> QED
    BY <2>1 DEF Above
<1>5. B!Put(t) \/ B!Take(t)
  BY <1>1, <1>3, <1>4, BoardMoves
<1> QED
  BY <1>5 DEF B!Next

LEMMA EmptyBoard == Init => B!Init
<1> SUFFICES ASSUME Init PROVE B!Init
  OBVIOUS
<1>1. task \in Rows
  BY DEF Init, Rows
<1>2. \A c : Standing(task, c) = {}
  BY DEF Init, Standing, Unborn
<1>3. ASSUME NEW c \in Columns PROVE Column(task, c) = <<>>
  <2>1. Lists(Column(task, c), {}, task)
    BY <1>1, <1>2, ColumnLists
  <2> DEFINE s == Column(task, c)
  <2>2. s \in Seq(Tasks) /\ Enumerates(s, {})
    BY <2>1 DEF Lists
  <2> HIDE DEF s
  <2>3. \A i \in 1..Len(s) : FALSE
    BY <2>2, ListElements
  <2>4. Len(s) = 0
    BY <2>2, <2>3
  <2>5. s = <<>>
    BY <2>2, <2>4, EmptySeq
  <2> QED
    BY <2>5 DEF s
<1> QED
  BY <1>3 DEF B!Init, BoardView

LEMMA BoardStep == MoveInv /\ [Next]_vars => [B!Next]_BoardView
<1> SUFFICES ASSUME MoveInv, [Next]_vars PROVE B!Next \/ BoardView' = BoardView
  OBVIOUS
<1>0. TypeOK /\ TypeOK'
  BY TypeStep DEF MoveInv
<1>1. ASSUME NEW t \in Tasks, NEW column \in CreatedIn, Create(t, column) PROVE B!Next
  BY <1>0, <1>1, RowChangesBoard DEF Create
<1>2. ASSUME NEW t \in Tasks, Update(t) PROVE B!Next
  BY <1>0, <1>2, RowChangesBoard DEF Update
<1>3. ASSUME NEW t \in Tasks, Delete(t) PROVE B!Next
  BY <1>0, <1>3, RowChangesBoard DEF Delete
<1>4. ASSUME NEW r \in Requests, MoveCommits(r) PROVE B!Next
  BY <1>0, <1>4, CommitOnBoard
<1>5. CASE UNCHANGED task
  BY <1>5 DEF BoardView
<1>6. ASSUME NEW r \in Requests, MoveStep(r) \/ MoveFails(r)
      PROVE  MoveCommits(r) \/ UNCHANGED task
  BY <1>6 DEF MoveStep, MoveReadsTarget, MoveWritesStatus, MoveRenumbers, MoveReadsSource,
     MoveAborts, MoveFails
<1> QED
  BY <1>1, <1>2, <1>3, <1>4, <1>5, <1>6 DEF Next, MoveBegins, vars

(* Whatever the transactions interleave, each commit moves its own task only or,
   overtaken, takes no other out of its column. *)
THEOREM RowsImplementBoard == Spec => ImplementsBoard
<1>1. Init => MoveInv /\ B!Init
  BY MoveInvInit, EmptyBoard
<1>2. MoveInv /\ [Next]_vars => MoveInv' /\ [B!Next]_BoardView
  BY MoveInvStep, BoardStep
<1> QED
  BY <1>1, <1>2, PTL DEF Spec, ImplementsBoard, B!Spec

-----------------------------------------------------------------------------
(* Where a move leaves its task *)

(* The column for the status the user dropped the task in, of the project it has. *)
DroppedIn(r) == WithStatus(task[request[r].task].column, request[r].column[2])

(* From the status on, a task that still stands is written into that column. *)

InTarget(r) ==
    LET m == request[r]
    IN  /\ task[m.task].at # "unborn"
        /\ m.op = "renumber" /\ Exists(m.task) =>
              /\ m.written[m.task] # None
              /\ m.written[m.task].column = DroppedIn(r)

TargetInv == TypeOK /\ \A r \in Requests : Moving(r) => InTarget(r)

LEMMA StaysInTarget ==
  ASSUME TargetInv, NEW r \in Requests, UNCHANGED task,
         \A s \in Requests \ {r} :
            request'[s] = request[s] /\ (Moving(s)' <=> Moving(s)),
         TypeOK', Moving(r)' => InTarget(r)'
  PROVE  TargetInv'
<1>1. ASSUME NEW s \in Requests \ {r}, Moving(s)' PROVE InTarget(s)'
  <2>1. InTarget(s) /\ request'[s] = request[s]
    BY <1>1 DEF TargetInv
  <2> QED
    BY <2>1 DEF InTarget, DroppedIn, Exists
<1> QED
  BY <1>1 DEF TargetInv

(* A row that is gone stays gone, and one that is written is locked. *)
LEMMA RowChangesTarget ==
  ASSUME TargetInv, TypeOK', NEW t \in Tasks, lock[t] = None, task[t].at # "gone",
         NEW row \in Row \cup {Gone}, task' = [task EXCEPT ![t] = row], Overtake
  PROVE  TargetInv'
<1>1. ASSUME NEW r \in Requests, Moving(r)' PROVE InTarget(r)'
  <2>0. PICK own : own = request[r].task
    OBVIOUS
  <2>1. TypeOK /\ Moving(r) /\ InTarget(r)
    BY <1>1, OvertakeFrame DEF TargetInv
  <2>2. /\ request[r] \in Move /\ request'[r] = [request[r] EXCEPT !.overtaken = TRUE]
        /\ own \in Tasks /\ task \in Rows
    BY <2>0, <2>1, MovingOrIdle, MoveFields DEF Overtake, TypeOK, Rows
  <2>3. /\ request'[r].task = own /\ request'[r].op = request[r].op
        /\ request'[r].column = request[r].column
        /\ request'[r].written = request[r].written
    BY <2>0, <2>2, OvertakenMove
  <2>4. CASE own = t
    <3>1. Exists(own)
      BY <2>0, <2>1, <2>2, <2>4, RowValue DEF InTarget, Exists
    <3>2. request[r].written[own] = None
      BY <2>1, <2>2, <2>4, WriterOfRow
    <3>3. request[r].op # "renumber"
      BY <2>0, <2>1, <3>1, <3>2 DEF InTarget
    <3>4. task'[own].at # "unborn"
      BY <2>2, <2>4 DEF Rows, Row, Gone
    <3> QED
      BY <2>3, <3>3, <3>4 DEF InTarget
  <2>5. CASE own # t
    <3>1. task'[own] = task[own]
      BY <2>2, <2>5 DEF Rows
    <3> QED
      BY <2>0, <2>1, <2>3, <3>1 DEF InTarget, DroppedIn, Exists
  <2> QED
    BY <2>4, <2>5
<1> QED
  BY <1>1 DEF TargetInv

LEMMA CommitsTarget ==
  ASSUME TargetInv, TypeOK', NEW r \in Requests, MoveCommits(r)
  PROVE  TargetInv'
<1>1. TypeOK /\ Moving(r) /\ task' = View(r) /\ ~Moving(r)'
  BY CommitFrame DEF TargetInv, MoveCommits, Commits, Moving, Ops
<1>2. ASSUME NEW s \in Requests, Moving(s)' PROVE InTarget(s)'
  <2>0. PICK own : own = request[s].task
    OBVIOUS
  <2>1. s # r /\ Moving(s) /\ InTarget(s)
    BY <1>1, <1>2, CommitFrame DEF TargetInv
  <2>2. request[s] \in Move /\ request'[s] = [request[s] EXCEPT !.overtaken = TRUE]
    BY <1>1, <2>1, MovingOrIdle DEF MoveCommits
  <2>3. /\ own \in Tasks /\ request'[s].task = own /\ request'[s].op = request[s].op
        /\ request'[s].column = request[s].column
        /\ request'[s].written = request[s].written
    BY <2>0, <2>2, MoveFields, OvertakenMove
  <2>4. task'[own].at # "unborn" /\ (Exists(own)' <=> Exists(own))
    <3>1. Exists(own)' <=> Exists(own)
      BY <1>1, <2>3, ViewType DEF Exists
    <3>2. ~Exists(own) => request[r].written[own] = None
      BY <1>1, <2>3, WriterOfRow
    <3>3. ~Exists(own) => task'[own] = task[own]
      BY <1>1, <2>3, <3>2 DEF View
    <3> QED
      BY <2>0, <2>1, <3>1, <3>3 DEF InTarget, Exists
  <2>5. request[s].written[own] # None => task'[own] = task[own]
    <3>1. request[s].written[own] # None => request[r].written[own] = None
      BY <1>1, <2>1, <2>3, WriterOfRow
    <3> QED
      BY <1>1, <2>3, <3>1 DEF View
  <2> QED
    BY <2>0, <2>1, <2>3, <2>4, <2>5 DEF InTarget, DroppedIn
<1> QED
  BY <1>2 DEF TargetInv

LEMMA WritesStatusTarget ==
  ASSUME MoveInv, TargetInv, NEW r \in Requests, MoveWritesStatus(r)
  PROVE  InTarget(r)'
<1>0. PICK c, own, row, m :
         /\ c = request[r].column /\ own = request[r].task
         /\ row = [View(r)[own] EXCEPT !.column = WithStatus(@, c[2])]
         /\ m = [request[r] EXCEPT !.op = "renumber"]
  OBVIOUS
<1>1. TypeOK /\ Moving(r) /\ InTarget(r) /\ task' = task /\ Write(r, own, row, m)
  BY <1>0 DEF TargetInv, MoveWritesStatus, Moving, Ops
<1>2. /\ request[r] \in Move /\ own \in Tasks /\ c \in Columns
      /\ request[r].written \in [Tasks -> Row \cup {None}] /\ task \in Rows
  BY <1>0, <1>1, MovingOrIdle, MoveFields DEF TypeOK, Rows
<1>3. Exists(own) => row \in Row /\ row.column = WithStatus(View(r)[own].column, c[2])
  BY <1>0, <1>1, <1>2, StatusWritten
<1>4. m \in Move /\ m.task = own /\ m.column = c /\ m.written = request[r].written
  BY <1>0, <1>2 DEF Move, Ops
<1>5. Wrote(r, own, row, m)
  BY <1>1, <1>2, <1>3, <1>4, WriteFrame
<1>6. /\ request'[r].task = own /\ request'[r].column = c
      /\ Exists(own) => request'[r].written[own] = row
  BY <1>2, <1>4, <1>5 DEF Wrote
<1>7. Exists(own) => row # None
  BY <1>3, NoneAssumption
<1>8. View(r)[own] = task[own]
  <2>1. request[r].written[own] = None
    BY <1>1, <1>2 DEF MoveInv, WritesOwnStatus, MoveWritesStatus
  <2> QED
    BY <1>2, <2>1 DEF View
<1> QED
  BY <1>0, <1>1, <1>3, <1>6, <1>7, <1>8 DEF InTarget, DroppedIn, Exists

LEMMA RenumbersTarget ==
  ASSUME TargetInv, NEW r \in Requests, MoveRenumbers(r)
  PROVE  InTarget(r)'
<1>0. PICK t, row, own, m :
         /\ t = Head(request[r].queue) /\ own = request[r].task
         /\ row = [View(r)[t] EXCEPT !.sortOrder = request[r].next]
         /\ m = [request[r] EXCEPT !.queue = Tail(@), !.next = @ + 1]
  OBVIOUS
<1>1. /\ TypeOK /\ Moving(r) /\ InTarget(r) /\ request[r].op = "renumber" /\ task' = task
      /\ request[r].queue # <<>> /\ Write(r, t, row, m)
  BY <1>0 DEF TargetInv, MoveRenumbers, Moving, Ops
<1>2. /\ request[r] \in Move /\ request[r].queue \in Seq(Tasks) /\ request[r].next \in Nat
      /\ request[r].written \in [Tasks -> Row \cup {None}] /\ own \in Tasks
  BY <1>0, <1>1, MovingOrIdle, MoveFields
<1>3. t \in Tasks /\ Tail(request[r].queue) \in Seq(Tasks)
  BY <1>0, <1>1, <1>2
<1>4. /\ m \in Move /\ m.task = own /\ m.column = request[r].column
      /\ m.written = request[r].written
  BY <1>0, <1>2, <1>3, RenumberingMove
<1>5. Exists(t) => row \in Row /\ row.column = View(r)[t].column
  BY <1>0, <1>1, <1>2, <1>3, ViewType DEF Row
<1>6. Wrote(r, t, row, m)
  BY <1>1, <1>3, <1>4, <1>5, WriteFrame
<1>7. /\ request'[r].task = own /\ request'[r].column = request[r].column
      /\ request'[r].written =
           IF Exists(t) THEN [request[r].written EXCEPT ![t] = row]
           ELSE request[r].written
  BY <1>4, <1>6 DEF Wrote
<1>8. Exists(own) => /\ request'[r].written[own] # None
                     /\ request'[r].written[own].column = DroppedIn(r)
  <2> SUFFICES ASSUME Exists(own)
               PROVE  /\ request'[r].written[own] # None
                      /\ request'[r].written[own].column = DroppedIn(r)
    OBVIOUS
  <2>1. request[r].written[own] # None /\ request[r].written[own].column = DroppedIn(r)
    BY <1>0, <1>1 DEF InTarget
  <2>2. CASE t = own
    <3>1. request'[r].written[own] = row
      BY <1>2, <1>7, <2>2
    <3>2. row # None
      BY <1>5, <2>2, NoneAssumption
    <3>3. View(r)[own].column = DroppedIn(r)
      BY <1>2, <2>1 DEF View
    <3> QED
      BY <1>5, <2>2, <3>1, <3>2, <3>3
  <2>3. CASE t # own
    BY <1>2, <1>7, <2>1, <2>3
  <2> QED
    BY <2>2, <2>3
<1> QED
  BY <1>0, <1>1, <1>7, <1>8 DEF InTarget, DroppedIn, Exists

LEMMA ReadsTarget ==
  ASSUME TargetInv, NEW r \in Requests, MoveReadsTarget(r) \/ MoveReadsSource(r)
  PROVE  InTarget(r)'
<1>1. TypeOK /\ Moving(r) /\ InTarget(r) /\ task' = task
  BY DEF TargetInv, MoveReadsTarget, MoveReadsSource, Moving, Ops
<1>2. request[r] \in Move
  BY <1>1, MovingOrIdle
<1>3. CASE MoveReadsTarget(r)
  <2>1. PICK q : request' = [request EXCEPT ![r] =
                               [request[r] EXCEPT !.op = "writeStatus", !.queue = q]]
    BY <1>3 DEF MoveReadsTarget, Remember
  <2>2. request'[r] = [request[r] EXCEPT !.op = "writeStatus", !.queue = q]
    BY <1>1, <2>1 DEF TypeOK
  <2>3. request'[r].op = "writeStatus" /\ request'[r].task = request[r].task
    BY <1>2, <2>2 DEF Move
  <2> QED
    BY <1>1, <2>3 DEF InTarget
<1>4. CASE MoveReadsSource(r)
  <2>1. PICK q, c : request' = [request EXCEPT ![r] =
                                  [request[r] EXCEPT !.queue = q, !.next = 0, !.from = c]]
    BY <1>4 DEF MoveReadsSource, Remember
  <2>2. request'[r] = [request[r] EXCEPT !.queue = q, !.next = 0, !.from = c]
    BY <1>1, <2>1 DEF TypeOK
  <2>3. /\ request'[r].op = request[r].op /\ request'[r].task = request[r].task
        /\ request'[r].column = request[r].column
        /\ request'[r].written = request[r].written
    BY <1>2, <2>2 DEF Move
  <2> QED
    BY <1>1, <2>3 DEF InTarget, DroppedIn, Exists
<1> QED
  BY <1>3, <1>4

LEMMA TargetStep == MoveInv /\ TargetInv /\ [Next]_vars => TargetInv'
<1> SUFFICES ASSUME MoveInv, TargetInv, [Next]_vars PROVE TargetInv'
  OBVIOUS
<1>0. TypeOK /\ TypeOK' /\ task \in Rows
  BY TypeStep DEF TargetInv, TypeOK, Rows
<1>1. ASSUME NEW t \in Tasks, NEW column \in CreatedIn, Create(t, column) PROVE TargetInv'
  <2>1. lock[t] = None /\ task[t].at # "gone"
    BY <1>0, <1>1 DEF Create, TypeOK, Exists
  <2>2. There(column, 0) \in Row
    BY BoardAssumption, ThereIsRow
  <2> QED
    BY <1>0, <1>1, <2>1, <2>2, RowChangesTarget DEF Create
<1>2. ASSUME NEW t \in Tasks, Update(t) PROVE TargetInv'
  <2>1. PICK column \in EditedTo \cup {task[t].column},
             sortOrder \in Orders \cup {task[t].sortOrder} :
           task' = [task EXCEPT ![t] = There(column, sortOrder)]
    BY <1>2 DEF Update
  <2>2. sortOrder \in Int /\ column \in Columns
    BY <1>0, <1>2, BoardAssumption, RowValue DEF Update, Exists
  <2>3. There(column, sortOrder) \in Row
    BY <2>2, ThereIsRow
  <2> QED
    BY <1>0, <1>2, <2>1, <2>3, RowChangesTarget DEF Update, Exists
<1>3. ASSUME NEW t \in Tasks, Delete(t) PROVE TargetInv'
  BY <1>0, <1>3, RowChangesTarget DEF Delete, Exists
<1>4. ASSUME NEW r \in Requests, NEW t \in Tasks, NEW status \in Statuses,
             NEW position \in Positions, MoveBegins(r, t, status, position)
      PROVE  TargetInv'
  <2>1. /\ UNCHANGED task /\ Exists(t)
        /\ request'[r].op = "readTarget" /\ request'[r].task = t
        /\ \A s \in Requests \ {r} :
             request'[s] = request[s] /\ (Moving(s)' <=> Moving(s))
    BY <1>0, <1>4 DEF MoveBegins, Remember, Moving, TypeOK
  <2>2. InTarget(r)'
    BY <2>1 DEF InTarget, Exists
  <2> QED
    BY <1>0, <2>1, <2>2, StaysInTarget
<1>5. ASSUME NEW r \in Requests, MoveReadsTarget(r) \/ MoveReadsSource(r) PROVE TargetInv'
  <2>1. /\ UNCHANGED task
        /\ \A s \in Requests \ {r} :
             request'[s] = request[s] /\ (Moving(s)' <=> Moving(s))
    <3>1. UNCHANGED task /\ \E m : request' = [request EXCEPT ![r] = m]
      BY <1>5 DEF MoveReadsTarget, MoveReadsSource, Remember
    <3> QED
      BY <1>0, <3>1 DEF TypeOK, Moving
  <2> QED
    BY <1>0, <1>5, <2>1, ReadsTarget, StaysInTarget
<1>6. ASSUME NEW r \in Requests, MoveWritesStatus(r) PROVE TargetInv'
  <2>1. /\ UNCHANGED task
        /\ \A s \in Requests \ {r} :
             request'[s] = request[s] /\ (Moving(s)' <=> Moving(s))
    BY <1>0, <1>6, WriteOfOne DEF MoveWritesStatus
  <2> QED
    BY <1>0, <1>6, <2>1, WritesStatusTarget, StaysInTarget
<1>7. ASSUME NEW r \in Requests, MoveRenumbers(r) PROVE TargetInv'
  <2>1. /\ UNCHANGED task
        /\ \A s \in Requests \ {r} :
             request'[s] = request[s] /\ (Moving(s)' <=> Moving(s))
    BY <1>0, <1>7, WriteOfOne DEF MoveRenumbers
  <2> QED
    BY <1>0, <1>7, <2>1, RenumbersTarget, StaysInTarget
<1>8. ASSUME NEW r \in Requests, MoveCommits(r) PROVE TargetInv'
  BY <1>0, <1>8, CommitsTarget
<1>9. ASSUME NEW r \in Requests, MoveFails(r) PROVE TargetInv'
  <2>1. /\ UNCHANGED task
        /\ \A s \in Requests \ {r} :
             request'[s] = request[s] /\ (Moving(s)' <=> Moving(s))
    BY <1>0, <1>9 DEF MoveFails, Remember, Moving
  <2>2. ~Moving(r)'
    BY <1>0, <1>9 DEF MoveFails, Remember, Moving, Idle, Ops, TypeOK
  <2> QED
    BY <1>0, <2>1, <2>2, StaysInTarget
<1>10. CASE UNCHANGED vars
  BY <1>0, <1>10 DEF vars, TargetInv, InTarget, DroppedIn, Moving, Exists
<1> QED
  BY <1>1, <1>2, <1>3, <1>4, <1>5, <1>6, <1>7, <1>8, <1>9, <1>10
     DEF Next, MoveStep, MoveAborts

LEMMA TargetInit == Init => TargetInv
<1>1. Init => \A r \in Requests : ~Moving(r)
  BY DEF Init, Moving, Idle, Ops
<1> QED
  BY <1>1, TypeInit DEF TargetInv

(* A commit that nothing overtook shows the task where the user dropped it. *)
LEMMA PlaceStep ==
  ASSUME MoveInv, TypeOK', NEW r \in Requests, MoveCommits(r), ~request[r].overtaken
  PROVE  DroppedInPlace(request[r], BoardView'[request[r].column])
<1>0. PICK c : c = request[r].column
  OBVIOUS
<1>1. TypeOK /\ Moving(r) /\ task' = View(r) /\ Commits(r)
  BY DEF MoveInv, MoveCommits, Commits, Moving, Ops
<1>2. c \in Columns /\ task' \in Rows
  BY <1>0, <1>1, MovingOrIdle, MoveFields DEF TypeOK, Rows
<1>3. PICK s \in Seq(Tasks) : Lists(s, Standing(task', c), task') /\ Dropped(r, s)
  BY <1>0, <1>1, CommitInOrder
<1>4. Standing(task', c) \in SUBSET Tasks /\ Sortable(task', Standing(task', c))
  BY <1>2, RowsSortable
<1>5. BoardView'[c] = s
  <2>1. Sorted(task', Standing(task', c)) = s
    BY <1>3, <1>4, ListIsSorted
  <2> QED
    BY <1>2, <2>1 DEF BoardView, Column
<1> QED
  BY <1>0, <1>3, <1>5 DEF Dropped

(* Every commit shows it in that column. *)
LEMMA ColumnStep ==
  ASSUME TargetInv, TypeOK', NEW r \in Requests, MoveCommits(r), Exists(request[r].task)
  PROVE  request[r].task \in ToSet(BoardView'[DroppedIn(r)])
<1>0. PICK c, own : c = DroppedIn(r) /\ own = request[r].task
  OBVIOUS
<1>1. /\ TypeOK /\ Moving(r) /\ task' = View(r) /\ request[r].op = "renumber"
      /\ InTarget(r)
  BY DEF TargetInv, MoveCommits, Commits, Moving, Ops
<1>2. c \in Columns /\ own \in Tasks /\ task' \in Rows
  <2>1. own \in Tasks /\ request[r].column \in Columns /\ task \in Rows /\ task' \in Rows
    BY <1>0, <1>1, MovingOrIdle, MoveFields DEF TypeOK, Rows
  <2>2. task[own].column \in Columns
    BY <1>0, <2>1, RowValue DEF Exists
  <2> QED
    BY <1>0, <2>1, <2>2, WithStatusColumn DEF DroppedIn
<1>3. task'[own].at = "there" /\ task'[own].column = c
  <2>1. task'[own].at = "there"
    BY <1>0, <1>1, <1>2, ViewType
  <2>2. task'[own] = request[r].written[own] /\ request[r].written[own].column = c
    BY <1>0, <1>1, <1>2 DEF InTarget, View
  <2> QED
    BY <2>1, <2>2
<1>4. Enumerates(BoardView'[c], Standing(task', c))
  BY <1>2, ColumnLists DEF BoardView, Lists
<1> QED
  BY <1>0, <1>2, <1>3, <1>4 DEF Standing, Enumerates

(* In every interleaving a move puts its task into the column of the status the
   user chose and, if nothing overtook it, at the place. *)
THEOREM MovesToPosition == Spec => MovedToPosition
<1>1. Init => MoveInv /\ TargetInv
  BY MoveInvInit, TargetInit
<1>2. MoveInv /\ TargetInv /\ [Next]_vars => MoveInv' /\ TargetInv'
  BY MoveInvStep, TargetStep
<1>3. MoveInv /\ TargetInv /\ [Next]_vars =>
        [\A r \in Requests : Commits(r) /\ MoveCommits(r) =>
          LET m == request[r]
          IN /\ Exists(m.task) =>
                   m.task \in ToSet(BoardView'[WithStatus(task[m.task].column, m.column[2])])
             /\ ~m.overtaken => DroppedInPlace(m, BoardView'[m.column])]_vars
  <2> SUFFICES ASSUME MoveInv, TargetInv, [Next]_vars, NEW r \in Requests, MoveCommits(r)
               PROVE  LET m == request[r]
                      IN /\ Exists(m.task) =>
                               m.task \in ToSet(BoardView'[DroppedIn(r)])
                         /\ ~m.overtaken => DroppedInPlace(m, BoardView'[m.column])
    BY DEF DroppedIn
  <2>1. TypeOK'
    BY TypeStep DEF MoveInv
  <2> QED
    BY <2>1, PlaceStep, ColumnStep
<1> QED
  BY <1>1, <1>2, <1>3, PTL DEF Spec, MovedToPosition

-----------------------------------------------------------------------------
(* Waiting *)

Waits(r) == \E s \in Requests : WaitsFor(r, s)

(* Requests of which each waits for one of them. *)
WaitAmong(C) == \A r \in C : \E s \in C : WaitsFor(r, s)

(* The requests that have locked a row. *)
Holders == {lock[t] : t \in Tasks} \ {None}

LEMMA FewHolders ==
  ASSUME TypeOK
  PROVE  IsFiniteSet(Holders) /\ \A s \in Holders : s \in Requests /\ Moving(s)
<1>1. lock \in Surjection(Tasks, {lock[t] : t \in Tasks})
  BY DEF TypeOK, Surjection
<1>2. IsFiniteSet({lock[t] : t \in Tasks})
  BY <1>1, FS_Surjection, BoardAssumption
<1>3. IsFiniteSet(Holders)
  BY <1>2, FS_Subset DEF Holders
<1> QED
  BY <1>3 DEF Holders, TypeOK

(* A request wants at most one row, which at most one other holds. *)
LEMMA WaitsForOne ==
  ASSUME TypeOK, NEW r \in Requests, NEW s \in Requests, WaitsFor(r, s)
  PROVE  s \in Holders /\ s # r /\ \A u \in Requests : WaitsFor(r, u) => u = s
<1>1. PICK t \in Wanted(r) : lock[t] = s
  BY DEF WaitsFor
<1>2. \A u \in Wanted(r) : u = t
  BY <1>1 DEF Wanted
<1>3. t \in Tasks
  <2>1. request[r] \in Move \cup {Idle}
    BY DEF TypeOK
  <2>2. request[r].op # "idle"
    BY <1>1 DEF Wanted
  <2>3. request[r].task \in Tasks /\ request[r].queue \in Seq(Tasks)
    BY <2>1, <2>2 DEF Move, Idle
  <2> QED
    BY <1>1, <2>3, HeadTailProperties DEF Wanted
<1> QED
  BY <1>1, <1>2, <1>3, NoneAssumption DEF WaitsFor, Holders

(* Among finitely many requests that wait for each other some wait in circles. *)
LEMMA CircleExists ==
  ASSUME TypeOK, NEW C, C \subseteq Holders, C # {}, WaitAmong(C)
  PROVE  \E D \in SUBSET C : D # {} /\ Deadlocked(D)
<1> DEFINE T == {D \in SUBSET C : D # {} /\ WaitAmong(D)}
<1>1. IsWellFoundedOn(StrictSubsetOrdering(C), SUBSET C)
  BY FewHolders, FS_Subset, FS_FiniteSubsetsOfFinite, FS_StrictSubsetOrderingWellFounded
<1>2. T \subseteq SUBSET C /\ T # {}
  OBVIOUS
<1>3. PICK D \in T : \A E \in T : <<E, D>> \notin StrictSubsetOrdering(C)
  <2> HIDE DEF T
  <2> QED
    BY <1>1, <1>2, WFMin
<1>4. \A E \in T : E \subseteq D => E = D
  BY <1>3 DEF StrictSubsetOrdering
<1>5. D \subseteq Requests
  BY FewHolders
<1>6. ASSUME NEW s \in D PROVE \E r \in D : WaitsFor(r, s)
  <2> SUFFICES ASSUME \A r \in D : ~WaitsFor(r, s) PROVE FALSE
    OBVIOUS
  <2>1. WaitAmong(D \ {s})
    BY <1>3 DEF WaitAmong
  <2>2. PICK u \in D : WaitsFor(s, u)
    BY <1>3 DEF WaitAmong
  <2>3. u # s
    BY <2>2 DEF WaitsFor
  <2>4. D \ {s} \in T
    BY <2>1, <2>3, <1>3
  <2> QED
    BY <2>4, <1>4
<1> QED
  BY <1>3, <1>6 DEF WaitAmong, Deadlocked

(* What the steps of a move ask for before they act: nothing to read a column or
   to commit, and to write a row that no other transaction has it. *)
CanGoOn(r) ==
    \/ request[r].op = "readTarget"
    \/ \E t \in Wanted(r) : lock[t] \in {None, r}
    \/ request[r].op = "renumber" /\ request[r].queue = <<>>

LEMMA GoesOnOrWaits ==
  ASSUME TypeOK, NEW r \in Requests, Moving(r)
  PROVE  CanGoOn(r) \/ Waits(r)
<1>1. request[r] \in Move
  BY DEF TypeOK, Moving, Idle, Ops
<1>2. CASE request[r].op = "readTarget"
  BY <1>2 DEF CanGoOn
<1>3. CASE request[r].op = "renumber" /\ request[r].queue = <<>>
  BY <1>3 DEF CanGoOn
<1>4. CASE \/ request[r].op = "writeStatus"
           \/ request[r].op = "renumber" /\ request[r].queue # <<>>
  <2>1. PICK t : t \in Tasks /\ t \in Wanted(r)
    <3>1. request[r].task \in Tasks /\ request[r].queue \in Seq(Tasks)
      BY <1>1 DEF Move
    <3> QED
      BY <1>4, <3>1, HeadTailProperties DEF Wanted
  <2>2. lock[t] \in Requests \cup {None}
    BY <2>1 DEF TypeOK
  <2> QED
    BY <2>1, <2>2 DEF CanGoOn, Waits, WaitsFor
<1> QED
  BY <1>2, <1>3, <1>4 DEF Moving, Ops

(* While moves are in flight one of them finds what its next step asks for, or
   waits in a circle, of which PostgreSQL aborts one: never do all of them wait,
   for each other or for a transaction that has ended, without that PostgreSQL
   notices.  What MovesEnd rests on, for any number of moves. *)
SomeMoveGoesOn ==
    (\E r \in Requests : Moving(r)) =>
        \E r \in Requests :
            /\ Moving(r)
            /\ CanGoOn(r) \/ \E D \in SUBSET Requests : r \in D /\ Deadlocked(D)

THEOREM MovesNotStuck == Spec => []SomeMoveGoesOn
<1>1. TypeOK => SomeMoveGoesOn
  <2> SUFFICES ASSUME TypeOK, NEW r \in Requests, Moving(r),
                      \A s \in Requests : Moving(s) => ~CanGoOn(s)
               PROVE  \E s \in Requests :
                        /\ Moving(s)
                        /\ \E D \in SUBSET Requests : s \in D /\ Deadlocked(D)
    BY DEF SomeMoveGoesOn
  <2>1. \A s \in Requests : Moving(s) => Waits(s)
    BY GoesOnOrWaits
  <2>2. Holders # {} /\ WaitAmong(Holders)
    BY <2>1, FewHolders, WaitsForOne DEF Waits, WaitAmong
  <2>3. PICK D \in SUBSET Holders : D # {} /\ Deadlocked(D)
    BY <2>2, CircleExists
  <2> QED
    BY <2>3, FewHolders
<1> QED
  BY <1>1, TaskTypes, PTL

=============================================================================
