--------------------------- MODULE DashboardProofs ---------------------------
(* Theorems about Dashboard for any finite set of issues, any window and any  *)
(* number of rows: what a report lists, that the cursor stays on its issue,   *)
(* and that selection, pane and offset fit together.  Then about Terminal: a  *)
(* session is a run of Dashboard, and however its input is cut into reads the *)
(* decoder gives the dashboard the keys that were pressed.                    *)
EXTENDS Terminal, FiniteSetTheorems, SequenceTheorems, WellFoundedInduction,
        TLAPS

USE DashboardAssumption

-----------------------------------------------------------------------------
(* Ascending numbers *)

\* A nonempty set of naturals has a smallest element.
LEMMA Smallest ==
  ASSUME NEW s \in SUBSET Nat, s # {}
  PROVE  \E n \in s : \A m \in s : n <= m
<1> DEFINE R == OpToRel(<, Nat)
<1>1. \A a, b \in Nat : a < b => <<a, b>> \in R
  BY DEF OpToRel
<1>2. IsWellFoundedOn(R, Nat)
  BY NatLessThanWellFounded
<1> HIDE DEF R
<1>3. \E n \in s : \A m \in s : ~(<<m, n>> \in R)
  BY <1>2, WFMin
<1>4. PICK n \in s : \A m \in s : ~(<<m, n>> \in R)
  BY <1>3
<1>5. \A m \in s : ~(m < n)
  BY <1>1, <1>4
<1> QED
  BY <1>5

\* The members of s that are smaller than n.
Below(s, n) == {m \in s : m < n}

\* The number of smaller members is a number below the size of the set, and
\* grows from one member to a larger one.
LEMMA Ranks ==
  ASSUME NEW s \in SUBSET Nat, IsFiniteSet(s)
  PROVE  /\ Cardinality(s) \in Nat
         /\ \A n \in Nat : Cardinality(Below(s, n)) \in 0..Cardinality(s)
         /\ \A n \in s : Cardinality(Below(s, n)) < Cardinality(s)
         /\ \A a, b \in s : a < b => Cardinality(Below(s, a)) < Cardinality(Below(s, b))
<1>1. Cardinality(s) \in Nat
  BY FS_CardinalityType
<1>2. ASSUME NEW n \in Nat
      PROVE  /\ IsFiniteSet(Below(s, n)) /\ Cardinality(Below(s, n)) \in Nat
             /\ Cardinality(Below(s, n)) <= Cardinality(s)
             /\ Cardinality(s) = Cardinality(Below(s, n)) => s = Below(s, n)
  <2>1. Below(s, n) \in SUBSET s
    BY DEF Below
  <2>2. IsFiniteSet(Below(s, n))
    BY <2>1, FS_Subset
  <2> QED
    BY <2>1, <2>2, FS_Subset, FS_CardinalityType
<1>3. ASSUME NEW n \in s PROVE Cardinality(Below(s, n)) < Cardinality(s)
  <2>1. n \in Nat /\ n \notin Below(s, n)
    BY DEF Below
  <2>2. s # Below(s, n)
    BY <2>1
  <2> QED
    BY <1>1, <1>2, <2>1, <2>2
<1>4. ASSUME NEW a \in s, NEW b \in s, a < b
      PROVE  Cardinality(Below(s, a)) < Cardinality(Below(s, b))
  <2>1. a \in Nat /\ b \in Nat
    OBVIOUS
  <2>2. Below(s, a) \in SUBSET Below(s, b)
    <3> SUFFICES ASSUME NEW m \in Below(s, a) PROVE m \in Below(s, b)
      OBVIOUS
    <3>1. m \in s /\ m < a
      BY DEF Below
    <3>2. m \in Nat /\ m < b
      BY <1>4, <2>1, <3>1
    <3> QED
      BY <3>1, <3>2 DEF Below
  <2>3. a \in Below(s, b) /\ a \notin Below(s, a)
    BY <1>4, <2>1 DEF Below
  <2>4. IsFiniteSet(Below(s, b))
    BY <1>2, <2>1
  <2>5. /\ Cardinality(Below(s, a)) <= Cardinality(Below(s, b))
        /\ Cardinality(Below(s, b)) = Cardinality(Below(s, a))
             => Below(s, b) = Below(s, a)
    BY <2>2, <2>4, FS_Subset
  <2>6. Cardinality(Below(s, b)) # Cardinality(Below(s, a))
    BY <2>3, <2>5
  <2> QED
    BY <1>2, <2>1, <2>5, <2>6
<1> QED
  BY <1>1, <1>2, <1>3, <1>4

\* Every place is taken.
LEMMA EveryRank ==
  ASSUME NEW s \in SUBSET Nat, IsFiniteSet(s)
  PROVE  \A i \in 1..Cardinality(s) : \E n \in s : Cardinality(Below(s, n)) = i - 1
<1> DEFINE free == {i \in 1..Cardinality(s) :
                      \A n \in s : Cardinality(Below(s, n)) # i - 1}
<1>1. Cardinality(s) \in Nat
  BY Ranks
<1>2. SUFFICES ASSUME free # {} PROVE FALSE
  OBVIOUS
<1>3. free \in SUBSET Nat
  BY <1>1
<1> HIDE DEF free
<1>4. PICK i \in free : \A k \in free : i <= k
  BY <1>2, <1>3, Smallest
<1>5. i \in 1..Cardinality(s) /\ \A n \in s : Cardinality(Below(s, n)) # i - 1
  BY <1>4 DEF free
<1>6. CASE i = 1
  <2>1. s # {}
    BY <1>1, <1>5, FS_EmptySet
  <2>2. PICK n \in s : \A m \in s : n <= m
    BY <2>1, Smallest
  <2>3. Below(s, n) = {}
    <3> SUFFICES ASSUME NEW m \in Below(s, n) PROVE FALSE
      OBVIOUS
    <3>1. m \in s /\ m < n
      BY DEF Below
    <3>2. n <= m /\ m \in Nat /\ n \in Nat
      BY <2>2, <3>1
    <3> QED
      BY <3>1, <3>2
  <2>4. Cardinality(Below(s, n)) = 0
    BY <2>3, FS_EmptySet
  <2> QED
    BY <1>5, <1>6, <2>4
<1>7. CASE i > 1
  <2>1. i - 1 \in 1..Cardinality(s) /\ i - 1 \notin free
    BY <1>1, <1>3, <1>4, <1>5, <1>7
  <2>2. PICK p \in s : Cardinality(Below(s, p)) = (i - 1) - 1
    BY <2>1 DEF free
  <2> DEFINE lower == Below(s, p) \cup {p}
             upper == s \ lower
  <2>3. p \notin Below(s, p) /\ IsFiniteSet(Below(s, p)) /\ lower \in SUBSET s
    <3>1. p \in Nat /\ ~(p < p)
      OBVIOUS
    <3>2. Below(s, p) \in SUBSET s /\ p \notin Below(s, p)
      BY <3>1 DEF Below
    <3> QED
      BY <3>2, FS_Subset
  <2>4. Cardinality(lower) = i - 1
    <3>1. Cardinality(lower) = Cardinality(Below(s, p)) + 1
      BY <2>3, FS_AddElement
    <3>2. i \in Nat
      BY <1>1, <1>5
    <3> QED
      BY <2>2, <3>1, <3>2
  <2>5. upper # {}
    <3>1. lower # s
      BY <1>1, <1>5, <2>4
    <3> QED
      BY <2>3, <3>1
  <2>6. upper \in SUBSET Nat
    OBVIOUS
  <2>7. PICK n \in upper : \A m \in upper : n <= m
    BY <2>5, <2>6, Smallest
  <2>8. n \in s /\ n \in Nat /\ ~(n < p) /\ n # p
    <3>1. n \in s /\ n \notin Below(s, p) /\ n # p
      BY <2>7
    <3> QED
      BY <3>1 DEF Below
  <2>9. Below(s, n) = lower
    <3>1. ASSUME NEW m \in s PROVE m < n <=> m \in lower
      <4>1. m \in Nat /\ p \in Nat
        OBVIOUS
      <4>2. CASE m \in lower
        <5>1. m < p \/ m = p
          BY <4>2 DEF Below
        <5> QED
          BY <2>8, <4>1, <4>2, <5>1
      <4>3. CASE m \notin lower
        BY <2>7, <2>8, <4>1, <4>3
      <4> QED
        BY <4>2, <4>3
    <3> HIDE DEF lower
    <3> QED
      BY <2>3, <3>1 DEF Below
  <2> QED
    BY <1>5, <2>4, <2>8, <2>9
<1> QED
  BY <1>1, <1>5, <1>6, <1>7

\* Ascending(s) is the members of s, each once, smaller ones first.
LEMMA AscendingIs ==
  ASSUME NEW s \in SUBSET Nat, IsFiniteSet(s)
  PROVE  /\ Ascending(s) \in Seq(s)
         /\ Len(Ascending(s)) = Cardinality(s)
         /\ \A i, j \in 1..Cardinality(s) :
              i < j => Ascending(s)[i] < Ascending(s)[j]
         /\ \A n \in s : \E i \in 1..Cardinality(s) : Ascending(s)[i] = n
<1> DEFINE c == Cardinality(s)
           q == Ascending(s)
<1>1. c \in Nat
  BY Ranks
<1>2. q = [i \in 1..c |-> CHOOSE n \in s : Cardinality(Below(s, n)) = i - 1]
  BY DEF Ascending, Below
<1> HIDE DEF q, c
<1>3. ASSUME NEW i \in 1..c
      PROVE  q[i] \in s /\ Cardinality(Below(s, q[i])) = i - 1
  <2>1. \E n \in s : Cardinality(Below(s, n)) = i - 1
    BY EveryRank DEF c
  <2>2. q[i] = CHOOSE n \in s : Cardinality(Below(s, n)) = i - 1
    BY <1>2
  <2> QED
    BY <2>1, <2>2
<1>4. q \in Seq(s) /\ Len(q) = c
  <2>1. q \in [1..c -> s]
    BY <1>2, <1>3
  <2> QED
    BY <1>1, <2>1
<1>5. \A n \in s : n \in Nat /\ Cardinality(Below(s, n)) \in 0..c
  BY Ranks DEF c
<1>6. \A a, b \in s : a < b => Cardinality(Below(s, a)) < Cardinality(Below(s, b))
  BY Ranks
<1>7. ASSUME NEW i \in 1..c, NEW j \in 1..c, i < j
      PROVE  q[i] < q[j]
  <2>1. q[i] \in s /\ q[j] \in s /\ q[i] \in Nat /\ q[j] \in Nat
    BY <1>3, <1>5
  <2>2. Cardinality(Below(s, q[i])) = i - 1 /\ Cardinality(Below(s, q[j])) = j - 1
    BY <1>3
  <2>3. ~(j - 1 < i - 1) /\ i - 1 # j - 1
    BY <1>1, <1>7
  <2>4. ~(q[j] < q[i]) /\ q[i] # q[j]
    BY <1>6, <2>1, <2>2, <2>3
  <2> QED
    BY <2>1, <2>4
<1>8. ASSUME NEW n \in s PROVE \E i \in 1..c : q[i] = n
  <2>1. PICK r \in 0..c : r = Cardinality(Below(s, n))
    BY <1>5
  <2>2. r < c
    BY <2>1, Ranks DEF c
  <2>3. r + 1 \in 1..c /\ (r + 1) - 1 = r
    BY <1>1, <2>2
  <2>4. q[r + 1] \in s /\ Cardinality(Below(s, q[r + 1])) = r
    BY <1>3, <2>3
  <2>5. ~(r < r)
    BY <1>1
  <2>6. ~(q[r + 1] < n) /\ ~(n < q[r + 1])
    BY <1>6, <2>1, <2>4, <2>5
  <2>7. q[r + 1] = n
    <3>1. q[r + 1] \in Nat /\ n \in Nat
      BY <1>5, <2>4
    <3> QED
      BY <2>6, <3>1
  <2> QED
    BY <2>3, <2>7
<1> QED
  BY <1>4, <1>7, <1>8 DEF q, c

\* LastOf keeps the end of a sequence, n elements at most.
LEMMA LastOfIs ==
  ASSUME NEW S, NEW q \in Seq(S), NEW n \in Nat \ {0}
  PROVE  /\ LastOf(q, n) \in Seq(S)
         /\ Len(LastOf(q, n)) = Least(Len(q), n)
         /\ Len(q) <= n => LastOf(q, n) = q
         /\ Len(q) > n => \A i \in 1..n : LastOf(q, n)[i] = q[(Len(q) - n) + i]
<1>1. Len(q) \in Nat /\ \A i \in 1..Len(q) : q[i] \in S
  BY LenProperties
<1>2. CASE Len(q) <= n
  BY <1>1, <1>2 DEF LastOf, Least
<1>3. CASE Len(q) > n
  <2> DEFINE m == (Len(q) - n) + 1
  <2>1. LastOf(q, n) = SubSeq(q, m, Len(q))
    BY <1>1, <1>3 DEF LastOf
  <2>2. m \in 1..Len(q) /\ (Len(q) - m) + 1 = n /\ Least(Len(q), n) = n
    BY <1>1, <1>3 DEF Least
  <2>3. \A i \in m..Len(q) : q[i] \in S
    BY <1>1, <2>2
  <2>4. \A i \in 1..n : (m + i) - 1 = (Len(q) - n) + i
    BY <1>1, <2>2
  <2> HIDE DEF m
  <2>5. /\ SubSeq(q, m, Len(q)) \in Seq(S)
        /\ Len(SubSeq(q, m, Len(q))) = n
        /\ \A i \in 1..n : SubSeq(q, m, Len(q))[i] = q[(m + i) - 1]
    <3>1. m \in Int /\ Len(q) \in Int /\ m <= Len(q)
      BY <1>1, <2>2
    <3> QED
      BY <2>2, <2>3, <3>1, SubSeqProperties
  <2> QED
    BY <1>1, <1>3, <2>1, <2>2, <2>4, <2>5
<1> QED
  BY <1>1, <1>2, <1>3

-----------------------------------------------------------------------------
(* What a report lists *)

\* The newest jobs that fit, or all but one of them and an older active job.
LEMMA ListedIs ==
  ASSUME NEW s \in SUBSET Issues, NEW a \in s \cup {NoIssue}
  PROVE  /\ Listed(s, a) \in Seq(s)
         /\ Len(Listed(s, a)) = Least(Cardinality(s), Window)
         /\ \A i \in 2..Len(Listed(s, a)) : Listed(s, a)[i - 1] < Listed(s, a)[i]
         /\ a # NoIssue => \E i \in 1..Len(Listed(s, a)) : Listed(s, a)[i] = a
         /\ \A n \in s : \/ \E i \in 1..Len(Listed(s, a)) : Listed(s, a)[i] = n
                         \/ \A i \in 1..Len(Listed(s, a)) :
                              Listed(s, a)[i] = a \/ n < Listed(s, a)[i]
<1> DEFINE c == Cardinality(s)
           q == Ascending(s)
           newest == LastOf(q, Window)
           list == Listed(s, a)
<1>1. s \in SUBSET Nat /\ IsFiniteSet(s)
  BY FS_Subset
<1>2. c \in Nat /\ Window \in Nat \ {0}
  BY <1>1, Ranks
<1>3. /\ q \in Seq(s) /\ Len(q) = c
      /\ \A i, j \in 1..c : i < j => q[i] < q[j]
      /\ \A n \in s : \E i \in 1..c : q[i] = n
  BY <1>1, AscendingIs
<1>5. list = IF c > Window /\ a # NoIssue /\ a < newest[1]
             THEN [newest EXCEPT ![1] = a] ELSE newest
  BY DEF Listed
<1> HIDE DEF c, q, list
<1>4. \A i \in 1..c : q[i] \in s /\ q[i] \in Nat
  <2>1. \A i \in 1..Len(q) : q[i] \in s
    BY <1>3, LenProperties
  <2> QED
    BY <1>1, <1>3, <2>1
<1>6. /\ newest \in Seq(s)
      /\ Len(newest) = Least(c, Window)
      /\ c <= Window => newest = q
      /\ c > Window => \A i \in 1..Window : newest[i] = q[(c - Window) + i]
  <2>1. /\ newest \in Seq(s)
        /\ Len(newest) = Least(Len(q), Window)
        /\ Len(q) <= Window => newest = q
        /\ Len(q) > Window => \A i \in 1..Window : newest[i] = q[(Len(q) - Window) + i]
    <3> HIDE DEF newest
    <3>1. newest = LastOf(q, Window)
      BY DEF newest
    <3>2. \A S : \A z \in Seq(S), n \in Nat \ {0} :
            /\ LastOf(z, n) \in Seq(S)
            /\ Len(LastOf(z, n)) = Least(Len(z), n)
            /\ Len(z) <= n => LastOf(z, n) = z
            /\ Len(z) > n => \A i \in 1..n : LastOf(z, n)[i] = z[(Len(z) - n) + i]
      BY LastOfIs, Zenon
    <3>3. q \in Seq(s) /\ Window \in Nat \ {0}
      BY <1>2, <1>3
    <3> QED
      BY <3>1, <3>2, <3>3
  <2> QED
    BY <1>3, <2>1
<1> HIDE DEF newest
<1>7. CASE c <= Window
  <2>1. list = q /\ Least(c, Window) = c
    BY <1>2, <1>5, <1>6, <1>7 DEF Least
  <2>2. ASSUME NEW i \in 2..c PROVE q[i - 1] < q[i]
    <3>1. i - 1 \in 1..c /\ i \in 1..c /\ i - 1 < i
      BY <1>2
    <3> QED
      BY <1>3, <3>1
  <2> QED
    BY <1>3, <2>1, <2>2 DEF list, c
<1>8. CASE c > Window
  <2> DEFINE d == c - Window
  <2>1. /\ d \in Nat /\ Least(c, Window) = Window /\ Len(newest) = Window
        /\ 1 \in 1..Window
    <3>1. d \in Nat /\ c = d + Window /\ 1 \in 1..Window
      BY <1>2, <1>8
    <3>2. Least(c, Window) = Window
      BY <1>2, <1>8 DEF Least
    <3> QED
      BY <1>6, <3>1, <3>2
  <2>2. \A i \in 1..Window : d + i \in 1..c /\ newest[i] = q[d + i]
    BY <1>2, <1>6, <1>8
  <2>3. \A i \in 1..Window : newest[i] \in s /\ newest[i] \in Nat
    BY <1>4, <2>2
  <2>4. \A i, j \in 1..Window : i < j => newest[i] < newest[j]
    <3>1. ASSUME NEW i \in 1..Window, NEW j \in 1..Window, i < j
          PROVE  newest[i] < newest[j]
      <4>1. d + i < d + j /\ d + i \in 1..c /\ d + j \in 1..c
        BY <1>2, <2>1, <2>2, <3>1
      <4> QED
        BY <1>3, <2>2, <4>1
    <3> QED
      BY <3>1
  <2>5. ASSUME NEW n \in s
        PROVE  (\E i \in 1..Window : newest[i] = n) \/ n < newest[1]
    <3>1. PICK k \in 1..c : q[k] = n
      BY <1>3
    <3>2. CASE k <= d
      <4>1. k < d + 1 /\ d + 1 \in 1..c
        BY <1>2, <2>1, <2>2, <3>2
      <4> QED
        BY <1>3, <2>1, <2>2, <3>1, <4>1
    <3>3. CASE k > d
      <4>1. k - d \in 1..Window /\ d + (k - d) = k
        BY <1>2, <2>1, <3>3
      <4>2. newest[k - d] = q[d + (k - d)]
        BY <2>2, <4>1
      <4> QED
        BY <3>1, <4>1, <4>2
    <3> QED
      BY <1>2, <2>1, <3>2, <3>3
  <2> HIDE DEF d
  <2>6. CASE a # NoIssue /\ a < newest[1]
    <3>1. list = [newest EXCEPT ![1] = a] /\ a \in s /\ a \in Nat
      BY <1>1, <1>5, <1>8, <2>6
    <3>2. list \in Seq(s) /\ Len(list) = Window
      BY <1>6, <2>1, <3>1, ExceptSeq
    <3>3. list[1] = a /\ \A i \in 2..Window : list[i] = newest[i]
      BY <1>2, <1>6, <2>1, <3>1, ExceptSeq
    <3>4. ASSUME NEW n \in s
          PROVE  \/ \E i \in 1..Window : list[i] = n
                 \/ \A i \in 1..Window : list[i] = a \/ n < list[i]
      <4>1. CASE \E i \in 2..Window : newest[i] = n
        BY <1>2, <3>3, <4>1
      <4>2. CASE n = newest[1] \/ n < newest[1]
        <5>1. ASSUME NEW i \in 1..Window, i # 1 PROVE n < list[i]
          <6>1. i \in 2..Window /\ 1 < i
            BY <1>2, <5>1
          <6>2. newest[1] < newest[i] /\ newest[1] \in Nat /\ newest[i] \in Nat /\ n \in Nat
            BY <1>1, <2>1, <2>3, <2>4, <6>1
          <6>3. n < newest[i]
            BY <4>2, <6>2
          <6> QED
            BY <3>3, <6>1, <6>3
        <5> QED
          BY <3>3, <5>1
      <4>3. ASSUME NEW i \in 1..Window PROVE i = 1 \/ i \in 2..Window
        BY <1>2
      <4> QED
        BY <2>5, <4>1, <4>2, <4>3
    <3>5. ASSUME NEW i \in 2..Window PROVE list[i - 1] < list[i]
      <4>1. i - 1 \in 1..Window /\ i \in 1..Window /\ i - 1 < i /\ 1 < i
        BY <1>2
      <4>2. newest[i - 1] < newest[i] /\ newest[1] < newest[i]
        BY <2>1, <2>4, <4>1
      <4>3. CASE i - 1 = 1
        <5>1. a < newest[i]
          BY <2>1, <2>3, <2>6, <3>1, <4>1, <4>2
        <5> QED
          BY <3>3, <4>3, <5>1
      <4>4. CASE i - 1 # 1
        <5>1. i - 1 \in 2..Window
          BY <1>2, <4>1, <4>4
        <5> QED
          BY <3>3, <4>2, <5>1
      <4> QED
        BY <4>3, <4>4
    <3> QED
      BY <2>1, <3>2, <3>3, <3>4, <3>5 DEF list, c
  <2>7. CASE ~(a # NoIssue /\ a < newest[1])
    <3>1. list = newest
      BY <1>5, <2>7
    <3>2. a # NoIssue => \E i \in 1..Window : newest[i] = a
      BY <2>5, <2>7
    <3>3. ASSUME NEW n \in s
          PROVE  \/ \E i \in 1..Window : newest[i] = n
                 \/ \A i \in 1..Window : newest[i] = a \/ n < newest[i]
      <4>1. CASE n < newest[1]
        <5>1. ASSUME NEW i \in 1..Window PROVE n < newest[i]
          <6>1. newest[1] \in Nat /\ newest[i] \in Nat /\ n \in Nat
            BY <1>1, <2>1, <2>3
          <6>2. i = 1 \/ 1 < i
            BY <1>2
          <6>3. newest[1] = newest[i] \/ newest[1] < newest[i]
            BY <2>1, <2>4, <6>2
          <6> QED
            BY <4>1, <6>1, <6>3
        <5> QED
          BY <5>1
      <4> QED
        BY <2>5, <4>1
    <3>4. ASSUME NEW i \in 2..Window PROVE newest[i - 1] < newest[i]
      <4>1. i - 1 \in 1..Window /\ i \in 1..Window /\ i - 1 < i
        BY <1>2
      <4> QED
        BY <2>4, <4>1
    <3> QED
      BY <1>6, <2>1, <3>1, <3>2, <3>3, <3>4 DEF list, c
  <2> QED
    BY <2>6, <2>7
<1> QED
  BY <1>2, <1>7, <1>8

-----------------------------------------------------------------------------
(* The list and the panes *)

ListType ==
  /\ jobs \subseteq Issues
  /\ active \in Issues \cup {NoIssue}
  /\ shown \in Seq(Issues)
  /\ view \in 0..2
  /\ selected \in Nat
  /\ detail \in BOOLEAN
  /\ scroll \in Nat
  /\ stopping \in BOOLEAN

\* A list that shows an issue comes from jobs, and jobs are never forgotten:
\* no later report takes the last issue away from under the cursor.
Filled == shown # <<>> => jobs # {}

ListInv == ListType /\ Filled /\ PaneIsConsistent

\* A report yields a list of its jobs, empty only if there are none, and a
\* selection in it that stays on the issue under the cursor, if that is listed.
LEMMA ReportIs ==
  ASSUME ListInv, NEW found \in SUBSET Issues, NEW a \in Issues \cup {NoIssue},
         Report(found, a)
  PROVE  /\ jobs' \subseteq Issues /\ active' \in jobs' \cup {NoIssue}
         /\ shown' = Listed(jobs', active') /\ shown' \in Seq(Issues)
         /\ shown # <<>> => jobs' # {}
         /\ jobs' # {} => shown' # <<>>
         /\ selected' \in Nat
         /\ shown' = <<>> => selected' = 0
         /\ shown' # <<>> => selected' < Len(shown')
         /\ (detail \/ selected > 0) /\ Cursor \in ShownSet' => Cursor' = Cursor
         /\ ~detail /\ selected = 0 => selected' = 0
<1> DEFINE list == Listed(jobs', a)
           len == Len(list)
<1>1. /\ jobs' \in SUBSET Issues /\ a \in jobs' \cup {NoIssue} /\ active' = a
      /\ jobs \subseteq jobs'
      /\ shown' = list
      /\ selected' = Greatest(0, Least(Moved(list), len - 1))
  BY DEF Report, Update, ListInv, ListType
<1>2. /\ list \in Seq(jobs') /\ len = Least(Cardinality(jobs'), Window)
  BY <1>1, ListedIs
<1>3. /\ list \in Seq(Issues)
      /\ list = <<>> <=> len = 0
      /\ len \in Nat
      /\ \A i \in 1..len : list[i] \in Issues
  BY <1>1, <1>2, SeqMonotonic, EmptySeq, LenProperties
<1>4. jobs' # {} => list # <<>>
  <2>1. SUFFICES ASSUME jobs' # {} PROVE len # 0
    BY <1>3
  <2>2. IsFiniteSet(jobs')
    BY <1>1, FS_Subset
  <2>3. Cardinality(jobs') \in Nat /\ Cardinality(jobs') # 0
    BY <2>1, <2>2, FS_CardinalityType, FS_EmptySet
  <2> QED
    BY <1>2, <2>3 DEF Least
<1>5. shown # <<>> => jobs' # {}
  BY <1>1 DEF ListInv, Filled
<1> HIDE DEF list, len
<1>6. Len(shown) \in Nat /\ (shown = <<>> <=> Len(shown) = 0) /\ selected \in Nat
  BY EmptySeq, LenProperties DEF ListInv, ListType
<1>7. detail \/ selected > 0 => shown # <<>> /\ selected < Len(shown) /\ Browsed
  BY <1>6 DEF ListInv, PaneIsConsistent, Browsed
<1> DEFINE places == {i \in 1..len : list[i] = Cursor}
<1>8. Moved(list) = IF Browsed /\ places # {}
                    THEN len - CHOOSE i \in places : \A k \in places : i <= k
                    ELSE selected
  BY DEF Moved, len
<1>9. places # {} =>
        \E i \in 1..len : /\ list[i] = Cursor
                         /\ i = CHOOSE j \in places : \A k \in places : j <= k
  <2>1. SUFFICES ASSUME places # {}
                 PROVE  (CHOOSE j \in places : \A k \in places : j <= k) \in places
    OBVIOUS
  <2>2. places \in SUBSET Nat
    BY <1>3
  <2>3. \E j \in places : \A k \in places : j <= k
    BY <2>1, <2>2, Smallest
  <2> QED
    BY <2>3
<1> DEFINE first == CHOOSE j \in places : \A k \in places : j <= k
<1>10. places # {} => first \in 1..len /\ list[first] = Cursor
  BY <1>9
<1> HIDE DEF first, places
<1>11. Moved(list) = IF Browsed /\ places # {} THEN len - first ELSE selected
  BY <1>8 DEF first
<1>12. Moved(list) \in Nat
  BY <1>3, <1>6, <1>10, <1>11
<1>13. /\ selected' \in Nat
       /\ list = <<>> => selected' = 0
       /\ list # <<>> => selected' < len
  BY <1>1, <1>3, <1>12 DEF Greatest, Least
<1>14. ASSUME detail \/ selected > 0, Cursor \in ShownSet'
       PROVE  Cursor' = Cursor
  <2>1. places # {}
    <3>1. ShownSet' = {list[i] : i \in 1..len}
      BY <1>1 DEF ShownSet, len
    <3> QED
      BY <1>14, <3>1 DEF places
  <2>2. Moved(list) = len - first /\ first \in 1..len /\ list[first] = Cursor
    BY <1>7, <1>10, <1>11, <1>14, <2>1
  <2>3. selected' = len - first /\ len - (len - first) = first
    BY <1>1, <1>3, <2>2 DEF Greatest, Least
  <2>4. Cursor' = list[len - selected']
    BY <1>1 DEF Cursor, len
  <2> QED
    BY <2>2, <2>3, <2>4
<1>15. ASSUME ~detail, selected = 0 PROVE selected' = 0
  <2>1. ~Browsed
    BY <1>15 DEF Browsed
  <2>2. Moved(list) = 0
    BY <1>11, <1>15, <2>1
  <2> QED
    BY <1>1, <1>3, <2>2 DEF Greatest, Least
<1> QED
  BY <1>1, <1>3, <1>4, <1>5, <1>13, <1>14, <1>15 DEF list, len

\* The list is right at the beginning.
LEMMA ListInit ==
  ASSUME Init PROVE ListInv
<1>1. shown \in Seq(Issues) /\ shown = <<>>
  BY EmptySeq DEF Init
<1>2. detail \in BOOLEAN /\ stopping \in BOOLEAN /\ ~detail
  BY Zenon DEF Init
<1>3. scroll = 0 /\ selected = 0 /\ view = 0 /\ jobs = {} /\ active = NoIssue
  BY DEF Init
<1>4. PaneIsConsistent /\ Filled
  BY <1>1, <1>2, <1>3 DEF PaneIsConsistent, Filled
<1> QED
  BY <1>1, <1>2, <1>3, <1>4 DEF ListInv, ListType

\* A key that a user presses keeps the list and the jobs.
LEMMA KeyIsLocal ==
  ASSUME NEW k \in Keys, Key(k)
  PROVE  UNCHANGED <<engineVars, shown, rowVars>>
  BY DEF Key, Quit, Back, Open, Switch, Ignored, ScrollDetail, ScrollActivity,
         Browse, engineVars, listVars, rowVars, dashVars

\* A key keeps the list.
LEMMA KeyKeepsList ==
  ASSUME ListInv, NEW k \in Keys, Key(k)
  PROVE  ListInv'
<1> USE DEF ListInv, ListType
<1>1. UNCHANGED <<jobs, active, shown>>
  BY KeyIsLocal DEF engineVars
<1>2. Filled'
  BY <1>1 DEF Filled
<1>3. Len(shown) \in Nat /\ (shown = <<>> <=> Len(shown) = 0)
  BY EmptySeq, LenProperties
<1>4. CASE Quit(k)
  BY <1>1, <1>2, <1>4 DEF Quit, PaneIsConsistent, listVars, paneVars
<1>5. CASE Back(k)
  <2>1. detail' = FALSE /\ scroll' = 0 /\ UNCHANGED <<listVars, view, stopping>>
    BY <1>5 DEF Back
  <2>2. detail' \in BOOLEAN /\ ~detail'
    BY <2>1, Zenon
  <2>3. UNCHANGED <<shown, selected, view, stopping>>
    BY <2>1 DEF listVars
  <2> QED
    BY <1>1, <1>2, <2>1, <2>2, <2>3 DEF PaneIsConsistent
<1>6. CASE Open(k)
  <2>1. UNCHANGED <<shown, selected, view, stopping>>
    BY <1>6 DEF Open, listVars
  <2>2. CASE shown # <<>> /\ view # 2
    <3>1. detail' = TRUE /\ scroll' = 0
      BY <1>6, <2>2 DEF Open
    <3>2. detail' \in BOOLEAN
      BY <3>1, Zenon
    <3> QED
      BY <1>1, <1>2, <2>1, <2>2, <3>1, <3>2 DEF PaneIsConsistent
  <2>3. CASE ~(shown # <<>> /\ view # 2)
    <3>1. UNCHANGED <<detail, scroll>>
      BY <1>6, <2>3 DEF Open
    <3> QED
      BY <1>1, <1>2, <2>1, <3>1 DEF PaneIsConsistent
  <2> QED
    BY <2>2, <2>3
<1>7. CASE Switch(k)
  <2>1. view' \in 0..2
    BY <1>7 DEF Switch
  <2> QED
    BY <1>1, <1>2, <1>7, <2>1 DEF Switch, PaneIsConsistent, listVars
<1>8. CASE Ignored(k)
  BY <1>2, <1>8 DEF Ignored, PaneIsConsistent, dashVars, engineVars, listVars, paneVars
<1>9. CASE ScrollDetail(k)
  <2>1. scroll' \in Nat
    BY <1>9 DEF ScrollDetail, Greatest
  <2> QED
    BY <1>1, <1>2, <1>9, <2>1 DEF ScrollDetail, PaneIsConsistent, listVars, paneVars
<1>10. CASE ScrollActivity(k)
  <2>1. scroll' \in Nat
    BY <1>10 DEF ScrollActivity, Greatest, Ups, Downs
  <2> QED
    BY <1>1, <1>2, <1>10, <2>1 DEF ScrollActivity, PaneIsConsistent, listVars, paneVars
<1>11. CASE Browse(k)
  <2>1. /\ selected' \in Nat
        /\ shown = <<>> => selected' = 0
        /\ shown # <<>> => selected' < Len(shown)
    <3>1. /\ shown = <<>> => selected = 0
          /\ shown # <<>> => selected < Len(shown)
      BY DEF PaneIsConsistent
    <3>2. \/ selected' = Greatest(0, Least(Len(shown) - 1, selected + 1))
          \/ selected' = Greatest(0, selected - 1)
          \/ selected' = 0
          \/ selected' = Greatest(0, Len(shown) - 1)
      BY <1>11 DEF Browse, Ups, Downs
    <3> QED
      BY <1>3, <3>1, <3>2 DEF Greatest, Least
  <2> QED
    BY <1>1, <1>2, <1>11, <2>1 DEF Browse, PaneIsConsistent, paneVars
<1> QED
  BY <1>4, <1>5, <1>6, <1>7, <1>8, <1>9, <1>10, <1>11 DEF Key

\* One line, complete or not, or a complete one and the start of another.
LEMMA TextIs ==
  ASSUME NEW ends \in Texts
  PROVE  /\ \A i \in 1..Len(ends) : ends[i] \in BOOLEAN
         /\ \/ Len(ends) = 1
            \/ Len(ends) = 2 /\ ends[1] = TRUE /\ ends[2] = FALSE
<1>1. \A x, y : /\ Len(<<x>>) = 1 /\ <<x>>[1] = x
                /\ Len(<<x, y>>) = 2 /\ <<x, y>>[1] = x /\ <<x, y>>[2] = y
  OBVIOUS
<1>2. \/ ends = <<TRUE>> \/ ends = <<FALSE>>
      \/ ends = <<TRUE, FALSE>>
  BY Zenon DEF Texts
<1>3. CASE ends = <<TRUE>> \/ ends = <<FALSE>>
  <2>1. PICK x \in BOOLEAN : ends = <<x>>
    BY <1>3, Zenon
  <2>2. Len(ends) = 1 /\ ends[1] = x
    BY <1>1, <2>1
  <2>3. \A i \in 1..1 : i = 1
    OBVIOUS
  <2> QED
    BY <2>2, <2>3, Zenon
<1>4. CASE ends = <<TRUE, FALSE>>
  <2>1. PICK x \in BOOLEAN, y \in BOOLEAN : ends = <<x, y>> /\ x = TRUE /\ y = FALSE
    BY <1>4, Zenon
  <2>2. Len(ends) = 2 /\ ends[1] = x /\ ends[2] = y
    BY <1>1, <2>1
  <2>3. \A i \in 1..2 : i = 1 \/ i = 2
    OBVIOUS
  <2> QED
    BY <2>1, <2>2, <2>3, Zenon
<1> QED
  BY <1>2, <1>3, <1>4

\* Records of the log touch nothing of the list but the offset, and that only
\* while the activity is read.
LEMMA RecordKeepsList ==
  ASSUME ListInv,
         \/ \E s \in Streams, ends \in Texts : Transcript(s, ends)
         \/ Message
  PROVE  ListInv' /\ UNCHANGED <<jobs, active, shown, selected, detail>>
<1>1. /\ UNCHANGED <<engineVars, listVars, paneVars, stopping>>
      /\ \E n \in Nat : scroll' = IF view = 2 /\ scroll > 0 THEN scroll + n ELSE scroll
  <2>1. CASE Message
    <3>1. Len(<<<<[of |-> Log, end |-> TRUE]>>>>) = 1
      OBVIOUS
    <3> QED
      BY <2>1, <3>1 DEF Message, AddRows
  <2>2. ASSUME NEW s \in Streams, NEW ends \in Texts, Transcript(s, ends)
        PROVE  /\ UNCHANGED <<engineVars, listVars, paneVars, stopping>>
               /\ \E n \in Nat :
                    scroll' = IF view = 2 /\ scroll > 0 THEN scroll + n ELSE scroll
    <3>1. Len(ends) \in {1, 2}
      BY TextIs
    <3> DEFINE joined == streamOpen /\ streamKey = s /\ activity # <<>>
               head == IF joined THEN 2 ELSE 1
               piece == [i \in 1..Len(ends) |-> [of |-> s, end |-> ends[i]]]
               n == Len(ends) - head + 1
               added == [i \in 1..n |-> <<piece[head + i - 1]>>]
               grown == IF joined
                        THEN [activity EXCEPT ![Len(activity)] = Append(@, piece[1])]
                        ELSE activity
    <3>2. AddRows(grown, added)
      <4>1. Transcript(s, ends)
        BY <2>2
      <4> QED
        BY <4>1, Zenon DEF Transcript
    <3>3. n \in Nat
      BY <3>1
    <3>4. Len(added) = n
      <4> HIDE DEF n, piece, head
      <4> QED
        BY <3>3
    <3>5. scroll' = IF view = 2 /\ scroll > 0 THEN scroll + n ELSE scroll
      <4> HIDE DEF n, added, grown
      <4> QED
        BY <3>2, <3>4 DEF AddRows
    <3>6. UNCHANGED <<engineVars, listVars, paneVars, stopping>>
      BY <2>2 DEF Transcript
    <3> HIDE DEF n
    <3> QED
      BY <3>3, <3>5, <3>6
  <2> QED
    BY <2>1, <2>2
<1>2. UNCHANGED <<jobs, active, shown, view, selected, detail, stopping>>
  BY <1>1 DEF engineVars, listVars, paneVars
<1>3. scroll' \in Nat /\ (scroll' > 0 => scroll > 0)
  BY <1>1 DEF ListInv, ListType
<1> QED
  BY <1>2, <1>3 DEF ListInv, ListType, Filled, PaneIsConsistent

\* So does a frame.
LEMMA RenderKeepsList ==
  ASSUME ListInv, NEW slack \in Nat, NEW ended \in BOOLEAN, Render(slack, ended)
  PROVE  ListInv' /\ UNCHANGED <<jobs, active, shown, selected, detail, rowVars>>
<1>1. /\ UNCHANGED <<jobs, active, shown, view, selected, detail, rowVars>>
      /\ stopping' = (stopping \/ ended)
      /\ scroll' = IF detail \/ (view = 2 /\ activity # <<>>)
                   THEN Least(scroll, slack) ELSE scroll
  BY DEF Render, Clamp, engineVars, listVars, paneVars
<1>2. scroll' \in Nat /\ (scroll' > 0 => scroll > 0)
  BY <1>1 DEF Least, ListInv, ListType
<1>3. stopping' \in BOOLEAN
  BY <1>1, Zenon DEF ListInv, ListType
<1> QED
  BY <1>1, <1>2, <1>3 DEF ListInv, ListType, Filled, PaneIsConsistent

\* So does a report.
LEMMA ReportKeepsList ==
  ASSUME ListInv, NEW found \in SUBSET Issues, NEW a \in Issues \cup {NoIssue},
         Report(found, a)
  PROVE  ListInv'
<1>1. UNCHANGED <<view, detail, scroll, stopping>>
  BY DEF Report, paneVars
<1>2. /\ jobs' \subseteq Issues /\ active' \in Issues \cup {NoIssue}
      /\ shown' \in Seq(Issues) /\ selected' \in Nat
      /\ shown' # <<>> => jobs' # {}
      /\ shown # <<>> => shown' # <<>>
      /\ shown' = <<>> => selected' = 0
      /\ shown' # <<>> => selected' < Len(shown')
  <2>1. jobs' = {} => shown' = <<>>
    <3>1. SUFFICES ASSUME jobs' = {} PROVE shown' = <<>>
      OBVIOUS
    <3>2. Len(shown') = Least(0, Window) /\ shown' \in Seq(Issues)
      BY <3>1, ReportIs, ListedIs, FS_EmptySet
    <3> QED
      BY <3>2, EmptySeq DEF Least
  <2> QED
    BY <2>1, ReportIs
<1> QED
  BY <1>1, <1>2 DEF ListInv, ListType, Filled, PaneIsConsistent

\* Every step keeps the list.
LEMMA ListNext ==
  ASSUME ListInv, [Next]_dashVars PROVE ListInv'
<1>1. CASE UNCHANGED dashVars
  <2>1. UNCHANGED <<jobs, active, shown, view, selected, detail, scroll, stopping>>
    BY <1>1 DEF dashVars, engineVars, listVars, paneVars
  <2> QED
    BY <2>1 DEF ListInv, ListType, Filled, PaneIsConsistent
<1>2. CASE Next
  BY <1>2, ReportKeepsList, RecordKeepsList, KeyKeepsList, RenderKeepsList DEF Next
<1> QED
  BY <1>1, <1>2

\* The selection is an issue of the list, the activity has no detail, and an
\* offset belongs to the pane that is shown: for any window and any issues.
THEOREM PaneHolds == Spec => []PaneIsConsistent
<1>1. Spec => []ListInv
  BY ListInit, ListNext, PTL DEF Spec
<1>2. ListInv => PaneIsConsistent
  BY DEF ListInv
<1> QED
  BY <1>1, <1>2, PTL

\* Every report lists the newest jobs that fit, in order, and the active one.
THEOREM SnapshotHolds == Spec => SnapshotIsRight
<1> DEFINE Right == shown' # shown =>
             /\ Len(shown') = Least(Cardinality(jobs'), Window)
             /\ \A i \in 2..Len(shown') : shown'[i - 1] < shown'[i]
             /\ ShownSet' \subseteq jobs'
             /\ active' # NoIssue => active' \in ShownSet'
             /\ \A n \in jobs' \ ShownSet', m \in ShownSet' \ {active'} : n < m
<1>1. ASSUME ListInv, [Next]_dashVars PROVE Right
  <2>1. SUFFICES ASSUME shown' # shown PROVE Right
    OBVIOUS
  <2>2. PICK found \in SUBSET Issues, a \in Issues \cup {NoIssue} : Report(found, a)
    BY <1>1, <2>1, RecordKeepsList, KeyIsLocal, RenderKeepsList
       DEF Next, dashVars, listVars
  <2>3. /\ jobs' \in SUBSET Issues /\ active' \in jobs' \cup {NoIssue}
        /\ shown' = Listed(jobs', active')
    BY <1>1, <2>2, ReportIs
  <2>4. /\ shown' \in Seq(jobs')
        /\ Len(shown') = Least(Cardinality(jobs'), Window)
        /\ \A i \in 2..Len(shown') : shown'[i - 1] < shown'[i]
        /\ active' # NoIssue => \E i \in 1..Len(shown') : shown'[i] = active'
        /\ \A n \in jobs' : \/ \E i \in 1..Len(shown') : shown'[i] = n
                            \/ \A i \in 1..Len(shown') :
                                 shown'[i] = active' \/ n < shown'[i]
    BY <2>3, ListedIs
  <2>5. ShownSet' = {shown'[i] : i \in 1..Len(shown')}
    BY DEF ShownSet
  <2>6. \A i \in 1..Len(shown') : shown'[i] \in jobs'
    BY <2>4, LenProperties
  <2> QED
    BY <2>4, <2>5, <2>6
<1>2. Spec => []ListInv
  BY ListInit, ListNext, PTL DEF Spec
<1>3. Spec => [][Right]_dashVars
  BY <1>1, <1>2, PTL DEF Spec
<1> QED
  BY <1>3 DEF SnapshotIsRight

\* The cursor stays on its issue as long as that is listed, and on the newest
\* one as long as nobody has moved it.
THEOREM CursorHolds == Spec => CursorIsKept
<1> DEFINE Kept ==
             /\ shown' # shown =>
                  IF detail \/ selected > 0 THEN Cursor \in ShownSet' => Cursor' = Cursor
                  ELSE selected' = 0
             /\ shown' = shown /\ detail /\ detail' => Cursor' = Cursor
<1>1. ASSUME ListInv, [Next]_dashVars PROVE Kept
  <2>1. selected \in Nat
    BY <1>1 DEF ListInv, ListType
  <2>2. ASSUME NEW found \in SUBSET Issues, NEW a \in Issues \cup {NoIssue},
               Report(found, a)
        PROVE  Kept
    <3>1. /\ (detail \/ selected > 0) /\ Cursor \in ShownSet' => Cursor' = Cursor
          /\ ~detail /\ selected = 0 => selected' = 0
      BY <1>1, <2>2, ReportIs
    <3>2. shown' = shown /\ detail => Cursor \in ShownSet'
      <4>1. SUFFICES ASSUME shown' = shown, detail PROVE Cursor \in ShownSet'
        OBVIOUS
      <4>2. shown \in Seq(Issues) /\ shown # <<>> /\ selected < Len(shown)
        BY <1>1, <4>1 DEF ListInv, ListType, PaneIsConsistent
      <4>3. Len(shown) - selected \in 1..Len(shown)
        BY <2>1, <4>2, LenProperties
      <4> QED
        BY <4>1, <4>3 DEF Cursor, ShownSet
    <3> QED
      BY <2>1, <3>1, <3>2
  <2>3. CASE UNCHANGED <<shown, selected>>
    BY <2>3 DEF Cursor
  <2>4. ASSUME NEW k \in Keys, Key(k) PROVE Kept
    <3>1. shown' = shown
      BY <2>4, KeyIsLocal
    <3>2. detail => selected' = selected
      BY <2>4 DEF Key, Quit, Back, Open, Switch, Ignored, ScrollDetail,
                  ScrollActivity, Browse, dashVars, listVars
    <3> QED
      BY <3>1, <3>2 DEF Cursor
  <2> QED
    BY <1>1, <2>2, <2>3, <2>4, RecordKeepsList, RenderKeepsList
       DEF Next, dashVars, listVars
<1>2. Spec => []ListInv
  BY ListInit, ListNext, PTL DEF Spec
<1>3. Spec => [][Kept]_dashVars
  BY <1>1, <1>2, PTL DEF Spec
<1> QED
  BY <1>3 DEF CursorIsKept

-----------------------------------------------------------------------------
(* The rows of activity *)

Pieces == [of : Streams \cup {Log}, end : BOOLEAN]

\* A row is text of one stream, of which only the end may end a line.
OneLine(row) ==
  /\ row \in Seq(Pieces) /\ row # <<>>
  /\ \A i \in 1..Len(row) : /\ row[i].of = row[1].of
                            /\ row[i].end => i = Len(row)

Ended(row) == row[Len(row)].end

\* Rows of one stream follow one another only if the first has ended.
InRows(q) ==
  /\ q \in Seq(Seq(Pieces))
  /\ \A r \in 1..Len(q) : OneLine(q[r])
  /\ \A r \in 1..Len(q) :
       r < Len(q) /\ q[r][1].of = q[r + 1][1].of => Ended(q[r])

\* What the dashboard remembers of the last row is true of it.
Remembers(q, key, open) ==
  /\ open => key \in Streams
  /\ q # <<>> => /\ open => q[Len(q)][1].of = key /\ ~Ended(q[Len(q)])
                 /\ ~open => Ended(q[Len(q)])

RowInv ==
  /\ InRows(activity)
  /\ Remembers(activity, streamKey, streamOpen)
  /\ streamOpen \in BOOLEAN

\* A row of its own, after a row that has ended or is another stream's.
LEMMA NewRow ==
  ASSUME NEW q, NEW key, NEW open \in BOOLEAN, InRows(q), Remembers(q, key, open),
         NEW p \in Pieces, q # <<>> => ~(open /\ key = p.of)
  PROVE  /\ InRows(Append(q, <<p>>)) /\ Append(q, <<p>>) # <<>>
         /\ Append(q, <<p>>)[Len(Append(q, <<p>>))] = <<p>>
         /\ OneLine(<<p>>) /\ (Ended(<<p>>) <=> p.end) /\ <<p>>[1] = p
<1> DEFINE new == Append(q, <<p>>)
           row == <<p>>
<1>1. row \in Seq(Pieces) /\ Len(row) = 1 /\ row[1] = p /\ row # <<>>
  OBVIOUS
<1>2. p.end \in BOOLEAN
  BY DEF Pieces
<1>3. OneLine(row) /\ (Ended(row) <=> p.end)
  BY <1>1, <1>2 DEF OneLine, Ended
<1>4. q \in Seq(Seq(Pieces)) /\ Len(q) \in Nat /\ (q = <<>> <=> Len(q) = 0)
  BY EmptySeq, LenProperties DEF InRows
<1> HIDE DEF row
<1>5. /\ new \in Seq(Seq(Pieces)) /\ Len(new) = Len(q) + 1
      /\ \A r \in 1..Len(q) : new[r] = q[r]
      /\ new[Len(q) + 1] = row
  BY <1>1, <1>4, AppendProperties DEF row
<1> HIDE DEF new
<1>6. \A r \in 1..Len(new) : r \in 1..Len(q) \/ r = Len(q) + 1
  BY <1>4, <1>5
<1>7. \A r \in 1..Len(new) : OneLine(new[r])
  BY <1>3, <1>5, <1>6 DEF InRows
<1>8. ASSUME NEW r \in 1..Len(new), r < Len(new), new[r][1].of = new[r + 1][1].of
      PROVE  Ended(new[r])
  <2>1. r \in 1..Len(q) /\ new[r] = q[r]
    BY <1>4, <1>5, <1>8
  <2>2. CASE r < Len(q)
    <3>1. r + 1 \in 1..Len(q)
      BY <1>4, <2>1, <2>2
    <3>2. new[r + 1] = q[r + 1]
      BY <1>5, <3>1
    <3> QED
      BY <1>8, <2>1, <2>2, <3>2 DEF InRows
  <2>3. CASE r = Len(q)
    <3>1. q # <<>> /\ new[r + 1] = row /\ q[Len(q)][1].of = p.of
      BY <1>1, <1>4, <1>5, <1>8, <2>1, <2>3
    <3> QED
      BY <2>1, <2>3, <3>1 DEF Remembers
  <2> QED
    BY <1>4, <2>1, <2>2, <2>3
<1>9. InRows(new)
  BY <1>5, <1>7, <1>8 DEF InRows
<1>10. new # <<>> /\ new[Len(new)] = row
  BY <1>4, <1>5, EmptySeq
<1> QED
  BY <1>1, <1>3, <1>9, <1>10 DEF new, row

\* More of the line that the last row holds.
LEMMA LongerRow ==
  ASSUME NEW q, InRows(q), q # <<>>, ~Ended(q[Len(q)]),
         NEW p \in Pieces, q[Len(q)][1].of = p.of
  PROVE  LET new == [q EXCEPT ![Len(q)] = Append(@, p)]
         IN  /\ InRows(new) /\ new # <<>>
             /\ new[Len(new)][1].of = p.of /\ (Ended(new[Len(new)]) <=> p.end)
<1> DEFINE n == Len(q)
           old == q[n]
           row == Append(old, p)
           new == [q EXCEPT ![n] = row]
<1>1. q \in Seq(Seq(Pieces)) /\ n \in Nat /\ n \in 1..n
  BY EmptySeq, LenProperties DEF InRows
<1>2. OneLine(old) /\ old[1].of = p.of /\ ~Ended(old)
  BY <1>1 DEF InRows
<1> HIDE DEF n, old
<1>3. old \in Seq(Pieces) /\ Len(old) \in Nat /\ Len(old) > 0
  BY <1>2, EmptySeq, LenProperties DEF OneLine
<1>4. /\ row \in Seq(Pieces) /\ Len(row) = Len(old) + 1
      /\ \A i \in 1..Len(old) : row[i] = old[i]
      /\ row[Len(old) + 1] = p
  BY <1>3, AppendProperties
<1> HIDE DEF row
<1>5. row # <<>> /\ row[1] = old[1]
  BY <1>3, <1>4, EmptySeq
<1>6. Ended(row) <=> p.end
  BY <1>3, <1>4 DEF Ended
<1>7. OneLine(row)
  <2>1. ASSUME NEW i \in 1..Len(row)
        PROVE  row[i].of = row[1].of /\ (row[i].end => i = Len(row))
    <3>1. CASE i = Len(row)
      BY <1>2, <1>3, <1>4, <1>5, <3>1
    <3>2. CASE i # Len(row)
      <4>1. i \in 1..Len(old) /\ row[i] = old[i] /\ Len(old) \in 1..Len(old)
        BY <1>3, <1>4, <3>2
      <4>2. old[i].of = old[1].of /\ (old[i].end => i = Len(old))
        BY <1>2, <4>1 DEF OneLine
      <4>3. ~old[Len(old)].end
        BY <1>2 DEF Ended
      <4> QED
        BY <1>5, <4>1, <4>2, <4>3
    <3> QED
      BY <3>1, <3>2
  <2> QED
    BY <1>4, <1>5, <2>1 DEF OneLine
<1>8. /\ new \in Seq(Seq(Pieces)) /\ Len(new) = n /\ new[n] = row
      /\ \A r \in 1..n : r # n => new[r] = q[r]
  BY <1>1, <1>4, ExceptSeq DEF n
<1> HIDE DEF new
<1>9. \A r \in 1..n : OneLine(new[r])
  BY <1>7, <1>8 DEF InRows, n
<1>10. ASSUME NEW r \in 1..n, r < n, new[r][1].of = new[r + 1][1].of
       PROVE  Ended(new[r])
  <2>1. new[r] = q[r] /\ r + 1 \in 1..n
    BY <1>1, <1>8, <1>10
  <2>2. new[r + 1][1].of = q[r + 1][1].of
    BY <1>5, <1>8, <2>1 DEF old
  <2> QED
    BY <1>10, <2>1, <2>2 DEF InRows, n
<1>11. InRows(new)
  BY <1>8, <1>9, <1>10 DEF InRows
<1>12. new # <<>>
  BY <1>1, <1>8, EmptySeq
<1> QED
  BY <1>2, <1>5, <1>6, <1>8, <1>11, <1>12 DEF new, row, n, old

\* The end of such rows, with the last one kept.
LEMMA LastRows ==
  ASSUME NEW q, InRows(q), q # <<>>, NEW n \in Nat \ {0}
  PROVE  LET new == LastOf(q, n)
         IN  InRows(new) /\ new # <<>> /\ new[Len(new)] = q[Len(q)]
<1> DEFINE new == LastOf(q, n)
<1>1. q \in Seq(Seq(Pieces)) /\ Len(q) \in Nat /\ Len(q) > 0
  BY EmptySeq, LenProperties DEF InRows
<1>2. CASE Len(q) <= n
  BY <1>2 DEF LastOf
<1>3. CASE Len(q) > n
  <2> DEFINE d == Len(q) - n
  <2>1. d \in Nat /\ d + n = Len(q)
    BY <1>1, <1>3
  <2>2. \A S : \A z \in Seq(S), k \in Nat \ {0} :
          /\ LastOf(z, k) \in Seq(S) /\ Len(LastOf(z, k)) = Least(Len(z), k)
          /\ Len(z) > k => \A i \in 1..k : LastOf(z, k)[i] = z[(Len(z) - k) + i]
    BY LastOfIs, Zenon
  <2>3. Least(Len(q), n) = n
    BY <1>1, <1>3 DEF Least
  <2>4. /\ new \in Seq(Seq(Pieces)) /\ Len(new) = n
        /\ \A i \in 1..n : new[i] = q[d + i]
    <3> HIDE DEF new
    <3>1. new = LastOf(q, n)
      BY DEF new
    <3>2. /\ new \in Seq(Seq(Pieces)) /\ Len(new) = Least(Len(q), n)
          /\ Len(q) > n => \A i \in 1..n : new[i] = q[(Len(q) - n) + i]
      BY <1>1, <2>2, <3>1
    <3> QED
      BY <1>3, <2>3, <3>2
  <2> HIDE DEF new, d
  <2>5. \A r \in 1..n : d + r \in 1..Len(q) /\ (r < n => d + r < Len(q))
    BY <2>1
  <2>6. \A r \in 1..n : OneLine(new[r])
    BY <2>4, <2>5 DEF InRows
  <2>7. ASSUME NEW r \in 1..n, r < n, new[r][1].of = new[r + 1][1].of
        PROVE  Ended(new[r])
    <3>1. r + 1 \in 1..n /\ d + (r + 1) = (d + r) + 1
      BY <2>1, <2>7
    <3>2. new[r + 1] = q[(d + r) + 1] /\ new[r] = q[d + r]
      BY <2>4, <3>1
    <3>3. d + r \in 1..Len(q) /\ d + r < Len(q)
      BY <2>5, <2>7
    <3> QED
      BY <2>7, <3>2, <3>3 DEF InRows
  <2>8. new # <<>> /\ new[Len(new)] = q[Len(q)]
    <3>1. n \in 1..n /\ n # 0
      OBVIOUS
    <3>2. new[n] = q[d + n]
      BY <2>4, <3>1
    <3>3. Len(<<>>) = 0
      OBVIOUS
    <3>4. new # <<>>
      BY <2>4, <3>1, <3>3, Zenon
    <3> QED
      BY <2>1, <2>4, <3>2, <3>4, Zenon
  <2>9. InRows(new)
    BY <2>4, <2>6, <2>7 DEF InRows
  <2> QED
    BY <2>8, <2>9 DEF new
<1> QED
  BY <1>1, <1>2, <1>3

\* A sequence of two.
LEMMA Pair ==
  ASSUME NEW S, NEW x \in S, NEW y \in S
  PROVE  Append(<<x>>, y) = <<x, y>>
<1>1. <<x>> \in Seq(S) /\ <<x, y>> \in Seq(S) /\ Append(<<x>>, y) \in Seq(S)
  OBVIOUS
<1>2. Len(Append(<<x>>, y)) = 2 /\ Append(<<x>>, y)[1] = x /\ Append(<<x>>, y)[2] = y
  BY <1>1
<1>3. Len(<<x, y>>) = 2 /\ <<x, y>>[1] = x /\ <<x, y>>[2] = y
  OBVIOUS
<1>4. \A i \in 1..2 : i = 1 \/ i = 2
  OBVIOUS
<1> QED
  BY <1>1, <1>2, <1>3, <1>4, SeqEqual

\* What a record adds is kept to the limit: rows and memory stay in step.
LEMMA Kept ==
  ASSUME NEW q, InRows(q), q # <<>>, activity' = LastOf(q, ActivityLimit),
         Remembers(q, streamKey', streamOpen'), streamOpen' \in BOOLEAN
  PROVE  RowInv'
<1>1. InRows(activity') /\ activity' # <<>> /\ activity'[Len(activity')] = q[Len(q)]
  BY LastRows
<1>2. InRows(activity)'
  BY <1>1 DEF InRows
<1>3. Remembers(activity, streamKey, streamOpen)'
  BY <1>1 DEF Remembers
<1> QED
  BY <1>2, <1>3 DEF RowInv

\* A message of the run keeps the rows.
LEMMA MessageKeepsRows ==
  ASSUME RowInv, Message PROVE RowInv'
<1> DEFINE p == [of |-> Log, end |-> TRUE]
           q == Append(activity, <<p>>)
<1>1. p \in Pieces /\ p.of = Log /\ p.end
  BY DEF Pieces
<1>2. /\ InRows(activity) /\ Remembers(activity, streamKey, streamOpen)
      /\ streamOpen \in BOOLEAN
  BY DEF RowInv
<1>3. activity' = LastOf(activity \o <<<<p>>>>, ActivityLimit) /\ streamOpen' = FALSE
  BY DEF Message, AddRows
<1>4. activity \in Seq(Seq(Pieces))
  BY <1>2 DEF InRows
<1>5. activity \o <<<<p>>>> = q
  <2>1. <<p>> \in Seq(Pieces)
    BY <1>1
  <2> HIDE DEF p
  <2> QED
    BY <1>4, <2>1, AppendIsConcat
<1> HIDE DEF p
<1>6. ~(streamOpen /\ streamKey = p.of)
  BY <1>1, <1>2 DEF Remembers
<1>7. /\ InRows(q) /\ q # <<>> /\ q[Len(q)] = <<p>> /\ Ended(<<p>>)
  BY <1>1, <1>2, <1>6, NewRow
<1> HIDE DEF q
<1>8. streamOpen' \in BOOLEAN /\ ~streamOpen'
  BY <1>3, Zenon
<1>9. Remembers(q, streamKey', streamOpen')
  BY <1>7, <1>8 DEF Remembers
<1> QED
  BY <1>3, <1>5, <1>7, <1>8, <1>9, Kept

\* So does output of an agent.
LEMMA TranscriptKeepsRows ==
  ASSUME RowInv, NEW s \in Streams, NEW ends \in Texts, Transcript(s, ends)
  PROVE  RowInv'
<1> DEFINE n == Len(ends)
           piece == [i \in 1..n |-> [of |-> s, end |-> ends[i]]]
           joined == streamOpen /\ streamKey = s /\ activity # <<>>
           row == Len(activity)
           kept == IF joined THEN [activity EXCEPT ![row] = Append(@, piece[1])] ELSE activity
           first == IF joined THEN 2 ELSE 1
           added == [i \in 1..(n - first + 1) |-> <<piece[first + i - 1]>>]
           open == ~ends[n]
<1>1. /\ activity' = LastOf(kept \o added, ActivityLimit)
      /\ streamKey' = s /\ streamOpen' = open
  BY Zenon DEF Transcript, AddRows
<1>2. /\ InRows(activity) /\ Remembers(activity, streamKey, streamOpen)
      /\ streamOpen \in BOOLEAN
  BY DEF RowInv
<1>3. /\ \A i \in 1..n : ends[i] \in BOOLEAN
      /\ n = 1 \/ (n = 2 /\ ends[1] = TRUE)
  BY TextIs, Zenon
<1>4. \A i \in 1..n : /\ piece[i] \in Pieces /\ piece[i].of = s
                      /\ (piece[i].end <=> ends[i])
  BY <1>3 DEF Pieces
<1>5. 1 \in 1..n /\ n \in 1..n
  BY <1>3
<1>6. piece[n].end <=> ~open
  BY <1>3, <1>4, <1>5
<1>7. open \in BOOLEAN
  OBVIOUS
\* the rows after its first line
<1> DEFINE one == IF joined THEN kept ELSE Append(activity, <<piece[1]>>)
<1>8. InRows(one) /\ one # <<>> /\ one[Len(one)][1].of = s
      /\ (Ended(one[Len(one)]) <=> piece[1].end)
  <2> HIDE DEF piece
  <2>1. CASE joined
    <3>1. /\ activity # <<>> /\ ~Ended(activity[Len(activity)])
          /\ activity[Len(activity)][1].of = s
      BY <1>2, <2>1 DEF Remembers
    <3>2. one = [activity EXCEPT ![Len(activity)] = Append(@, piece[1])]
      BY <2>1
    <3> DEFINE longer == [activity EXCEPT ![Len(activity)] = Append(@, piece[1])]
    <3>3. /\ InRows(longer) /\ longer # <<>> /\ longer[Len(longer)][1].of = piece[1].of
          /\ (Ended(longer[Len(longer)]) <=> piece[1].end)
      <4>1. piece[1] \in Pieces /\ s = piece[1].of
        BY <1>4, <1>5
      <4> QED
        BY <1>2, <3>1, <4>1, LongerRow
    <3> HIDE DEF one, longer
    <3>4. one = longer
      BY <3>2 DEF longer
    <3> QED
      BY <1>4, <1>5, <3>3, <3>4
  <2>2. CASE ~joined
    <3>1. activity # <<>> => ~(streamOpen /\ streamKey = s)
      BY <2>2
    <3>2. /\ InRows(Append(activity, <<piece[1]>>)) /\ Append(activity, <<piece[1]>>) # <<>>
          /\ Append(activity, <<piece[1]>>)[Len(Append(activity, <<piece[1]>>))] = <<piece[1]>>
          /\ (Ended(<<piece[1]>>) <=> piece[1].end) /\ <<piece[1]>>[1] = piece[1]
      BY <1>2, <1>4, <1>5, <3>1, NewRow
    <3>3. one = Append(activity, <<piece[1]>>)
      BY <2>2
    <3> HIDE DEF one
    <3> QED
      BY <1>4, <1>5, <3>2, <3>3
  <2> QED
    BY <2>1, <2>2
<1>9. activity \in Seq(Seq(Pieces)) /\ kept \in Seq(Seq(Pieces))
  <2>1. activity \in Seq(Seq(Pieces)) /\ one \in Seq(Seq(Pieces))
    BY <1>2, <1>8 DEF InRows
  <2>2. joined => kept = one
    OBVIOUS
  <2> HIDE DEF one, kept
  <2>3. ~joined => kept = activity
    BY DEF kept
  <2> QED
    BY <2>1, <2>2, <2>3
<1>10. \A i \in 1..n : <<piece[i]>> \in Seq(Pieces)
  BY <1>4
<1>11. kept \o added = IF n = 1 THEN one ELSE Append(one, <<piece[2]>>)
  <2> HIDE DEF piece, n
  <2>1. CASE joined /\ n = 1
    <3>1. added = <<>> /\ one = kept
      BY <2>1
    <3> QED
      BY <1>9, <2>1, <3>1
  <2>2. CASE joined /\ n = 2
    <3>1. added = <<<<piece[2]>>>> /\ one = kept
      BY <2>2
    <3> QED
      BY <1>9, <2>2, <3>1
  <2>3. CASE ~joined /\ n = 1
    <3>1. added = <<<<piece[1]>>>> /\ kept = activity
      BY <2>3
    <3> QED
      BY <1>9, <2>3, <3>1
  <2>4. CASE ~joined /\ n = 2
    <3> DEFINE a == <<piece[1]>>
               b == <<piece[2]>>
    <3>1. added = <<a, b>> /\ kept = activity
      BY <2>4
    <3>2. a \in Seq(Pieces) /\ b \in Seq(Pieces)
      BY <1>10, <2>4
    <3> HIDE DEF a, b
    <3>3. <<a, b>> = <<a>> \o <<b>> /\ <<a>> \in Seq(Seq(Pieces)) /\ <<b>> \in Seq(Seq(Pieces))
      <4>1. <<a>> \in Seq(Seq(Pieces)) /\ <<b>> \in Seq(Seq(Pieces))
        BY <3>2
      <4>2. Append(<<a>>, b) = <<a>> \o <<b>>
        BY <3>2, <4>1, AppendIsConcat
      <4>3. Append(<<a>>, b) = <<a, b>>
        BY <3>2, Pair
      <4> QED
        BY <4>1, <4>2, <4>3
    <3>4. activity \o (<<a>> \o <<b>>) = (activity \o <<a>>) \o <<b>>
      BY <1>9, <3>3, ConcatAssociative
    <3>5. activity \o <<a>> = Append(activity, a) /\ Append(activity, a) \in Seq(Seq(Pieces))
      BY <1>9, <3>2, AppendIsConcat, AppendProperties
    <3>6. Append(activity, a) \o <<b>> = Append(Append(activity, a), b)
      BY <3>2, <3>5, AppendIsConcat
    <3>7. one = Append(activity, a)
      BY <2>4 DEF a
    <3> HIDE DEF one, kept, added
    <3>8. kept \o added = Append(one, b) /\ n # 1
      BY <2>4, <3>1, <3>3, <3>4, <3>5, <3>6, <3>7
    <3> QED
      BY <3>8 DEF b
  <2> QED
    BY <1>3, <2>1, <2>2, <2>3, <2>4
<1> HIDE DEF one, kept, added, piece, open
<1>12. CASE n = 1
  <2>1. Remembers(one, s, open)
    BY <1>5, <1>6, <1>7, <1>8, <1>12 DEF Remembers
  <2> QED
    BY <1>1, <1>7, <1>8, <1>11, <1>12, <2>1, Kept
<1>13. CASE n # 1
  <2> DEFINE two == Append(one, <<piece[2]>>)
  <2>1. n = 2 /\ piece[1].end /\ piece[2] \in Pieces /\ piece[2].of = s
    BY <1>3, <1>4, <1>13
  <2>2. Remembers(one, s, FALSE)
    BY <1>8, <2>1 DEF Remembers
  <2>3. /\ InRows(two) /\ two # <<>> /\ two[Len(two)] = <<piece[2]>>
        /\ (Ended(<<piece[2]>>) <=> piece[2].end) /\ <<piece[2]>>[1] = piece[2]
    BY <1>8, <2>1, <2>2, NewRow
  <2>4. Remembers(two, s, open)
    BY <1>6, <1>7, <2>1, <2>3 DEF Remembers
  <2> HIDE DEF two
  <2> QED
    BY <1>1, <1>7, <1>11, <1>13, <2>3, <2>4, Kept DEF two
<1> QED
  BY <1>12, <1>13

\* Transcripts of several streams and messages mix, rows are dropped, and still
\* every row holds the text of one line of one stream.
THEOREM RowsHold == Spec => []RowsFollowStreams
<1>1. Init => RowInv
  <2>1. SUFFICES ASSUME Init PROVE RowInv
    OBVIOUS
  <2>2. activity = <<>> /\ streamOpen \in BOOLEAN /\ ~streamOpen
    BY <2>1, Zenon DEF Init
  <2>3. activity \in Seq(Seq(Pieces)) /\ Len(activity) = 0
    BY <2>2
  <2> QED
    BY <2>2, <2>3 DEF RowInv, InRows, Remembers
<1>2. RowInv /\ [Next]_dashVars => RowInv'
  <2>1. SUFFICES ASSUME RowInv, [Next]_dashVars PROVE RowInv'
    OBVIOUS
  <2>2. CASE UNCHANGED rowVars
    <3>1. UNCHANGED <<activity, streamKey, streamOpen>>
      BY <2>2 DEF rowVars
    <3>2. InRows(activity)'
      BY <2>1, <3>1 DEF RowInv, InRows
    <3>3. Remembers(activity, streamKey, streamOpen)'
      BY <2>1, <3>1, Zenon DEF RowInv, Remembers
    <3> QED
      BY <2>1, <3>1, <3>2, <3>3, Zenon DEF RowInv
  <2>3. ASSUME NEW found \in SUBSET Issues, NEW a \in Issues \cup {NoIssue},
               Report(found, a)
        PROVE  UNCHANGED rowVars
    BY <2>3 DEF Report
  <2>4. ASSUME NEW slack \in Nat, NEW ended \in BOOLEAN, Render(slack, ended)
        PROVE  UNCHANGED rowVars
    BY <2>4 DEF Render
  <2> QED
    BY <2>1, <2>2, <2>3, <2>4, MessageKeepsRows, TranscriptKeepsRows, KeyIsLocal
       DEF Next, dashVars
<1>3. RowInv => RowsFollowStreams
  BY DEF RowInv, InRows, OneLine, Ended, RowsFollowStreams
<1> QED
  BY <1>1, <1>2, <1>3, PTL DEF Spec

-----------------------------------------------------------------------------
(* The session and its dashboard *)

\* The context of the run is done or not.
LEMMA CanceledType == Session => [](canceled \in BOOLEAN)
<1> DEFINE T == canceled \in BOOLEAN
<1>1. Start => T
  BY DEF Start
<1>2. T /\ [SessionNext]_vars => T'
  <2> SUFFICES ASSUME T, [SessionNext]_vars PROVE T'
    OBVIOUS
  <2>1. CASE UNCHANGED vars
    BY <2>1 DEF vars
  <2>2. ASSUME NEW k \in Pressed, Press(k) PROVE T'
    BY <2>2 DEF Press
  <2>3. ASSUME NEW text \in Pasted, Paste(text) PROVE T'
    BY <2>3 DEF Paste
  <2>4. ASSUME NEW n \in 1..Len(wire), Read(n) PROVE T'
    BY <2>4 DEF Read
  <2>5. CASE ReadNothing
    BY <2>5 DEF ReadNothing
  <2>6. CASE Handle
    BY <2>6 DEF Handle
  <2>7. CASE Draw
    BY <2>7 DEF Draw
  <2>8. CASE Interrupt
    BY <2>8 DEF Interrupt
  <2>9. CASE Observe
    BY <2>9 DEF Observe
  <2>10. CASE RunReturns
    BY <2>10 DEF RunReturns
  <2>11. CASE Leave
    BY <2>11 DEF Leave
  <2> QED BY <2>1, <2>2, <2>3, <2>4, <2>5, <2>6, <2>7, <2>8, <2>9, <2>10, <2>11 DEF SessionNext
<1> QED BY <1>1, <1>2, PTL DEF Session

\* A key that the dashboard does not know changes nothing.
LEMMA UnknownKey ==
  ASSUME NEW k, k \notin Keys, Key(k)
  PROVE  UNCHANGED dashVars
<1>1. k \notin {"q", "esc", "enter", "1", "2", "3", "tab", "g", "G", "up", "pgup", "down", "pgdown"}
  BY DEF Keys, Ups, Downs
<1>2. CASE ScrollDetail(k)
  BY <1>1, <1>2 DEF ScrollDetail, dashVars, engineVars, listVars, paneVars, rowVars
<1>3. CASE ScrollActivity(k)
  BY <1>1, <1>3 DEF ScrollActivity, Ups, Downs
<1>4. CASE Browse(k)
  BY <1>1, <1>4 DEF Browse, Ups, Downs
<1>5. CASE Ignored(k)
  BY <1>5 DEF Ignored
<1>6. CASE Quit(k) \/ Back(k) \/ Open(k) \/ Switch(k)
  BY <1>1, <1>6 DEF Quit, Back, Open, Switch
<1> QED BY <1>2, <1>3, <1>4, <1>5, <1>6 DEF Key

\* What the loop, the run and the terminal do to the dashboard is what Dashboard
\* allows: a session is one of its behaviours.
THEOREM SessionDrivesDashboard == Session => Spec
<1>1. Start => Init
  BY DEF Start
<1>2. canceled \in BOOLEAN /\ [SessionNext]_vars => [Next]_dashVars
  <2> SUFFICES ASSUME canceled \in BOOLEAN, [SessionNext]_vars PROVE [Next]_dashVars
    OBVIOUS
  <2>1. CASE UNCHANGED vars
    BY <2>1 DEF vars
  <2>2. ASSUME NEW k \in Pressed, Press(k) PROVE UNCHANGED dashVars
    BY <2>2 DEF Press
  <2>3. ASSUME NEW text \in Pasted, Paste(text) PROVE UNCHANGED dashVars
    BY <2>3 DEF Paste
  <2>4. ASSUME NEW n \in 1..Len(wire), Read(n) PROVE UNCHANGED dashVars
    BY <2>4 DEF Read
  <2>5. CASE ReadNothing
    BY <2>5 DEF ReadNothing
  <2>6. CASE Handle
    <3>1. PICK k : k = Head(queue) /\ Key(k)
      BY <2>6 DEF Handle
    <3> QED BY <3>1, UnknownKey DEF Next
  <2>7. CASE Draw
    <3>1. PICK slack \in 0..MaxSlack : Render(slack, canceled)
      BY <2>7 DEF Draw
    <3>2. slack \in Nat
      BY TerminalAssumption
    <3> QED BY <3>1, <3>2 DEF Next
  <2>8. CASE Interrupt
    BY <2>8 DEF Interrupt
  <2>9. CASE Observe
    <3>1. ASSUME NEW found \in SUBSET (Issues \ jobs), NEW a \in Issues \cup {NoIssue}, Report(found, a)
          PROVE  Next
      <4>1. found \in SUBSET Issues
        OBVIOUS
      <4> QED BY <3>1, <4>1 DEF Next
    <3>2. ASSUME NEW s \in Streams, NEW ends \in Texts, Transcript(s, ends) PROVE Next
      BY <3>2 DEF Next
    <3>3. ASSUME Message PROVE Next
      BY <3>3 DEF Next
    <3> QED BY <2>9, <3>1, <3>2, <3>3 DEF Observe
  <2>10. CASE RunReturns
    BY <2>10 DEF RunReturns
  <2>11. CASE Leave
    BY <2>11 DEF Leave
  <2> QED BY <2>1, <2>2, <2>3, <2>4, <2>5, <2>6, <2>7, <2>8, <2>9, <2>10, <2>11 DEF SessionNext
<1> QED BY <1>1, <1>2, CanceledType, PTL DEF Session, Spec

\* What holds of the dashboard holds in a session.
THEOREM SessionKeepsDashboard ==
  Session => /\ []PaneIsConsistent
             /\ []RowsFollowStreams
             /\ SnapshotIsRight
             /\ CursorIsKept
BY SessionDrivesDashboard, PaneHolds, RowsHold, SnapshotHolds, CursorHolds, PTL

-----------------------------------------------------------------------------
(* The key decoder *)

HIDE DashboardAssumption

\* A nonempty bounded set of numbers has a largest element.
LEMMA Largest ==
  ASSUME NEW n \in Nat, NEW s \in SUBSET (0..n), s # {}
  PROVE  \E i \in s : \A j \in s : j <= i
<1> DEFINE t == {n - i : i \in s}
<1>1. \A j \in s : n - j \in t /\ n - j \in Nat /\ j \in Nat /\ j <= n
  OBVIOUS
<1>2. \A m \in t : m \in Nat /\ \E i \in s : m = n - i
  BY <1>1
<1> HIDE DEF t
<1>3. t \in SUBSET Nat /\ t # {}
  BY <1>1, <1>2
<1>4. PICK m \in t : \A k \in t : m <= k
  BY <1>3, Smallest
<1>5. PICK i \in s : m = n - i
  BY <1>2, <1>4
<1>6. ASSUME NEW j \in s PROVE j <= i
  <2>1. m <= n - j
    BY <1>1, <1>4
  <2> QED BY <1>1, <1>5, <2>1
<1> QED BY <1>6

\* Where the unit of the i-th byte ends.
EndOf(b, i) ==
  IF Introduced(b, i) THEN CHOOSE k \in Ends(b, i) : \A l \in Ends(b, i) : k <= l ELSE i

\* One step of Fed ...
FedAt(f, b, i) ==
  [in \in BOOLEAN |->
     IF i > Len(b) \/ Unfinished(b, i)
     THEN [keys |-> <<>>, paste |-> in,
           pending |-> IF Len(b) - i + 1 > MaxPending THEN <<>> ELSE From(b, i)]
     ELSE [f[i + Len(Unit(b, i))][PasteAfter(Unit(b, i), in)] EXCEPT
             !.keys = (IF in THEN <<>> ELSE KeysOf(Unit(b, i))) \o @]]

\* What is left when the bytes end inside what the i-th begins.
Rest(b, i) == IF Len(b) - i + 1 > MaxPending THEN <<>> ELSE From(b, i)

\* A sequence of one.
LEMMA Single ==
  ASSUME NEW S, NEW x \in S
  PROVE  <<x>> \in Seq(S) /\ Len(<<x>>) = 1 /\ <<x>>[1] = x
OBVIOUS

\* A unit ends where its sequence ends, before the next one begins.
LEMMA UnitIs ==
  ASSUME NEW S, NEW b \in Seq(S), NEW i \in 1..Len(b), ~Unfinished(b, i)
  PROVE  /\ EndOf(b, i) \in i..Len(b)
         /\ Introduced(b, i) =>
              /\ EndOf(b, i) \in Ends(b, i)
              /\ \A k \in (i + 2)..(EndOf(b, i) - 1) : b[k] \notin Finals
         /\ ~Introduced(b, i) => EndOf(b, i) = i
         /\ Unit(b, i) = SubSeq(b, i, EndOf(b, i))
         /\ Len(Unit(b, i)) = EndOf(b, i) - i + 1
<1> DEFINE e == EndOf(b, i)
<1>1. Len(b) \in Nat /\ \A k \in 1..Len(b) : b[k] \in S
  BY LenProperties, ElementOfSeq
<1>2. CASE Introduced(b, i)
  <2>1. Ends(b, i) # {}
    BY <1>2 DEF Unfinished
  <2>2. Ends(b, i) \in SUBSET Nat
    BY <1>1 DEF Ends
  <2>3. \E k \in Ends(b, i) : \A l \in Ends(b, i) : k <= l
    BY <2>1, <2>2, Smallest
  <2>4. e = CHOOSE k \in Ends(b, i) : \A l \in Ends(b, i) : k <= l
    BY <1>2 DEF EndOf
  <2>5. e \in Ends(b, i) /\ \A l \in Ends(b, i) : e <= l
    BY <2>3, <2>4
  <2>6. Unit(b, i) = SubSeq(b, i, e)
    BY <1>2, <2>4 DEF Unit
  <2> HIDE DEF e
  <2>7. e \in (i + 2)..Len(b) /\ e \in i..Len(b) /\ e \in Int
    BY <1>1, <2>5 DEF Ends
  <2>8. \A k \in (i + 2)..(e - 1) : b[k] \notin Finals
    <3> TAKE k \in (i + 2)..(e - 1)
    <3>1. k \in (i + 2)..Len(b) /\ ~(e <= k)
      BY <2>7
    <3> QED BY <2>5, <3>1 DEF Ends
  <2>9. Len(SubSeq(b, i, e)) = e - i + 1
    <3>1. \A k \in i..e : b[k] \in S
      BY <1>1, <2>7
    <3>2. i \in Int /\ e \in Int /\ i <= e
      BY <2>7
    <3> QED BY <3>1, <3>2, SubSeqProperties
  <2> QED BY <1>2, <2>5, <2>6, <2>7, <2>8, <2>9 DEF e
<1>3. CASE ~Introduced(b, i)
  <2>1. e = i /\ Unit(b, i) = <<b[i]>>
    BY <1>3 DEF EndOf, Unit
  <2>2. SubSeq(b, i, i) = <<b[i]>>
    <3>1. /\ SubSeq(b, i, i) \in Seq(S) /\ Len(SubSeq(b, i, i)) = 1
          /\ SubSeq(b, i, i)[1] = b[i]
      <4>1. /\ i \in Int /\ i <= i /\ i - i + 1 = 1 /\ i + 1 - 1 = i /\ 1 \in 1..(i - i + 1)
            /\ \A k \in i..i : b[k] \in S
        BY <1>1
      <4>2. /\ SubSeq(b, i, i) \in Seq(S)
            /\ Len(SubSeq(b, i, i)) = IF i <= i THEN i - i + 1 ELSE 0
            /\ \A k \in 1..(i - i + 1) : SubSeq(b, i, i)[k] = b[i + k - 1]
        BY <4>1, SubSeqProperties
      <4> QED BY <4>1, <4>2
    <3>2. PICK u \in Seq(S) : u = SubSeq(b, i, i)
      BY <3>1
    <3>3. PICK v \in Seq(S) : v = <<b[i]>> /\ Len(v) = 1 /\ v[1] = b[i]
      <4>1. b[i] \in S
        BY <1>1
      <4> QED BY <4>1, Single
    <3>4. u = v
      <4>1. Len(u) = Len(v) /\ \A k \in 1..Len(u) : u[k] = v[k]
        BY <3>1, <3>2, <3>3
      <4> QED BY <4>1, SeqEqual
    <3> QED BY <3>2, <3>3, <3>4
  <2>3. Len(<<b[i]>>) = 1
    OBVIOUS
  <2> QED BY <1>1, <1>3, <2>1, <2>2, <2>3
<1> QED BY <1>2, <1>3

\* ... looks at nothing but what follows.
LEMMA FedLooksAhead ==
  ASSUME NEW f, NEW g, NEW b, NEW i,
         \/ i > Len(b) \/ Unfinished(b, i)
         \/ f[i + Len(Unit(b, i))] = g[i + Len(Unit(b, i))]
  PROVE  FedAt(f, b, i) = FedAt(g, b, i)
BY DEF FedAt

\* There is a function with the equation of Fed.
LEMMA FedExists ==
  ASSUME NEW S, NEW b \in Seq(S)
  PROVE  \E f : f = [i \in 1..(Len(b) + 1) |-> FedAt(f, b, i)]
<1> DEFINE n == Len(b)
           Is(f, m) == f = [i \in m..(n + 1) |-> FedAt(f, b, i)]
           missing == {m \in 1..(n + 1) : ~ \E f : Is(f, m)}
<1>0. n \in Nat
  BY LenProperties
<1>1. \E f : Is(f, n + 1)
  <2> DEFINE f == [i \in (n + 1)..(n + 1) |-> FedAt(0, b, i)]
  <2>1. \A i \in (n + 1)..(n + 1) : FedAt(f, b, i) = FedAt(0, b, i)
    <3> TAKE i \in (n + 1)..(n + 1)
    <3>1. i > Len(b)
      BY <1>0
    <3> HIDE DEF f
    <3> QED BY <3>1, FedLooksAhead
  <2>2. Is(f, n + 1)
    BY <2>1
  <2> QED BY <2>2
<1>2. ASSUME NEW m \in 1..n, NEW f, Is(f, m + 1) PROVE \E g : Is(g, m)
  <2> DEFINE g == [i \in m..(n + 1) |-> IF i = m THEN FedAt(f, b, m) ELSE f[i]]
  <2>1. \A i \in m..(n + 1) : i # m => g[i] = f[i] /\ i \in (m + 1)..(n + 1)
    BY <1>0
  <2>2. \A i \in (m + 1)..(n + 1) : f[i] = FedAt(f, b, i)
    BY <1>2
  <2>3. g[m] = FedAt(f, b, m)
    BY <1>0
  <2> HIDE DEF g
  <2>4. ASSUME NEW i \in m..(n + 1) PROVE g[i] = FedAt(g, b, i)
    <3>1. \/ i > n \/ Unfinished(b, i)
          \/ f[i + Len(Unit(b, i))] = g[i + Len(Unit(b, i))]
      <4> SUFFICES ASSUME i <= n, ~Unfinished(b, i)
                   PROVE  f[i + Len(Unit(b, i))] = g[i + Len(Unit(b, i))]
        BY <1>0
      <4>1. i \in 1..Len(b)
        BY <1>0
      <4>2. EndOf(b, i) \in i..Len(b) /\ Len(Unit(b, i)) = EndOf(b, i) - i + 1
        BY <4>1, UnitIs
      <4>3. i + Len(Unit(b, i)) \in m..(n + 1) /\ i + Len(Unit(b, i)) # m
        BY <1>0, <4>1, <4>2
      <4> HIDE DEF n
      <4> QED BY <2>1, <4>3
    <3>2. FedAt(f, b, i) = FedAt(g, b, i)
      BY <3>1, FedLooksAhead
    <3>3. g[i] = FedAt(f, b, i)
      BY <2>1, <2>2, <2>3
    <3> QED BY <3>2, <3>3
  <2>5. g = [i \in m..(n + 1) |-> g[i]]
    BY DEF g
  <2>6. Is(g, m)
    BY <2>4, <2>5
  <2> QED BY <2>6
<1>3. missing = {}
  <2> SUFFICES ASSUME missing # {} PROVE FALSE
    OBVIOUS
  <2>1. missing \in SUBSET (0..(n + 1)) /\ n + 1 \in Nat
    BY <1>0
  <2>2. \A m \in missing : m \in 1..(n + 1) /\ ~ \E f : Is(f, m)
    OBVIOUS
  <2>3. \A m \in 1..(n + 1) : m \notin missing => \E f : Is(f, m)
    OBVIOUS
  <2> HIDE DEF missing, Is, n
  <2>4. PICK m \in missing : \A k \in missing : k <= m
    BY <1>0, <2>1, Largest
  <2>5. m \in 1..n /\ m + 1 \in 1..(n + 1) /\ m + 1 \notin missing
    <3>1. m # n + 1
      BY <1>1, <2>2
    <3> QED BY <1>0, <2>2, <2>4, <3>1
  <2>6. \E f : Is(f, m + 1)
    BY <2>3, <2>5
  <2> QED BY <1>2, <2>2, <2>4, <2>5, <2>6
<1>4. \E f : Is(f, 1)
  <2>1. \A m \in 1..(n + 1) : m \notin missing => \E f : Is(f, m)
    OBVIOUS
  <2>2. 1 \in 1..(n + 1)
    BY <1>0
  <2> HIDE DEF Is, missing
  <2> QED BY <1>3, <2>1, <2>2
<1> QED BY <1>4

\* Fed is such a function.
LEMMA FedIs ==
  ASSUME NEW S, NEW b \in Seq(S)
  PROVE  \A i \in 1..(Len(b) + 1) : Fed(b)[i] = FedAt(Fed(b), b, i)
<1> DEFINE Is(f) == f = [i \in 1..(Len(b) + 1) |-> FedAt(f, b, i)]
<1>1. Fed(b) = CHOOSE f : Is(f)
  BY DEF Fed, FedAt
<1>2. \E f : Is(f)
  BY FedExists
<1> HIDE DEF Is
<1>3. Is(CHOOSE f : Is(f))
  BY <1>2
<1>4. Fed(b) = [i \in 1..(Len(b) + 1) |-> FedAt(Fed(b), b, i)]
  BY <1>1, <1>3 DEF Is
<1> QED BY <1>4

\* The keys that bytes can give, and what feed returns.
Names == Bytes \cup {"up", "down", "enter"}
Outcomes == [keys : Seq(Names), paste : BOOLEAN, pending : Seq(Bytes)]

\* The keys of one unit, inside a paste or outside.
Struck(b, i, in) == IF in THEN <<>> ELSE KeysOf(Unit(b, i))

\* The bytes from one on.
LEMMA FromIs ==
  ASSUME NEW S, NEW b \in Seq(S), NEW i \in 1..(Len(b) + 1)
  PROVE  /\ From(b, i) \in Seq(S)
         /\ Len(From(b, i)) = Len(b) - i + 1
         /\ \A k \in 1..(Len(b) - i + 1) : From(b, i)[k] = b[(i - 1) + k]
<1>1. Len(b) \in Nat /\ \A k \in 1..Len(b) : b[k] \in S
  BY LenProperties, ElementOfSeq
<1>2. i \in Int /\ Len(b) \in Int /\ \A k \in i..Len(b) : b[k] \in S
  BY <1>1
<1>3. /\ From(b, i) \in Seq(S)
      /\ Len(From(b, i)) = IF i <= Len(b) THEN Len(b) - i + 1 ELSE 0
      /\ \A k \in 1..(Len(b) - i + 1) : From(b, i)[k] = b[i + k - 1]
  BY <1>2, SubSeqProperties DEF From
<1>4. \A k \in 1..(Len(b) - i + 1) : i + k - 1 = (i - 1) + k
  BY <1>1
<1>5. Len(From(b, i)) = Len(b) - i + 1
  BY <1>1, <1>3
<1> QED BY <1>3, <1>4, <1>5

\* A unit is made of bytes, and its keys are names.
LEMMA UnitType ==
  ASSUME NEW b \in Seq(Bytes), NEW i \in 1..Len(b), ~Unfinished(b, i)
  PROVE  /\ Unit(b, i) \in Seq(Bytes)
         /\ KeysOf(Unit(b, i)) \in Seq(Names)
<1>1. EndOf(b, i) \in i..Len(b) /\ Unit(b, i) = SubSeq(b, i, EndOf(b, i))
  BY UnitIs
<1>2. Len(b) \in Nat /\ \A k \in 1..Len(b) : b[k] \in Bytes
  BY LenProperties, ElementOfSeq
<1>3. /\ i \in Int /\ EndOf(b, i) \in Int
      /\ \A k \in i..EndOf(b, i) : b[k] \in Bytes
  BY <1>1, <1>2
<1>4. Unit(b, i) \in Seq(Bytes)
  BY <1>1, <1>3, SubSeqProperties
<1>5. Unit(b, i) \in Seq(Names)
  <2>1. Len(Unit(b, i)) \in Nat /\ \A k \in 1..Len(Unit(b, i)) : Unit(b, i)[k] \in Names
    BY <1>4, LenProperties, ElementOfSeq DEF Names
  <2>2. Unit(b, i) = [k \in 1..Len(Unit(b, i)) |-> Unit(b, i)[k]]
    BY <1>4
  <2> QED BY <2>1, <2>2, IsASeq
<1>6. <<"up">> \in Seq(Names) /\ <<"down">> \in Seq(Names) /\ <<"enter">> \in Seq(Names) /\ <<>> \in Seq(Names)
  BY Single DEF Names
<1>7. ASSUME NEW u \in Seq(Names) PROVE KeysOf(u) \in Seq(Names)
  BY <1>6, <1>7, Zenon DEF KeysOf
<1> QED BY <1>4, <1>5, <1>7

\* What feed returns.
LEMMA FedType ==
  ASSUME NEW b \in Seq(Bytes)
  PROVE  \A i \in 1..(Len(b) + 1), in \in BOOLEAN : Fed(b)[i][in] \in Outcomes
<1> DEFINE n == Len(b)
           F == Fed(b)
           wrong == {i \in 1..(n + 1) : \E in \in BOOLEAN : F[i][in] \notin Outcomes}
<1>0. n \in Nat
  BY LenProperties
<1>1. SUFFICES ASSUME wrong # {} PROVE FALSE
  OBVIOUS
<1>2. wrong \subseteq 1..(n + 1) /\ wrong \in SUBSET (0..(n + 1)) /\ n + 1 \in Nat
  BY <1>0
<1>3. \A i \in 1..(n + 1) : i \in wrong <=> \E in \in BOOLEAN : F[i][in] \notin Outcomes
  OBVIOUS
<1>4. \A i \in 1..(n + 1) : F[i] = FedAt(F, b, i)
  BY FedIs
<1> HIDE DEF wrong, F
<1>5. PICK i \in wrong : \A j \in wrong : j <= i
  BY <1>1, <1>2, Largest
<1>6. i \in 1..(n + 1) /\ F[i] = FedAt(F, b, i)
  BY <1>2, <1>4, <1>5
<1>7. PICK in \in BOOLEAN : F[i][in] \notin Outcomes
  BY <1>3, <1>5, <1>6
<1>8. CASE i > n \/ Unfinished(b, i)
  <2>1. F[i][in] = [keys |-> <<>>, paste |-> in, pending |-> Rest(b, i)]
    BY <1>6, <1>8 DEF FedAt, Rest
  <2>2. Rest(b, i) \in Seq(Bytes)
    <3>1. From(b, i) \in Seq(Bytes)
      BY <1>6, FromIs
    <3>2. <<>> \in Seq(Bytes)
      OBVIOUS
    <3> QED BY <3>1, <3>2 DEF Rest
  <2>3. <<>> \in Seq(Names)
    OBVIOUS
  <2> QED BY <1>7, <2>1, <2>2, <2>3 DEF Outcomes
<1>9. CASE ~(i > n \/ Unfinished(b, i))
  <2>1. i \in 1..Len(b)
    BY <1>0, <1>6, <1>9
  <2>2. EndOf(b, i) \in i..Len(b) /\ Len(Unit(b, i)) = EndOf(b, i) - i + 1
    BY <1>9, <2>1, UnitIs
  <2>3. i + Len(Unit(b, i)) \in 1..(n + 1) /\ ~(i + Len(Unit(b, i)) <= i)
    BY <1>0, <2>1, <2>2
  <2>4. PasteAfter(Unit(b, i), in) \in BOOLEAN
    BY Zenon DEF PasteAfter
  <2>5. PICK r \in Outcomes : r = F[i + Len(Unit(b, i))][PasteAfter(Unit(b, i), in)]
    BY <1>3, <1>5, <2>3, <2>4
  <2>6. PICK ks \in Seq(Names) : ks = IF in THEN <<>> ELSE KeysOf(Unit(b, i))
    <3>1. KeysOf(Unit(b, i)) \in Seq(Names)
      BY <1>9, <2>1, UnitType
    <3>2. <<>> \in Seq(Names)
      OBVIOUS
    <3> QED BY <3>1, <3>2
  <2>7. F[i][in] = [r EXCEPT !.keys = ks \o @]
    BY <1>6, <1>9, <2>5, <2>6, Zenon DEF FedAt
  <2>8. ks \o r.keys \in Seq(Names)
    BY ConcatProperties DEF Outcomes
  <2> QED BY <1>7, <2>7, <2>8 DEF Outcomes
<1> QED BY <1>8, <1>9

\* Fed, case by case.
LEMMA FedCases ==
  ASSUME NEW b \in Seq(Bytes), NEW i \in 1..(Len(b) + 1), NEW in \in BOOLEAN
  PROVE  /\ i > Len(b) \/ Unfinished(b, i) =>
              Fed(b)[i][in] = [keys |-> <<>>, paste |-> in, pending |-> Rest(b, i)]
         /\ ~(i > Len(b) \/ Unfinished(b, i)) =>
              LET after == Fed(b)[EndOf(b, i) + 1][PasteAfter(Unit(b, i), in)]
              IN  /\ Fed(b)[i][in] = [keys |-> Struck(b, i, in) \o after.keys,
                                      paste |-> after.paste, pending |-> after.pending]
                  /\ after \in Outcomes
                  /\ PasteAfter(Unit(b, i), in) \in BOOLEAN
                  /\ EndOf(b, i) \in i..Len(b)
                  /\ Struck(b, i, in) \in Seq(Names)
<1> DEFINE n == Len(b)
           F == Fed(b)
<1>0. n \in Nat
  BY LenProperties
<1>1. F[i] = FedAt(F, b, i)
  BY FedIs
<1>2. \A j \in 1..(n + 1), o \in BOOLEAN : F[j][o] \in Outcomes
  BY FedType
<1> HIDE DEF F
<1>3. ASSUME i > n \/ Unfinished(b, i)
      PROVE  F[i][in] = [keys |-> <<>>, paste |-> in, pending |-> Rest(b, i)]
  BY <1>1, <1>3 DEF FedAt, Rest
<1>4. ASSUME ~(i > n \/ Unfinished(b, i))
      PROVE  LET after == F[EndOf(b, i) + 1][PasteAfter(Unit(b, i), in)]
             IN  /\ F[i][in] = [keys |-> Struck(b, i, in) \o after.keys,
                                paste |-> after.paste, pending |-> after.pending]
                 /\ after \in Outcomes
                 /\ PasteAfter(Unit(b, i), in) \in BOOLEAN
                 /\ EndOf(b, i) \in i..Len(b)
                 /\ Struck(b, i, in) \in Seq(Names)
  <2>1. i \in 1..Len(b)
    BY <1>0, <1>4
  <2>2. EndOf(b, i) \in i..Len(b) /\ Len(Unit(b, i)) = EndOf(b, i) - i + 1
    BY <1>4, <2>1, UnitIs
  <2>3. /\ i + Len(Unit(b, i)) = EndOf(b, i) + 1
        /\ EndOf(b, i) + 1 \in 1..(n + 1)
    BY <1>0, <2>1, <2>2
  <2>4. PasteAfter(Unit(b, i), in) \in BOOLEAN
    BY Zenon DEF PasteAfter
  <2>5. PICK after \in Outcomes : after = F[EndOf(b, i) + 1][PasteAfter(Unit(b, i), in)]
    BY <1>2, <2>3, <2>4
  <2>6. Struck(b, i, in) \in Seq(Names)
    <3>1. KeysOf(Unit(b, i)) \in Seq(Names)
      BY <1>4, <2>1, UnitType
    <3>2. <<>> \in Seq(Names)
      OBVIOUS
    <3> QED BY <3>1, <3>2 DEF Struck
  <2>7. F[i][in] = [after EXCEPT !.keys = Struck(b, i, in) \o @]
    BY <1>1, <1>4, <2>3, <2>5, Zenon DEF FedAt, Struck
  <2>8. [after EXCEPT !.keys = Struck(b, i, in) \o @] =
          [keys |-> Struck(b, i, in) \o after.keys,
           paste |-> after.paste, pending |-> after.pending]
    <3>1. PICK ks : ks = Struck(b, i, in) \o after.keys
      OBVIOUS
    <3>2. [after EXCEPT !.keys = ks] =
            [keys |-> ks, paste |-> after.paste, pending |-> after.pending]
      BY DEF Outcomes
    <3> QED BY <3>1, <3>2
  <2> QED BY <2>2, <2>4, <2>5, <2>6, <2>7, <2>8
<1> QED BY <1>3, <1>4 DEF F

\* c is the part of b that follows its first k bytes, or the beginning of it.
PartOf(c, b, k) ==
  /\ k + Len(c) <= Len(b)
  /\ \A l \in 1..Len(c) : c[l] = b[k + l]

\* A part of c is a part of b.
LEMMA SamePart ==
  ASSUME NEW S, NEW b \in Seq(S), NEW c \in Seq(S), NEW k \in Nat, PartOf(c, b, k),
         NEW i \in 1..(Len(c) + 1), NEW e \in (i - 1)..Len(c)
  PROVE  SubSeq(c, i, e) = SubSeq(b, k + i, k + e)
<1>1. Len(b) \in Nat /\ Len(c) \in Nat
      /\ (\A l \in 1..Len(c) : c[l] \in S) /\ \A l \in 1..Len(b) : b[l] \in S
  BY LenProperties, ElementOfSeq
<1>2. k + Len(c) <= Len(b) /\ \A l \in 1..Len(c) : c[l] = b[k + l]
  BY DEF PartOf
<1>3. PICK u \in Seq(S) : /\ u = SubSeq(c, i, e) /\ Len(u) = e - i + 1
                          /\ \A m \in 1..(e - i + 1) : u[m] = c[i + m - 1]
  <2>1. i \in Int /\ e \in Int /\ \A l \in i..e : c[l] \in S
    BY <1>1
  <2>2. /\ SubSeq(c, i, e) \in Seq(S)
        /\ Len(SubSeq(c, i, e)) = IF i <= e THEN e - i + 1 ELSE 0
        /\ \A m \in 1..(e - i + 1) : SubSeq(c, i, e)[m] = c[i + m - 1]
    BY <2>1, SubSeqProperties
  <2>3. Len(SubSeq(c, i, e)) = e - i + 1
    BY <1>1, <2>2
  <2> QED BY <2>2, <2>3
<1>4. PICK v \in Seq(S) : /\ v = SubSeq(b, k + i, k + e) /\ Len(v) = e - i + 1
                          /\ \A m \in 1..(e - i + 1) : v[m] = b[k + i + m - 1]
  <2>1. k + i \in Int /\ k + e \in Int /\ \A l \in (k + i)..(k + e) : b[l] \in S
    BY <1>1, <1>2
  <2>2. /\ SubSeq(b, k + i, k + e) \in Seq(S)
        /\ Len(SubSeq(b, k + i, k + e)) = IF k + i <= k + e THEN k + e - (k + i) + 1 ELSE 0
        /\ \A m \in 1..(k + e - (k + i) + 1) : SubSeq(b, k + i, k + e)[m] = b[k + i + m - 1]
    BY <2>1, SubSeqProperties
  <2>3. k + e - (k + i) + 1 = e - i + 1 /\ (k + i <= k + e <=> i <= e)
    BY <1>1
  <2>4. Len(SubSeq(b, k + i, k + e)) = e - i + 1
    BY <1>1, <2>2, <2>3
  <2> QED BY <2>2, <2>3, <2>4
<1>5. \A m \in 1..Len(u) : u[m] = v[m]
  <2> TAKE m \in 1..Len(u)
  <2>1. i + m - 1 \in 1..Len(c) /\ k + (i + m - 1) = k + i + m - 1 /\ m \in 1..(e - i + 1)
    BY <1>1, <1>3
  <2> QED BY <1>2, <1>3, <1>4, <2>1
<1> QED BY <1>3, <1>4, <1>5, SeqEqual

\* A whole unit of c is the same unit of b.
LEMMA SameUnit ==
  ASSUME NEW S, NEW b \in Seq(S), NEW c \in Seq(S), NEW k \in Nat, PartOf(c, b, k),
         NEW i \in 1..Len(c), ~Unfinished(c, i)
  PROVE  /\ k + i \in 1..Len(b) /\ ~Unfinished(b, k + i)
         /\ EndOf(c, i) \in i..Len(c)
         /\ EndOf(b, k + i) = k + EndOf(c, i)
         /\ Unit(b, k + i) = Unit(c, i)
<1> DEFINE e == EndOf(c, i)
           d == EndOf(b, k + i)
<1>1. Len(b) \in Nat /\ Len(c) \in Nat
  BY LenProperties
<1>2. k + Len(c) <= Len(b) /\ \A l \in 1..Len(c) : c[l] = b[k + l]
  BY DEF PartOf
<1>3. k + i \in 1..Len(b)
  BY <1>1, <1>2
<1>4. /\ e \in i..Len(c)
      /\ Introduced(c, i) => e \in Ends(c, i) /\ \A l \in (i + 2)..(e - 1) : c[l] \notin Finals
      /\ ~Introduced(c, i) => e = i
      /\ Unit(c, i) = SubSeq(c, i, e)
  BY UnitIs
<1>5. c[i] = b[k + i] /\ (i < Len(c) => c[i + 1] = b[(k + i) + 1])
  <2>1. i < Len(c) => i + 1 \in 1..Len(c) /\ k + (i + 1) = (k + i) + 1
    BY <1>1
  <2> QED BY <1>2, <2>1
<1>6. Introduced(c, i) <=> Introduced(b, k + i)
  <2>1. i < Len(c) => k + i < Len(b)
    BY <1>1, <1>2
  <2>2. ~(i = Len(c) /\ c[i] = "esc")
    BY DEF Unfinished
  <2>3. i < Len(c) \/ i = Len(c)
    BY <1>1
  <2> QED BY <1>5, <2>1, <2>2, <2>3 DEF Introduced
<1>7. Introduced(c, i) => k + e \in Ends(b, k + i)
  <2> SUFFICES ASSUME Introduced(c, i) PROVE k + e \in Ends(b, k + i)
    OBVIOUS
  <2> HIDE DEF e
  <2>1. e \in (i + 2)..Len(c) /\ c[e] \in Finals
    BY <1>4 DEF Ends
  <2>2. k + e \in ((k + i) + 2)..Len(b) /\ e \in 1..Len(c)
    BY <1>1, <1>2, <2>1
  <2> QED BY <1>2, <2>1, <2>2 DEF Ends
<1>8. ~Unfinished(b, k + i)
  <2>1. k + i = Len(b) /\ b[k + i] = "esc" => FALSE
    <3> SUFFICES ASSUME k + i = Len(b), b[k + i] = "esc" PROVE FALSE
      OBVIOUS
    <3>1. i = Len(c) /\ c[i] = "esc"
      BY <1>1, <1>2, <1>5
    <3> QED BY <3>1 DEF Unfinished
  <2> QED BY <1>6, <1>7, <2>1 DEF Unfinished
<1>9. /\ d \in (k + i)..Len(b)
      /\ Introduced(b, k + i) => d \in Ends(b, k + i) /\ \A l \in ((k + i) + 2)..(d - 1) : b[l] \notin Finals
      /\ ~Introduced(b, k + i) => d = k + i
      /\ Unit(b, k + i) = SubSeq(b, k + i, d)
  BY <1>3, <1>8, UnitIs
<1> HIDE DEF e, d
<1>10. d = k + e
  <2>1. CASE ~Introduced(c, i)
    BY <1>4, <1>6, <1>9, <2>1
  <2>2. CASE Introduced(c, i)
    <3>1. /\ e \in (i + 2)..Len(c) /\ c[e] \in Finals
          /\ d \in ((k + i) + 2)..Len(b) /\ b[d] \in Finals
      BY <1>4, <1>6, <1>9, <2>2 DEF Ends
    <3>2. ~(d < k + e)
      <4> SUFFICES ASSUME d < k + e PROVE FALSE
        OBVIOUS
      <4>1. /\ d - k \in (i + 2)..(e - 1) /\ d - k \in 1..Len(c) /\ k + (d - k) = d
        BY <1>1, <3>1
      <4>2. c[d - k] = b[k + (d - k)]
        BY <1>2, <4>1
      <4> QED BY <1>4, <2>2, <3>1, <4>1, <4>2
    <3>3. ~(k + e < d)
      <4> SUFFICES ASSUME k + e < d PROVE FALSE
        OBVIOUS
      <4>1. k + e \in ((k + i) + 2)..(d - 1) /\ e \in 1..Len(c)
        BY <1>1, <3>1
      <4>2. c[e] = b[k + e]
        BY <1>2, <4>1
      <4> QED BY <1>6, <1>9, <2>2, <3>1, <4>1, <4>2
    <3> QED BY <1>1, <3>1, <3>2, <3>3
  <2> QED BY <2>1, <2>2
<1>11. SubSeq(c, i, e) = SubSeq(b, k + i, k + e)
  <2>1. i \in 1..(Len(c) + 1) /\ e \in (i - 1)..Len(c)
    BY <1>1, <1>4
  <2> QED BY <2>1, SamePart
<1> QED BY <1>3, <1>4, <1>8, <1>9, <1>10, <1>11 DEF e, d

\* A unit that is unfinished at the end of b is unfinished in the end of b.
LEMMA SameEnd ==
  ASSUME NEW S, NEW b \in Seq(S), NEW c \in Seq(S), NEW k \in Nat, PartOf(c, b, k),
         k + Len(c) = Len(b), NEW i \in 1..Len(c)
  PROVE  Unfinished(c, i) <=> Unfinished(b, k + i)
<1>1. Unfinished(b, k + i) => Unfinished(c, i)
  BY SameUnit
<1>2. ASSUME Unfinished(c, i) PROVE Unfinished(b, k + i)
  <2>1. Len(b) \in Nat /\ Len(c) \in Nat /\ c[i] = b[k + i]
    BY LenProperties DEF PartOf
  <2>2. CASE i = Len(c) /\ c[i] = "esc"
    BY <2>1, <2>2 DEF Unfinished
  <2>3. CASE Introduced(c, i) /\ Ends(c, i) = {}
    <3>1. i < Len(c) /\ i + 1 \in 1..Len(c) /\ k + (i + 1) = (k + i) + 1
      BY <2>1, <2>3 DEF Introduced
    <3>2. c[i + 1] = b[(k + i) + 1]
      BY <3>1 DEF PartOf
    <3>3. Introduced(b, k + i)
      BY <2>1, <2>3, <3>1, <3>2 DEF Introduced
    <3>4. Ends(b, k + i) = {}
      <4> SUFFICES ASSUME NEW l \in Ends(b, k + i) PROVE FALSE
        OBVIOUS
      <4>1. l \in ((k + i) + 2)..Len(b) /\ b[l] \in Finals
        BY DEF Ends
      <4>2. l - k \in (i + 2)..Len(c) /\ l - k \in 1..Len(c) /\ k + (l - k) = l
        BY <2>1, <4>1
      <4>3. c[l - k] = b[k + (l - k)]
        BY <4>2 DEF PartOf
      <4> QED BY <2>3, <4>1, <4>2, <4>3 DEF Ends
    <3> QED BY <3>3, <3>4 DEF Unfinished
  <2> QED BY <1>2, <2>2, <2>3 DEF Unfinished
<1> QED BY <1>1, <1>2

\* What the end of some bytes gives is what it gives inside them.
LEMMA FedEnds ==
  ASSUME NEW b \in Seq(Bytes), NEW c \in Seq(Bytes), NEW k \in Nat, PartOf(c, b, k),
         k + Len(c) = Len(b)
  PROVE  \A i \in 1..(Len(c) + 1), in \in BOOLEAN : Fed(c)[i][in] = Fed(b)[k + i][in]
<1> DEFINE n == Len(c)
           B == Fed(b)
           C == Fed(c)
           wrong == {i \in 1..(n + 1) : \E in \in BOOLEAN : C[i][in] # B[k + i][in]}
<1>0. n \in Nat /\ Len(b) \in Nat
  BY LenProperties
<1>1. SUFFICES ASSUME wrong # {} PROVE FALSE
  OBVIOUS
<1>2. wrong \subseteq 1..(n + 1) /\ wrong \in SUBSET (0..(n + 1)) /\ n + 1 \in Nat
  BY <1>0
<1>3. \A i \in 1..(n + 1) : i \in wrong <=> \E in \in BOOLEAN : C[i][in] # B[k + i][in]
  OBVIOUS
<1> HIDE DEF wrong
<1>4. PICK i \in wrong : \A j \in wrong : j <= i
  BY <1>1, <1>2, Largest
<1>5. i \in 1..(n + 1) /\ k + i \in 1..(Len(b) + 1) /\ (i > n <=> k + i > Len(b))
  BY <1>0, <1>2, <1>4
<1>6. PICK in \in BOOLEAN : C[i][in] # B[k + i][in]
  BY <1>3, <1>4, <1>5
<1>7. i \in 1..n => (Unfinished(c, i) <=> Unfinished(b, k + i))
  BY SameEnd
<1>8. CASE i > n \/ Unfinished(c, i)
  <2>1. k + i > Len(b) \/ Unfinished(b, k + i)
    BY <1>0, <1>5, <1>7, <1>8
  <2>2. C[i][in] = [keys |-> <<>>, paste |-> in, pending |-> Rest(c, i)]
    BY <1>5, <1>8, FedCases
  <2>3. B[k + i][in] = [keys |-> <<>>, paste |-> in, pending |-> Rest(b, k + i)]
    BY <1>5, <2>1, FedCases
  <2>4. Rest(c, i) = Rest(b, k + i)
    <3>1. SubSeq(c, i, n) = SubSeq(b, k + i, k + n)
      <4>1. i \in 1..(Len(c) + 1) /\ n \in (i - 1)..Len(c)
        BY <1>0, <1>5
      <4> QED BY <4>1, SamePart
    <3>2. Len(b) - (k + i) + 1 = n - i + 1
      BY <1>0, <1>5
    <3> QED BY <3>1, <3>2 DEF Rest, From
  <2> QED BY <1>6, <2>2, <2>3, <2>4
<1>9. CASE ~(i > n \/ Unfinished(c, i))
  <2>1. i \in 1..n /\ ~Unfinished(c, i)
    BY <1>0, <1>5, <1>9
  <2>2. /\ k + i \in 1..Len(b) /\ ~Unfinished(b, k + i)
        /\ EndOf(c, i) \in i..n
        /\ EndOf(b, k + i) = k + EndOf(c, i)
        /\ Unit(b, k + i) = Unit(c, i)
    BY <2>1, SameUnit
  <2>3. PICK e \in 1..n, out \in BOOLEAN : e = EndOf(c, i) /\ out = PasteAfter(Unit(c, i), in)
    <3>1. PasteAfter(Unit(c, i), in) \in BOOLEAN
      BY Zenon DEF PasteAfter
    <3> QED BY <2>1, <2>2, <3>1
  <2>4. /\ e + 1 \in 1..(n + 1) /\ ~(e + 1 <= i)
        /\ EndOf(b, k + i) + 1 = k + (e + 1)
        /\ ~(k + i > Len(b))
    BY <1>0, <2>1, <2>2, <2>3
  <2>5. C[e + 1][out] = B[k + (e + 1)][out]
    BY <1>3, <1>4, <2>4
  <2>6. Struck(c, i, in) = Struck(b, k + i, in)
    BY <2>2 DEF Struck
  <2>7. C[i][in] = [keys |-> Struck(c, i, in) \o C[e + 1][out].keys,
                    paste |-> C[e + 1][out].paste, pending |-> C[e + 1][out].pending]
    BY <1>5, <1>9, <2>3, FedCases
  <2>8. LET after == B[EndOf(b, k + i) + 1][PasteAfter(Unit(b, k + i), in)]
        IN  B[k + i][in] = [keys |-> Struck(b, k + i, in) \o after.keys,
                            paste |-> after.paste, pending |-> after.pending]
    BY <1>5, <2>2, <2>4, FedCases
  <2> HIDE DEF B, C
  <2>9. B[k + i][in] = [keys |-> Struck(c, i, in) \o C[e + 1][out].keys,
                        paste |-> C[e + 1][out].paste, pending |-> C[e + 1][out].pending]
    BY <2>2, <2>3, <2>4, <2>5, <2>6, <2>8
  <2> QED BY <1>6, <2>7, <2>9
<1> QED BY <1>8, <1>9

\* Appending is associative.
LEMMA Regrouped ==
  ASSUME NEW S, NEW x \in Seq(S), NEW y \in Seq(S), NEW z \in Seq(S)
  PROVE  (x \o y) \o z = x \o (y \o z)
BY ConcatAssociative, SMT

\* Appending three sequences.
Grouped(x, y, z) == (x \o y) \o z = x \o (y \o z)

\* How three sequences are put together makes no difference.
LEMMA Grouping ==
  ASSUME NEW S, NEW x \in Seq(S), NEW y \in Seq(S), NEW z \in Seq(S)
  PROVE  Grouped(x, y, z)
BY Regrouped DEF Grouped

\* No sequence has more than four bytes.
Short(b) ==
  \A i \in 1..Len(b) : Introduced(b, i) => \E k \in Ends(b, i) : k <= i + 3

\* What b gives is what a beginning of it gives and then what the pending bytes
\* give together with the others.
LEMMA FedGoesOn ==
  ASSUME NEW b \in Seq(Bytes), NEW c \in Seq(Bytes), PartOf(c, b, 0), Short(b)
  PROVE  \A i \in 1..(Len(c) + 1), in \in BOOLEAN :
           LET d == Fed(c)[i][in]
               r == Len(c) - Len(d.pending) + 1
               after == Fed(b)[r][d.paste]
           IN  /\ r \in 1..(Len(c) + 1) /\ d.pending = From(c, r)
               /\ Fed(b)[i][in] = [keys |-> d.keys \o after.keys,
                                   paste |-> after.paste, pending |-> after.pending]
<1> DEFINE n == Len(c)
           B == Fed(b)
           C == Fed(c)
           R(d) == n - Len(d.pending) + 1
           After(d) == B[R(d)][d.paste]
           Right(i, in) ==
             /\ R(C[i][in]) \in 1..(n + 1) /\ C[i][in].pending = From(c, R(C[i][in]))
             /\ B[i][in] = [keys |-> C[i][in].keys \o After(C[i][in]).keys,
                            paste |-> After(C[i][in]).paste,
                            pending |-> After(C[i][in]).pending]
           wrong == {i \in 1..(n + 1) : \E in \in BOOLEAN : ~Right(i, in)}
<1>0. n \in Nat /\ Len(b) \in Nat /\ n <= Len(b)
  BY LenProperties DEF PartOf
<1>a. SUFFICES \A i \in 1..(n + 1), in \in BOOLEAN : Right(i, in)
  BY Zenon
<1>b. \A i \in 1..(n + 1), in \in BOOLEAN : i \notin wrong => Right(i, in)
  OBVIOUS
<1>1. SUFFICES ASSUME wrong # {} PROVE FALSE
  <2> HIDE DEF wrong, Right
  <2> QED BY <1>b
<1>2. wrong \subseteq 1..(n + 1) /\ wrong \in SUBSET (0..(n + 1)) /\ n + 1 \in Nat
  <2> HIDE DEF Right
  <2> QED BY <1>0
<1>3. \A i \in 1..(n + 1) : i \in wrong <=> \E in \in BOOLEAN : ~Right(i, in)
  OBVIOUS
<1> HIDE DEF wrong, Right
<1>4. PICK i \in wrong : \A j \in wrong : j <= i
  BY <1>1, <1>2, Largest
<1>5. i \in 1..(n + 1) /\ i \in 1..(Len(b) + 1)
  BY <1>0, <1>2, <1>4
<1>6. PICK in \in BOOLEAN : ~Right(i, in)
  BY <1>3, <1>4, <1>5
<1>7. CASE i > n \/ Unfinished(c, i)
  <2>1. n - i + 1 <= 3
    <3>1. CASE i > n
      BY <1>0, <1>5, <3>1
    <3>2. CASE i <= n /\ Unfinished(c, i)
      <4>1. CASE i = n
        BY <1>0, <4>1
      <4>2. CASE i # n
        <5>1. Introduced(c, i) /\ Ends(c, i) = {}
          BY <3>2, <4>2 DEF Unfinished
        <5>2. /\ i \in 1..n /\ i < n /\ i + 1 \in 1..n /\ 0 + i = i /\ 0 + (i + 1) = i + 1
              /\ i \in 1..Len(b) /\ i < Len(b)
          BY <1>0, <1>5, <3>2, <4>2
        <5>3. c[i] = b[i] /\ c[i + 1] = b[i + 1]
          BY <5>2 DEF PartOf
        <5>4. Introduced(b, i)
          BY <5>1, <5>2, <5>3 DEF Introduced
        <5>5. PICK k \in Ends(b, i) : k <= i + 3
          BY <5>2, <5>4 DEF Short
        <5>6. k \in (i + 2)..Len(b) /\ b[k] \in Finals
          BY DEF Ends
        <5>7. ~(k <= n)
          <6> SUFFICES ASSUME k <= n PROVE FALSE
            OBVIOUS
          <6>1. k \in 1..n /\ k \in (i + 2)..n /\ 0 + k = k
            BY <5>2, <5>6
          <6>2. c[k] = b[k]
            BY <6>1 DEF PartOf
          <6> QED BY <5>1, <5>6, <6>1, <6>2 DEF Ends
        <5> QED BY <1>0, <5>2, <5>5, <5>6, <5>7
      <4> QED BY <4>1, <4>2
    <3> QED BY <1>0, <1>5, <1>7, <3>1, <3>2
  <2>2. Rest(c, i) = From(c, i)
    <3>1. ~(n - i + 1 > MaxPending)
      BY <1>0, <1>5, <2>1, TerminalAssumption
    <3> QED BY <3>1 DEF Rest
  <2>3. PICK d : /\ d = [keys |-> <<>>, paste |-> in, pending |-> From(c, i)]
                 /\ C[i][in] = d
    <3>1. C[i][in] = [keys |-> <<>>, paste |-> in, pending |-> Rest(c, i)]
      BY <1>5, <1>7, FedCases
    <3> HIDE DEF C
    <3> QED BY <2>2, <3>1
  <2>4. R(d) = i
    <3>1. Len(From(c, i)) = n - i + 1
      BY <1>5, FromIs
    <3>2. d.pending = From(c, i)
      BY <2>3
    <3> QED BY <1>0, <1>5, <3>1, <3>2
  <2>5. PICK after \in Outcomes : after = B[i][in]
    BY <1>5, FedType
  <2>6. <<>> \o after.keys = after.keys
    BY ConcatEmptySeq DEF Outcomes
  <2>7. after = [keys |-> after.keys, paste |-> after.paste, pending |-> after.pending]
    BY DEF Outcomes
  <2>8. d.keys = <<>> /\ d.paste = in /\ d.pending = From(c, i)
    BY <2>3
  <2> HIDE DEF R, B, C
  <2>9. After(d) = after
    BY <2>4, <2>5, <2>8
  <2>10. Right(i, in)
    BY <1>5, <2>3, <2>4, <2>5, <2>6, <2>7, <2>8, <2>9 DEF Right
  <2> QED BY <1>6, <2>10
<1>8. CASE ~(i > n \/ Unfinished(c, i))
  <2>1. i \in 1..n /\ ~Unfinished(c, i) /\ 0 + i = i
    BY <1>0, <1>5, <1>8
  <2>2. /\ i \in 1..Len(b) /\ ~Unfinished(b, i)
        /\ EndOf(c, i) \in i..n
        /\ EndOf(b, i) = EndOf(c, i)
        /\ Unit(b, i) = Unit(c, i)
    <3>1. /\ 0 + i \in 1..Len(b) /\ ~Unfinished(b, 0 + i)
          /\ EndOf(c, i) \in i..n
          /\ EndOf(b, 0 + i) = 0 + EndOf(c, i)
          /\ Unit(b, 0 + i) = Unit(c, i)
      BY <2>1, SameUnit
    <3> QED BY <1>0, <2>1, <3>1
  <2>3. PICK e \in 1..n, out \in BOOLEAN : e = EndOf(c, i) /\ out = PasteAfter(Unit(c, i), in)
    <3>1. PasteAfter(Unit(c, i), in) \in BOOLEAN
      BY Zenon DEF PasteAfter
    <3> QED BY <2>1, <2>2, <3>1
  <2>4. e + 1 \in 1..(n + 1) /\ ~(e + 1 <= i) /\ ~(i > Len(b)) /\ e + 1 \in 1..(Len(b) + 1)
    BY <1>0, <2>1, <2>2, <2>3
  <2>5. Right(e + 1, out)
    BY <1>3, <1>4, <2>4
  <2>6. PICK ks \in Seq(Names) : ks = Struck(c, i, in) /\ ks = Struck(b, i, in)
    <3>1. Struck(c, i, in) \in Seq(Names)
      BY <1>5, <1>8, FedCases
    <3> QED BY <2>2, <3>1 DEF Struck
  <2>7. PICK d \in Outcomes : d = C[e + 1][out]
    BY <2>4, FedType
  <2>8. PICK g \in Outcomes : g = B[e + 1][out]
    BY <2>4, FedType
  <2>9. C[i][in] = [keys |-> ks \o d.keys, paste |-> d.paste, pending |-> d.pending]
    <3>1. LET after == C[EndOf(c, i) + 1][PasteAfter(Unit(c, i), in)]
          IN  C[i][in] = [keys |-> Struck(c, i, in) \o after.keys,
                          paste |-> after.paste, pending |-> after.pending]
      BY <1>5, <1>8, FedCases
    <3>2. C[EndOf(c, i) + 1][PasteAfter(Unit(c, i), in)] = d
      BY <2>2, <2>3, <2>7
    <3> HIDE DEF C
    <3> QED BY <2>6, <3>1, <3>2
  <2>10. B[i][in] = [keys |-> ks \o g.keys, paste |-> g.paste, pending |-> g.pending]
    <3>1. LET after == B[EndOf(b, i) + 1][PasteAfter(Unit(b, i), in)]
          IN  B[i][in] = [keys |-> Struck(b, i, in) \o after.keys,
                          paste |-> after.paste, pending |-> after.pending]
      BY <1>5, <2>2, <2>4, FedCases
    <3>2. B[EndOf(b, i) + 1][PasteAfter(Unit(b, i), in)] = g
      BY <2>2, <2>3, <2>8
    <3> HIDE DEF B
    <3> QED BY <2>6, <3>1, <3>2
  <2>11. R(d) \in 1..(n + 1) /\ d.pending = From(c, R(d))
    <3> HIDE DEF R, C
    <3> QED BY <2>5, <2>7 DEF Right
  <2>12. g = [keys |-> d.keys \o After(d).keys, paste |-> After(d).paste,
              pending |-> After(d).pending]
    <3> HIDE DEF R, C, B, After
    <3> QED BY <2>5, <2>7, <2>8 DEF Right
  <2>13. PICK h \in Outcomes : h = After(d)
    <3>1. R(d) \in 1..(Len(b) + 1)
      <4> HIDE DEF R
      <4> QED BY <1>0, <2>11
    <3>2. d.paste \in BOOLEAN
      BY DEF Outcomes
    <3> HIDE DEF R
    <3> QED BY <3>1, <3>2, FedType
  <2>14. g.keys = d.keys \o h.keys /\ g.paste = h.paste /\ g.pending = h.pending
    <3> HIDE DEF After
    <3> QED BY <2>12, <2>13
  <2>15. (ks \o d.keys) \o h.keys = ks \o (d.keys \o h.keys)
    <3>1. d.keys \in Seq(Names) /\ h.keys \in Seq(Names)
      BY DEF Outcomes
    <3>2. PICK x, y \in Seq(Names) : x = d.keys /\ y = h.keys
      BY <3>1
    <3>3. (ks \o x) \o y = ks \o (x \o y)
      BY Regrouped
    <3> QED BY <3>2, <3>3
  <2>16. PICK f : f = C[i][in]
    OBVIOUS
  <2>17. f.keys = ks \o d.keys /\ f.paste = d.paste /\ f.pending = d.pending
    BY <2>9, <2>16
  <2>18. R(f) = R(d) /\ After(f) = After(d)
    <3>1. R(f) = R(d)
      BY <2>17
    <3> HIDE DEF R
    <3> QED BY <2>17, <3>1
  <2> HIDE DEF R, After, B, C
  <2>19. Right(i, in)
    BY <2>10, <2>11, <2>13, <2>14, <2>15, <2>16, <2>17, <2>18 DEF Right
  <2> QED BY <1>6, <2>19
<1> QED BY <1>7, <1>8

\* Sequences of three and of four.
LEMMA Triple ==
  ASSUME NEW S, NEW x \in S, NEW y \in S, NEW z \in S
  PROVE  /\ <<x, y, z>> \in Seq(S) /\ Len(<<x, y, z>>) = 3
         /\ <<x, y, z>>[1] = x /\ <<x, y, z>>[2] = y /\ <<x, y, z>>[3] = z
OBVIOUS

\* A sequence of four.
LEMMA Quadruple ==
  ASSUME NEW S, NEW w \in S, NEW x \in S, NEW y \in S, NEW z \in S
  PROVE  /\ <<w, x, y, z>> \in Seq(S) /\ Len(<<w, x, y, z>>) = 4
         /\ <<w, x, y, z>>[1] = w /\ <<w, x, y, z>>[2] = x
         /\ <<w, x, y, z>>[3] = y /\ <<w, x, y, z>>[4] = z
OBVIOUS

\* One byte is no sequence of three or four.
LEMMA Longer ==
  ASSUME NEW u, Len(u) = 1, NEW w, NEW x, NEW y, NEW z
  PROVE  u # <<x, y, z>> /\ u # <<w, x, y, z>>
OBVIOUS

\* A byte that begins no sequence is a unit of its own.
LEMMA ByteAt ==
  ASSUME NEW b \in Seq(Bytes), NEW i \in 1..Len(b), ~Unfinished(b, i), ~Introduced(b, i)
  PROVE  /\ EndOf(b, i) = i /\ Unit(b, i) = <<b[i]>>
         /\ KeysOf(Unit(b, i)) = IF b[i] = "cr" THEN <<"enter">> ELSE <<b[i]>>
         /\ \A in \in BOOLEAN : PasteAfter(Unit(b, i), in) = in
<1>1. EndOf(b, i) = i /\ Unit(b, i) = <<b[i]>>
  BY DEF EndOf, Unit
<1>2. PICK u : u = Unit(b, i)
  OBVIOUS
<1>3. Len(u) = 1 /\ (u = <<"cr">> <=> b[i] = "cr")
  BY <1>1, <1>2
<1>4. /\ u # <<"esc", "[", "A">> /\ u # <<"esc", "O", "A">>
      /\ u # <<"esc", "[", "B">> /\ u # <<"esc", "O", "B">>
      /\ u # <<"esc", "[", "start", "~">> /\ u # <<"esc", "[", "end", "~">>
  <2>1. \A w, x, y, z : u # <<x, y, z>> /\ u # <<w, x, y, z>>
    BY <1>3, Longer
  <2> QED BY <2>1, Zenon
<1>5. KeysOf(u) = IF b[i] = "cr" THEN <<"enter">> ELSE u
  <2>1. /\ u \notin {<<"esc", "[", "A">>, <<"esc", "O", "A">>}
        /\ u \notin {<<"esc", "[", "B">>, <<"esc", "O", "B">>}
    BY <1>4
  <2> QED BY <1>3, <2>1, Zenon DEF KeysOf
<1>6. \A in \in BOOLEAN : PasteAfter(u, in) = in
  BY <1>4, Zenon DEF PasteAfter
<1> QED BY <1>1, <1>2, <1>5, <1>6

\* Where a sequence ends.
LEMMA SequenceAt ==
  ASSUME NEW b \in Seq(Bytes), NEW i \in 1..Len(b), Introduced(b, i),
         NEW e \in Ends(b, i), \A k \in (i + 2)..(e - 1) : b[k] \notin Finals
  PROVE  ~Unfinished(b, i) /\ EndOf(b, i) = e /\ Unit(b, i) = SubSeq(b, i, e)
<1>1. Len(b) \in Nat
  BY LenProperties
<1>2. ~Unfinished(b, i)
  BY <1>1 DEF Unfinished, Introduced
<1>3. /\ EndOf(b, i) \in Ends(b, i)
      /\ \A k \in (i + 2)..(EndOf(b, i) - 1) : b[k] \notin Finals
      /\ Unit(b, i) = SubSeq(b, i, EndOf(b, i))
  BY <1>2, UnitIs
<1>4. PICK d : d = EndOf(b, i)
  OBVIOUS
<1>5. /\ e \in (i + 2)..Len(b) /\ b[e] \in Finals
      /\ d \in (i + 2)..Len(b) /\ b[d] \in Finals
  BY <1>3, <1>4 DEF Ends
<1>6. ~(d < e) /\ ~(e < d)
  <2>1. d < e => d \in (i + 2)..(e - 1)
    BY <1>5
  <2>2. e < d => e \in (i + 2)..(d - 1)
    BY <1>5
  <2> QED BY <1>3, <1>4, <1>5, <2>1, <2>2
<1> QED BY <1>2, <1>3, <1>4, <1>5, <1>6

\* Three bytes, and four.
LEMMA Spelled ==
  ASSUME NEW b \in Seq(Bytes), NEW i \in 1..Len(b)
  PROVE  /\ i + 2 <= Len(b) => SubSeq(b, i, i + 2) = <<b[i], b[i + 1], b[i + 2]>>
         /\ i + 3 <= Len(b) => SubSeq(b, i, i + 3) = <<b[i], b[i + 1], b[i + 2], b[i + 3]>>
<1>1. Len(b) \in Nat /\ \A k \in 1..Len(b) : b[k] \in Bytes
  BY LenProperties, ElementOfSeq
<1>2. ASSUME NEW m \in {2, 3}, i + m <= Len(b)
      PROVE  /\ SubSeq(b, i, i + m) \in Seq(Bytes)
             /\ Len(SubSeq(b, i, i + m)) = m + 1
             /\ \A k \in 1..(m + 1) : SubSeq(b, i, i + m)[k] = b[i + k - 1]
  <2>1. /\ i \in Int /\ i + m \in Int /\ i <= i + m /\ i + m - i + 1 = m + 1
        /\ \A k \in i..(i + m) : b[k] \in Bytes
    BY <1>1, <1>2
  <2>2. /\ SubSeq(b, i, i + m) \in Seq(Bytes)
        /\ Len(SubSeq(b, i, i + m)) = IF i <= i + m THEN i + m - i + 1 ELSE 0
        /\ \A k \in 1..(i + m - i + 1) : SubSeq(b, i, i + m)[k] = b[i + k - 1]
    BY <2>1, SubSeqProperties
  <2> QED BY <2>1, <2>2
<1>3. ASSUME i + 2 <= Len(b) PROVE SubSeq(b, i, i + 2) = <<b[i], b[i + 1], b[i + 2]>>
  <2>1. PICK u \in Seq(Bytes) : /\ u = SubSeq(b, i, i + 2) /\ Len(u) = 2 + 1
                                /\ \A k \in 1..(2 + 1) : u[k] = b[i + k - 1]
    BY <1>2, <1>3
  <2>2. u[1] = b[i] /\ u[2] = b[i + 1] /\ u[3] = b[i + 2]
    <3>1. i + 1 - 1 = i /\ i + 2 - 1 = i + 1 /\ i + 3 - 1 = i + 2
      OBVIOUS
    <3> QED BY <2>1, <3>1
  <2>3. b[i] \in Bytes /\ b[i + 1] \in Bytes /\ b[i + 2] \in Bytes
    BY <1>1, <1>3
  <2>4. PICK v \in Seq(Bytes) : /\ v = <<b[i], b[i + 1], b[i + 2]>> /\ Len(v) = 3
                                /\ v[1] = b[i] /\ v[2] = b[i + 1] /\ v[3] = b[i + 2]
    <3>1. PICK x, y, z \in Bytes : x = b[i] /\ y = b[i + 1] /\ z = b[i + 2]
      BY <2>3
    <3>2. PICK v : v = <<x, y, z>>
      OBVIOUS
    <3>3. v \in Seq(Bytes) /\ Len(v) = 3 /\ v[1] = x /\ v[2] = y /\ v[3] = z
      BY <3>2, Triple
    <3> QED BY <3>1, <3>2, <3>3
  <2>5. Len(u) = Len(v) /\ \A k \in 1..Len(u) : u[k] = v[k]
    BY <2>1, <2>2, <2>4
  <2> QED BY <2>1, <2>4, <2>5, SeqEqual
<1>4. ASSUME i + 3 <= Len(b) PROVE SubSeq(b, i, i + 3) = <<b[i], b[i + 1], b[i + 2], b[i + 3]>>
  <2>1. PICK u \in Seq(Bytes) : /\ u = SubSeq(b, i, i + 3) /\ Len(u) = 3 + 1
                                /\ \A k \in 1..(3 + 1) : u[k] = b[i + k - 1]
    BY <1>2, <1>4
  <2>2. u[1] = b[i] /\ u[2] = b[i + 1] /\ u[3] = b[i + 2] /\ u[4] = b[i + 3]
    <3>1. i + 1 - 1 = i /\ i + 2 - 1 = i + 1 /\ i + 3 - 1 = i + 2 /\ i + 4 - 1 = i + 3
      OBVIOUS
    <3> QED BY <2>1, <3>1
  <2>3. b[i] \in Bytes /\ b[i + 1] \in Bytes /\ b[i + 2] \in Bytes /\ b[i + 3] \in Bytes
    BY <1>1, <1>4
  <2>4. PICK v \in Seq(Bytes) :
          /\ v = <<b[i], b[i + 1], b[i + 2], b[i + 3]>> /\ Len(v) = 4
          /\ v[1] = b[i] /\ v[2] = b[i + 1] /\ v[3] = b[i + 2] /\ v[4] = b[i + 3]
    <3>1. PICK w, x, y, z \in Bytes : w = b[i] /\ x = b[i + 1] /\ y = b[i + 2] /\ z = b[i + 3]
      BY <2>3
    <3>2. PICK v : v = <<w, x, y, z>>
      OBVIOUS
    <3>3. v \in Seq(Bytes) /\ Len(v) = 4 /\ v[1] = w /\ v[2] = x /\ v[3] = y /\ v[4] = z
      BY <3>2, Quadruple
    <3> QED BY <3>1, <3>2, <3>3
  <2>5. Len(u) = Len(v) /\ \A k \in 1..Len(u) : u[k] = v[k]
    <3>1. Len(u) = 4 /\ \A k \in 1..4 : k = 1 \/ k = 2 \/ k = 3 \/ k = 4
      BY <2>1
    <3> QED BY <2>2, <2>4, <3>1
  <2> QED BY <2>1, <2>4, <2>5, SeqEqual
<1> QED BY <1>3, <1>4

\* Nothing comes from no bytes.
LEMMA FedStops ==
  ASSUME NEW b \in Seq(Bytes), NEW in \in BOOLEAN
  PROVE  Fed(b)[Len(b) + 1][in] = [keys |-> <<>>, paste |-> in, pending |-> <<>>]
<1>1. Len(b) \in Nat
  BY LenProperties
<1>2. Len(b) + 1 \in 1..(Len(b) + 1) /\ Len(b) + 1 > Len(b)
  BY <1>1
<1>3. Fed(b)[Len(b) + 1][in] = [keys |-> <<>>, paste |-> in, pending |-> Rest(b, Len(b) + 1)]
  BY <1>2, FedCases
<1>4. From(b, Len(b) + 1) = <<>>
  BY <1>1, SubSeqEmpty DEF From
<1> QED BY <1>3, <1>4 DEF Rest

\* A unit without keys leaves the rest.
LEMMA FedSkips ==
  ASSUME NEW b \in Seq(Bytes), NEW i \in 1..Len(b), NEW in \in BOOLEAN,
         ~Unfinished(b, i), Struck(b, i, in) = <<>>
  PROVE  Fed(b)[i][in] = Fed(b)[EndOf(b, i) + 1][PasteAfter(Unit(b, i), in)]
<1>1. Len(b) \in Nat
  BY LenProperties
<1>2. i \in 1..(Len(b) + 1) /\ ~(i > Len(b) \/ Unfinished(b, i))
  BY <1>1
<1>3. PICK after \in Outcomes :
        /\ after = Fed(b)[EndOf(b, i) + 1][PasteAfter(Unit(b, i), in)]
        /\ Fed(b)[i][in] = [keys |-> <<>> \o after.keys,
                            paste |-> after.paste, pending |-> after.pending]
  <2>1. LET after == Fed(b)[EndOf(b, i) + 1][PasteAfter(Unit(b, i), in)]
        IN  /\ Fed(b)[i][in] = [keys |-> Struck(b, i, in) \o after.keys,
                                paste |-> after.paste, pending |-> after.pending]
            /\ after \in Outcomes
    BY <1>2, FedCases
  <2> QED BY <2>1
<1>4. <<>> \o after.keys = after.keys
  BY ConcatEmptySeq DEF Outcomes
<1>5. after = [keys |-> after.keys, paste |-> after.paste, pending |-> after.pending]
  BY DEF Outcomes
<1> QED BY <1>3, <1>4, <1>5

\* Bytes that are read to their end, outside a paste; an escape byte at the end
\* waits and is the key unless more follows.
Settled(b, in) ==
  LET d == Fed(b)[1][in]
  IN  Short(b) /\ d.paste = FALSE /\ d.pending \in {<<>>, <<"esc">>}

\* The keys they stand for.
Meant(b, in) == Fed(b)[1][in].keys \o Fed(b)[1][in].pending

\* No code begins in a way that could go on a sequence.
Fresh(c) == c # <<>> /\ c[1] \notin {"[", "O"}

\* The two parts of what is appended.
LEMMA PartsOf ==
  ASSUME NEW S, NEW b \in Seq(S), NEW c \in Seq(S)
  PROVE  /\ b \o c \in Seq(S) /\ Len(b \o c) = Len(b) + Len(c)
         /\ PartOf(b, b \o c, 0) /\ PartOf(c, b \o c, Len(b))
<1>1. Len(b) \in Nat /\ Len(c) \in Nat
  BY LenProperties
<1>2. /\ b \o c \in Seq(S) /\ Len(b \o c) = Len(b) + Len(c)
      /\ \A i \in 1..(Len(b) + Len(c)) : (b \o c)[i] = IF i <= Len(b) THEN b[i] ELSE c[i - Len(b)]
  BY ConcatProperties
<1>3. PICK a : a = b \o c
  OBVIOUS
<1>4. \A l \in 1..Len(b) : b[l] = a[0 + l]
  BY <1>1, <1>2, <1>3
<1>5. \A l \in 1..Len(c) : c[l] = a[Len(b) + l]
  <2> TAKE l \in 1..Len(c)
  <2>1. Len(b) + l \in 1..(Len(b) + Len(c)) /\ ~(Len(b) + l <= Len(b)) /\ (Len(b) + l) - Len(b) = l
    BY <1>1
  <2> QED BY <1>2, <1>3, <2>1
<1> QED BY <1>1, <1>2, <1>3, <1>4, <1>5 DEF PartOf

\* Sequences stay short when a code is appended.
LEMMA ShortAppended ==
  ASSUME NEW b \in Seq(Bytes), Short(b), NEW c \in Seq(Bytes), Short(c), Fresh(c)
  PROVE  Short(b \o c)
<1>1. Len(b) \in Nat /\ Len(c) \in Nat
  BY LenProperties
<1>2. PICK a \in Seq(Bytes) : /\ a = b \o c /\ Len(a) = Len(b) + Len(c)
                              /\ PartOf(b, a, 0) /\ PartOf(c, a, Len(b))
  BY PartsOf
<1>3. /\ \A l \in 1..Len(b) : b[l] = a[l]
      /\ \A l \in 1..Len(c) : c[l] = a[Len(b) + l]
  <2>1. \A l \in 1..Len(b) : 0 + l = l
    OBVIOUS
  <2> QED BY <1>2, <2>1 DEF PartOf
<1>4. ASSUME NEW i \in 1..Len(a), Introduced(a, i) PROVE \E k \in Ends(a, i) : k <= i + 3
  <2>1. i < Len(a) /\ a[i] = "esc" /\ a[i + 1] \in {"[", "O"}
    BY <1>4 DEF Introduced
  <2>2. CASE i < Len(b)
    <3>1. i \in 1..Len(b) /\ i + 1 \in 1..Len(b)
      BY <1>1, <2>2
    <3>2. Introduced(b, i)
      BY <1>3, <2>1, <2>2, <3>1 DEF Introduced
    <3>3. PICK k \in Ends(b, i) : k <= i + 3
      BY <3>1, <3>2 DEF Short
    <3>4. k \in (i + 2)..Len(b) /\ b[k] \in Finals
      BY DEF Ends
    <3>5. k \in (i + 2)..Len(a) /\ k \in 1..Len(b)
      BY <1>1, <1>2, <3>1, <3>4
    <3>6. k \in Ends(a, i)
      BY <1>3, <3>4, <3>5 DEF Ends
    <3> QED BY <3>3, <3>6
  <2>3. CASE i = Len(b)
    <3>1. 1 \in 1..Len(c)
      BY <1>1, <1>2, <2>1, <2>3
    <3>2. c[1] = a[i + 1]
      BY <1>3, <2>3, <3>1
    <3> QED BY <2>1, <3>2 DEF Fresh
  <2>4. CASE i > Len(b)
    <3>1. PICK j \in 1..Len(c) : /\ i = Len(b) + j /\ j < Len(c)
                                 /\ i + 1 = Len(b) + (j + 1) /\ j + 1 \in 1..Len(c)
      <4>1. /\ i - Len(b) \in 1..Len(c) /\ i = Len(b) + (i - Len(b)) /\ i - Len(b) < Len(c)
            /\ i + 1 = Len(b) + ((i - Len(b)) + 1) /\ (i - Len(b)) + 1 \in 1..Len(c)
        BY <1>1, <1>2, <2>1, <2>4
      <4> QED BY <4>1
    <3>2. Introduced(c, j)
      BY <1>3, <2>1, <3>1 DEF Introduced
    <3>3. PICK k \in Ends(c, j) : k <= j + 3
      BY <3>2 DEF Short
    <3>4. k \in (j + 2)..Len(c) /\ c[k] \in Finals
      BY DEF Ends
    <3>5. Len(b) + k \in (i + 2)..Len(a) /\ k \in 1..Len(c) /\ Len(b) + k <= i + 3
      BY <1>1, <1>2, <3>1, <3>3, <3>4
    <3>6. Len(b) + k \in Ends(a, i)
      BY <1>3, <3>4, <3>5 DEF Ends
    <3> QED BY <3>5, <3>6
  <2> QED BY <1>1, <2>2, <2>3, <2>4
<1> QED BY <1>2, <1>4 DEF Short

\* Appending four sequences of keys.
Regroups(x, w, y, z) == (x \o (w \o y)) \o z = (x \o w) \o (y \o z)

\* The keys of four sequences do not depend on how they are put together.
LEMMA KeysRegrouped ==
  ASSUME NEW x \in Seq(Names), NEW w \in Seq(Names),
         NEW y \in Seq(Names), NEW z \in Seq(Names)
  PROVE  Regroups(x, w, y, z)
<1>1. PICK p, q \in Seq(Names) : p = w \o y /\ q = y \o z
  BY ConcatProperties
<1>2. Grouped(x, p, z) /\ Grouped(w, y, z) /\ Grouped(x, w, q)
  BY <1>1, Grouping
<1>3. (x \o p) \o z = x \o (p \o z)
  BY <1>2, Zenon DEF Grouped
<1>4. (w \o y) \o z = w \o (y \o z)
  BY <1>2, Zenon DEF Grouped
<1>5. (x \o w) \o q = x \o (w \o q)
  BY <1>2, Zenon DEF Grouped
<1> QED BY <1>1, <1>3, <1>4, <1>5 DEF Regroups

\* What is appended means what it means alone.
LEMMA Appended ==
  ASSUME NEW b \in Seq(Bytes), NEW in \in BOOLEAN, Settled(b, in),
         NEW c \in Seq(Bytes), Settled(c, FALSE), Fresh(c)
  PROVE  Settled(b \o c, in) /\ Meant(b \o c, in) = Meant(b, in) \o Meant(c, FALSE)
<1>1. Len(b) \in Nat /\ Len(c) \in Nat /\ Len(c) # 0
  BY LenProperties, EmptySeq DEF Fresh
<1>2. PICK a \in Seq(Bytes) : /\ a = b \o c /\ Len(a) = Len(b) + Len(c)
                              /\ PartOf(b, a, 0) /\ PartOf(c, a, Len(b))
  BY PartsOf
<1>3. Short(a) /\ Short(b)
  BY <1>2, ShortAppended DEF Settled
<1>4. PICK d, g, h \in Outcomes : d = Fed(b)[1][in] /\ g = Fed(c)[1][FALSE] /\ h = Fed(a)[1][in]
  <2>1. 1 \in 1..(Len(b) + 1) /\ 1 \in 1..(Len(c) + 1) /\ 1 \in 1..(Len(a) + 1) /\ FALSE \in BOOLEAN
    BY <1>1, <1>2
  <2> QED BY <2>1, FedType
<1>5. /\ d.paste = FALSE /\ d.pending \in {<<>>, <<"esc">>}
      /\ g.paste = FALSE /\ g.pending \in {<<>>, <<"esc">>}
  BY <1>4 DEF Settled
<1>6. PICK r \in 1..(Len(b) + 1), f \in Outcomes :
        /\ r = Len(b) - Len(d.pending) + 1 /\ d.pending = From(b, r)
        /\ f = Fed(a)[r][FALSE]
        /\ h.keys = d.keys \o f.keys /\ h.paste = f.paste /\ h.pending = f.pending
  <2>1. 1 \in 1..(Len(b) + 1)
    BY <1>1
  <2>2. LET o == Fed(b)[1][in]
            q == Len(b) - Len(o.pending) + 1
            after == Fed(a)[q][o.paste]
        IN  /\ q \in 1..(Len(b) + 1) /\ o.pending = From(b, q)
            /\ Fed(a)[1][in] = [keys |-> o.keys \o after.keys,
                                paste |-> after.paste, pending |-> after.pending]
    <3>1. \A i \in 1..(Len(b) + 1), out \in BOOLEAN :
            LET o == Fed(b)[i][out]
                q == Len(b) - Len(o.pending) + 1
                after == Fed(a)[q][o.paste]
            IN  /\ q \in 1..(Len(b) + 1) /\ o.pending = From(b, q)
                /\ Fed(a)[i][out] = [keys |-> o.keys \o after.keys,
                                     paste |-> after.paste, pending |-> after.pending]
      BY <1>2, <1>3, FedGoesOn, Zenon
    <3> QED BY <2>1, <3>1, Zenon
  <2>3. PICK q : q = Len(b) - Len(d.pending) + 1
    OBVIOUS
  <2>4. /\ q \in 1..(Len(b) + 1) /\ d.pending = From(b, q)
        /\ h = [keys |-> d.keys \o Fed(a)[q][FALSE].keys,
                paste |-> Fed(a)[q][FALSE].paste, pending |-> Fed(a)[q][FALSE].pending]
    BY <1>4, <1>5, <2>2, <2>3, Zenon
  <2>5. q \in 1..(Len(a) + 1) /\ FALSE \in BOOLEAN
    BY <1>1, <1>2, <2>4
  <2>6. PICK f \in Outcomes : f = Fed(a)[q][FALSE]
    BY <2>5, FedType
  <2>7. h.keys = d.keys \o f.keys /\ h.paste = f.paste /\ h.pending = f.pending
    BY <2>4, <2>6
  <2> QED BY <2>3, <2>4, <2>6, <2>7
<1>7. Fed(a)[Len(b) + 1][FALSE] = g
  <2>1. 1 \in 1..(Len(c) + 1) /\ Len(b) + Len(c) = Len(a)
    BY <1>1, <1>2
  <2>2. \A i \in 1..(Len(c) + 1), o \in BOOLEAN : Fed(c)[i][o] = Fed(a)[Len(b) + i][o]
    BY <1>1, <1>2, <2>1, FedEnds
  <2> QED BY <1>4, <2>1, <2>2
<1>8. PICK w \in Seq(Names) :
        /\ w = d.pending
        /\ h.keys = d.keys \o (w \o g.keys) /\ h.paste = FALSE /\ h.pending = g.pending
  <2>1. CASE d.pending = <<>>
    <3>1. Len(d.pending) = 0
      BY <2>1
    <3>2. r = Len(b) + 1
      <4>1. r = Len(b) - Len(d.pending) + 1
        BY <1>6
      <4> QED BY <1>1, <3>1, <4>1
    <3>3. <<>> \o g.keys = g.keys /\ <<>> \in Seq(Names)
      BY ConcatEmptySeq DEF Outcomes
    <3>4. h.keys = d.keys \o g.keys /\ h.paste = g.paste /\ h.pending = g.pending
      BY <1>6, <1>7, <3>2
    <3> QED BY <1>5, <2>1, <3>3, <3>4, Zenon
  <2>2. CASE d.pending = <<"esc">>
    <3>1. Len(<<"esc">>) = 1 /\ <<"esc">>[1] = "esc" /\ <<"esc">> \in Seq(Names)
      BY Single DEF Names, Bytes
    <3>2. r = Len(b) /\ r \in 1..Len(b) /\ r < Len(a) /\ r \in 1..Len(a) /\ ~(r > Len(a))
          /\ 1 \in 1..Len(c) /\ r \in 1..(Len(a) + 1)
      <4>1. r = Len(b) - Len(d.pending) + 1 /\ Len(d.pending) = 1
        BY <1>6, <2>2, <3>1
      <4> QED BY <1>1, <1>2, <4>1
    <3>3. b[r] = "esc"
      <4>1. From(b, r)[1] = b[(r - 1) + 1]
        <5>1. 1 \in 1..(Len(b) - r + 1)
          BY <1>1, <3>2
        <5>2. \A k \in 1..(Len(b) - r + 1) : From(b, r)[k] = b[(r - 1) + k]
          BY FromIs
        <5> QED BY <5>1, <5>2
      <4>2. (r - 1) + 1 = r
        BY <3>2
      <4> QED BY <1>6, <2>2, <3>1, <4>1, <4>2
    <3>4. a[r] = "esc" /\ a[r + 1] = c[1]
      <4>1. b[r] = a[0 + r] /\ c[1] = a[Len(b) + 1] /\ 0 + r = r
        BY <1>2, <3>2 DEF PartOf
      <4> QED BY <3>2, <3>3, <4>1
    <3>5. ~Introduced(a, r) /\ ~Unfinished(a, r)
      BY <3>2, <3>4 DEF Introduced, Unfinished, Fresh
    <3>6. /\ EndOf(a, r) = r
          /\ KeysOf(Unit(a, r)) = <<"esc">>
          /\ PasteAfter(Unit(a, r), FALSE) = FALSE
      BY <3>2, <3>4, <3>5, ByteAt
    <3>7. Struck(a, r, FALSE) = <<"esc">>
      BY <3>6 DEF Struck
    <3>8. LET after == Fed(a)[EndOf(a, r) + 1][PasteAfter(Unit(a, r), FALSE)]
          IN  Fed(a)[r][FALSE] = [keys |-> Struck(a, r, FALSE) \o after.keys,
                                  paste |-> after.paste, pending |-> after.pending]
      <4>1. ~(r > Len(a) \/ Unfinished(a, r)) /\ FALSE \in BOOLEAN
        BY <3>2, <3>5
      <4> QED BY <3>2, <4>1, FedCases
    <3>9. f.keys = <<"esc">> \o g.keys /\ f.paste = g.paste /\ f.pending = g.pending
      <4>1. f = [keys |-> <<"esc">> \o g.keys, paste |-> g.paste, pending |-> g.pending]
        BY <1>6, <1>7, <3>2, <3>6, <3>7, <3>8
      <4> QED BY <4>1
    <3>10. h.keys = d.keys \o (<<"esc">> \o g.keys) /\ h.paste = g.paste /\ h.pending = g.pending
      BY <1>6, <3>9
    <3> QED BY <1>5, <2>2, <3>1, <3>10, Zenon
  <2> QED BY <1>5, <2>1, <2>2
<1>9. PICK x, y, z \in Seq(Names) : x = d.keys /\ y = g.keys /\ z = g.pending
  <2>1. <<"esc">> \in Seq(Names) /\ <<>> \in Seq(Names)
    BY Single DEF Names, Bytes
  <2> QED BY <1>5, <2>1 DEF Outcomes
<1>10. (x \o (w \o y)) \o z = (x \o w) \o (y \o z)
  <2>1. Regroups(x, w, y, z)
    BY KeysRegrouped
  <2> QED BY <2>1 DEF Regroups
<1>11. Settled(a, in)
  BY <1>3, <1>4, <1>5, <1>8 DEF Settled
<1>12. /\ Meant(a, in) = h.keys \o h.pending
       /\ Meant(b, in) = d.keys \o d.pending
       /\ Meant(c, FALSE) = g.keys \o g.pending
  BY <1>4 DEF Meant
<1> QED BY <1>2, <1>8, <1>9, <1>10, <1>11, <1>12

\* Three bytes are no sequence of four.
LEMMA Longest ==
  ASSUME NEW u, Len(u) = 3, NEW w, NEW x, NEW y, NEW z
  PROVE  u # <<w, x, y, z>>
OBVIOUS

\* Sequences of three differ where their last elements do.
LEMMA Differ ==
  ASSUME NEW u, NEW x, NEW y, NEW z, u[3] # z
  PROVE  u # <<x, y, z>>
OBVIOUS

\* A unit at the beginning, with nothing behind it.
LEMMA UnitAlone ==
  ASSUME NEW c \in Seq(Bytes), Len(c) # 0, ~Unfinished(c, 1), EndOf(c, 1) = Len(c),
         PasteAfter(Unit(c, 1), FALSE) = FALSE,
         NEW ks \in Seq(Names), KeysOf(Unit(c, 1)) = ks, Short(c)
  PROVE  Settled(c, FALSE) /\ Meant(c, FALSE) = ks
<1>1. Len(c) \in Nat /\ 1 \in 1..(Len(c) + 1) /\ ~(1 > Len(c))
  BY LenProperties
<1>2. PICK after : after = Fed(c)[Len(c) + 1][FALSE]
  OBVIOUS
<1>3. after.keys = <<>> /\ after.paste = FALSE /\ after.pending = <<>>
  <2>1. after = [keys |-> <<>>, paste |-> FALSE, pending |-> <<>>]
    BY <1>2, FedStops
  <2> QED BY <2>1
<1>4. PICK d : d = Fed(c)[1][FALSE]
  OBVIOUS
<1>5. d = [keys |-> ks \o after.keys, paste |-> after.paste, pending |-> after.pending]
  <2>1. ~(1 > Len(c) \/ Unfinished(c, 1)) /\ FALSE \in BOOLEAN
    BY <1>1
  <2>2. LET next == Fed(c)[EndOf(c, 1) + 1][PasteAfter(Unit(c, 1), FALSE)]
        IN  Fed(c)[1][FALSE] = [keys |-> Struck(c, 1, FALSE) \o next.keys,
                                paste |-> next.paste, pending |-> next.pending]
    BY <1>1, <2>1, FedCases
  <2>3. Struck(c, 1, FALSE) = ks
    BY DEF Struck
  <2>4. after = Fed(c)[EndOf(c, 1) + 1][PasteAfter(Unit(c, 1), FALSE)]
    BY <1>2, Zenon
  <2> QED BY <1>4, <2>2, <2>3, <2>4, Zenon
<1>6. ks \o <<>> = ks
  BY ConcatEmptySeq
<1>7. d.keys = ks /\ d.paste = FALSE /\ d.pending = <<>>
  BY <1>3, <1>5, <1>6
<1> QED BY <1>4, <1>6, <1>7 DEF Settled, Meant

\* A byte.
LEMMA ByteMeans ==
  ASSUME NEW x \in Bytes, x # "esc"
  PROVE  /\ <<x>> \in Seq(Bytes) /\ Settled(<<x>>, FALSE)
         /\ Meant(<<x>>, FALSE) = IF x = "cr" THEN <<"enter">> ELSE <<x>>
<1>1. PICK c \in Seq(Bytes) : c = <<x>> /\ Len(c) = 1 /\ c[1] = x
  BY Single
<1>2. 1 \in 1..Len(c) /\ ~Introduced(c, 1) /\ ~Unfinished(c, 1)
  BY <1>1 DEF Introduced, Unfinished
<1>3. PICK ks \in Seq(Names) : ks = IF x = "cr" THEN <<"enter">> ELSE <<x>>
  <2>1. <<"enter">> \in Seq(Names) /\ <<x>> \in Seq(Names)
    <3>1. x \in Names /\ "enter" \in Names
      BY DEF Names
    <3> QED BY <3>1, Single
  <2> QED BY <2>1
<1>4. EndOf(c, 1) = Len(c) /\ PasteAfter(Unit(c, 1), FALSE) = FALSE /\ KeysOf(Unit(c, 1)) = ks
  <2>1. FALSE \in BOOLEAN
    OBVIOUS
  <2>2. /\ EndOf(c, 1) = 1 /\ KeysOf(Unit(c, 1)) = IF c[1] = "cr" THEN <<"enter">> ELSE <<c[1]>>
        /\ \A in \in BOOLEAN : PasteAfter(Unit(c, 1), in) = in
    BY <1>2, ByteAt
  <2> QED BY <1>1, <1>3, <2>1, <2>2
<1>5. Short(c)
  BY <1>1 DEF Short, Introduced
<1>6. Len(c) # 0
  BY <1>1
<1>7. Settled(c, FALSE) /\ Meant(c, FALSE) = ks
  BY <1>2, <1>4, <1>5, <1>6, UnitAlone, Zenon
<1> QED BY <1>1, <1>3, <1>7

\* The escape key.
LEMMA EscMeans ==
  /\ <<"esc">> \in Seq(Bytes) /\ Settled(<<"esc">>, FALSE)
  /\ Meant(<<"esc">>, FALSE) = <<"esc">>
  /\ \A in \in BOOLEAN :
       Fed(<<"esc">>)[1][in] = [keys |-> <<>>, paste |-> in, pending |-> <<"esc">>]
<1>1. PICK c \in Seq(Bytes) : c = <<"esc">> /\ Len(c) = 1 /\ c[1] = "esc"
  BY Single DEF Bytes
<1>2. 1 \in 1..(Len(c) + 1) /\ Unfinished(c, 1)
  BY <1>1 DEF Unfinished
<1>3. Short(c)
  BY <1>1 DEF Short, Introduced
<1>4. Rest(c, 1) = c
  <2>1. ~(Len(c) - 1 + 1 > MaxPending)
    BY <1>1, TerminalAssumption
  <2>2. From(c, 1) = c
    BY SubSeqFull DEF From
  <2> QED BY <2>1, <2>2 DEF Rest
<1>5. \A in \in BOOLEAN : Fed(c)[1][in] = [keys |-> <<>>, paste |-> in, pending |-> c]
  BY <1>2, <1>4, FedCases
<1>6. <<>> \o c = c
  BY ConcatEmptySeq
<1>7. Settled(c, FALSE) /\ Meant(c, FALSE) = c
  <2>1. PICK d : d = Fed(c)[1][FALSE]
    OBVIOUS
  <2>2. d.keys = <<>> /\ d.paste = FALSE /\ d.pending = c
    <3>1. FALSE \in BOOLEAN
      OBVIOUS
    <3>2. d = [keys |-> <<>>, paste |-> FALSE, pending |-> c]
      BY <1>5, <2>1, <3>1
    <3> QED BY <3>2
  <2> QED BY <1>1, <1>3, <1>6, <2>1, <2>2 DEF Settled, Meant
<1> QED BY <1>1, <1>5, <1>7

\* An arrow.
LEMMA ArrowMeans ==
  ASSUME NEW p \in {"[", "O"}, NEW q \in {"A", "B"}
  PROVE  /\ <<"esc", p, q>> \in Seq(Bytes) /\ Settled(<<"esc", p, q>>, FALSE)
         /\ Meant(<<"esc", p, q>>, FALSE) = IF q = "A" THEN <<"up">> ELSE <<"down">>
<1>1. PICK c \in Seq(Bytes) : /\ c = <<"esc", p, q>> /\ Len(c) = 3
                              /\ c[1] = "esc" /\ c[2] = p /\ c[3] = q
  <2>1. PICK x, y, z \in Bytes : x = "esc" /\ y = p /\ z = q
    BY DEF Bytes
  <2>2. PICK c : c = <<x, y, z>>
    OBVIOUS
  <2>3. c \in Seq(Bytes) /\ Len(c) = 3 /\ c[1] = x /\ c[2] = y /\ c[3] = z
    BY <2>2, Triple
  <2> QED BY <2>1, <2>2, <2>3
<1>2. 1 \in 1..Len(c) /\ Introduced(c, 1) /\ 3 \in Ends(c, 1) /\ \A k \in (1 + 2)..(3 - 1) : c[k] \notin Finals
  BY <1>1 DEF Introduced, Ends, Finals
<1>3. ~Unfinished(c, 1) /\ EndOf(c, 1) = 3 /\ Unit(c, 1) = SubSeq(c, 1, 3)
  BY <1>2, SequenceAt
<1>4. Unit(c, 1) = c
  BY <1>1, <1>3, SubSeqFull
<1>5. Short(c)
  <2> SUFFICES ASSUME NEW i \in 1..Len(c), Introduced(c, i) PROVE \E k \in Ends(c, i) : k <= i + 3
    BY DEF Short
  <2>1. i = 1 \/ i = 2 \/ i = 3
    BY <1>1
  <2>2. i = 1
    BY <1>1, <2>1 DEF Introduced
  <2>3. 3 <= i + 3
    BY <2>2
  <2> QED BY <1>2, <2>2, <2>3
<1>6. PasteAfter(c, FALSE) = FALSE
  <2>1. c # <<"esc", "[", "start", "~">> /\ c # <<"esc", "[", "end", "~">>
    BY <1>1, Longest
  <2> QED BY <2>1, Zenon DEF PasteAfter
<1>7. PICK ks \in Seq(Names) : ks = IF q = "A" THEN <<"up">> ELSE <<"down">>
  <2>1. "up" \in Names /\ "down" \in Names
    BY DEF Names
  <2>2. <<"up">> \in Seq(Names) /\ <<"down">> \in Seq(Names)
    BY <2>1, Single
  <2> QED BY <2>2
<1>8. KeysOf(c) = ks
  <2>1. CASE q = "A"
    <3>1. c \in {<<"esc", "[", "A">>, <<"esc", "O", "A">>}
      BY <1>1, <2>1
    <3>2. KeysOf(c) = <<"up">>
      BY <3>1, SMT DEF KeysOf
    <3> QED BY <1>7, <2>1, <3>2
  <2>2. CASE q = "B"
    <3>1. c \in {<<"esc", "[", "B">>, <<"esc", "O", "B">>}
      BY <1>1, <2>2
    <3>2. c # <<"esc", "[", "A">> /\ c # <<"esc", "O", "A">>
      BY <1>1, <2>2, Differ
    <3>3. c \notin {<<"esc", "[", "A">>, <<"esc", "O", "A">>}
      BY <3>2
    <3>4. KeysOf(c) = <<"down">>
      BY <3>1, <3>3, SMT DEF KeysOf
    <3>5. q # "A"
      BY <2>2
    <3> QED BY <1>7, <3>4, <3>5
  <2> QED BY <2>1, <2>2
<1>9. /\ Len(c) # 0 /\ EndOf(c, 1) = Len(c)
      /\ PasteAfter(Unit(c, 1), FALSE) = FALSE /\ KeysOf(Unit(c, 1)) = ks
  <2>1. Len(c) # 0 /\ EndOf(c, 1) = Len(c)
    BY <1>1, <1>3
  <2> QED BY <2>1, <1>4, <1>6, <1>8, Zenon
<1>10. Settled(c, FALSE) /\ Meant(c, FALSE) = ks
  BY <1>3, <1>5, <1>9, UnitAlone, Zenon
<1> QED BY <1>1, <1>7, <1>10

\* What the terminal sends for a key stands for that key.
LEMMA CodeMeans ==
  ASSUME NEW k \in DOMAIN Code
  PROVE  /\ Code[k] \in Seq(Bytes) /\ Fresh(Code[k])
         /\ Settled(Code[k], FALSE) /\ Meant(Code[k], FALSE) = <<k>> /\ k \in Names
<1>1. k \in {"up", "down", "esc", "enter", "tab", "g", "G", "q"}
  BY DEF Code
<1>2. /\ Code["up"] = <<"esc", "[", "A">> /\ Code["down"] = <<"esc", "O", "B">>
      /\ Code["esc"] = <<"esc">> /\ Code["enter"] = <<"cr">> /\ Code["tab"] = <<"tab">>
      /\ Code["g"] = <<"g">> /\ Code["G"] = <<"G">> /\ Code["q"] = <<"q">>
  BY DEF Code
<1>3. \A k1 : (<<k1>> # <<>> /\ <<k1>>[1] = k1)
  OBVIOUS
<1>4. \A x, y, z : (<<x, y, z>> # <<>> /\ <<x, y, z>>[1] = x)
  OBVIOUS
<1>5. CASE k = "up"
  <2>1. "[" \in {"[", "O"} /\ "A" \in {"A", "B"} /\ k \in Names
    BY <1>5 DEF Names
  <2>2. /\ Code[k] \in Seq(Bytes) /\ Settled(Code[k], FALSE)
        /\ Meant(Code[k], FALSE) = IF "A" = "A" THEN <<"up">> ELSE <<"down">>
    BY <1>2, <1>5, <2>1, ArrowMeans
  <2>3. Fresh(Code[k])
    BY <1>2, <1>4, <1>5 DEF Fresh
  <2> QED BY <1>5, <2>1, <2>2, <2>3
<1>6. CASE k = "down"
  <2>1. "O" \in {"[", "O"} /\ "B" \in {"A", "B"} /\ k \in Names
    BY <1>6 DEF Names
  <2>2. /\ Code[k] \in Seq(Bytes) /\ Settled(Code[k], FALSE)
        /\ Meant(Code[k], FALSE) = IF "B" = "A" THEN <<"up">> ELSE <<"down">>
    BY <1>2, <1>6, <2>1, ArrowMeans
  <2>3. Fresh(Code[k])
    BY <1>2, <1>4, <1>6 DEF Fresh
  <2> QED BY <1>6, <2>1, <2>2, <2>3
<1>7. CASE k = "esc"
  <2>1. Fresh(Code[k]) /\ k \in Names
    BY <1>2, <1>3, <1>7 DEF Fresh, Names, Bytes
  <2> QED BY <1>2, <1>7, <2>1, EscMeans
<1>8. CASE k = "enter"
  <2>1. "cr" \in Bytes /\ k \in Names
    BY <1>8 DEF Bytes, Names
  <2>2. /\ Code[k] \in Seq(Bytes) /\ Settled(Code[k], FALSE)
        /\ Meant(Code[k], FALSE) = IF "cr" = "cr" THEN <<"enter">> ELSE <<"cr">>
    BY <1>2, <1>8, <2>1, ByteMeans
  <2>3. Fresh(Code[k])
    BY <1>2, <1>3, <1>8 DEF Fresh
  <2> QED BY <1>8, <2>1, <2>2, <2>3
<1>9. CASE k \in {"tab", "g", "G", "q"}
  <2>1. k \in Bytes /\ k # "esc" /\ k # "cr" /\ k \in Names /\ Code[k] = <<k>>
    BY <1>2, <1>9 DEF Bytes, Names
  <2>2. /\ Code[k] \in Seq(Bytes) /\ Settled(Code[k], FALSE)
        /\ Meant(Code[k], FALSE) = IF k = "cr" THEN <<"enter">> ELSE <<k>>
    BY <2>1, ByteMeans
  <2>3. Fresh(Code[k])
    BY <1>3, <1>9, <2>1 DEF Fresh
  <2> QED BY <2>1, <2>2, <2>3
<1> QED BY <1>1, <1>5, <1>6, <1>7, <1>8, <1>9

\* A sequence of four bytes is no key.
LEMMA Silent ==
  ASSUME NEW w, NEW x, NEW y, NEW z
  PROVE  KeysOf(<<w, x, y, z>>) = <<>>
<1>1. PICK u : u = <<w, x, y, z>>
  OBVIOUS
<1>2. Len(u) = 4
  BY <1>1
<1>3. \A p, q, r : Len(<<p, q, r>>) = 3 /\ Len(<<p>>) = 1
  OBVIOUS
<1>4. /\ u \notin {<<"esc", "[", "A">>, <<"esc", "O", "A">>}
      /\ u \notin {<<"esc", "[", "B">>, <<"esc", "O", "B">>}
      /\ u # <<"cr">> /\ Len(u) # 1
  BY <1>2, <1>3
<1>5. KeysOf(u) = <<>>
  BY <1>4, Zenon DEF KeysOf
<1> QED BY <1>1, <1>5

\* The sequence around a pasted text, wherever it stands.
LEMMA MarkAt ==
  ASSUME NEW b \in Seq(Bytes), NEW i \in 1..Len(b), i + 3 <= Len(b),
         NEW m \in {"start", "end"},
         b[i] = "esc", b[i + 1] = "[", b[i + 2] = m, b[i + 3] = "~"
  PROVE  /\ ~Unfinished(b, i) /\ EndOf(b, i) = i + 3 /\ i + 3 \in Ends(b, i)
         /\ KeysOf(Unit(b, i)) = <<>>
         /\ \A in \in BOOLEAN : PasteAfter(Unit(b, i), in) = (m = "start")
<1>1. Len(b) \in Nat
  BY LenProperties
<1>2. Introduced(b, i)
  BY <1>1 DEF Introduced
<1>3. i + 3 \in Ends(b, i)
  BY <1>1 DEF Ends, Finals
<1>4. \A k \in (i + 2)..((i + 3) - 1) : b[k] \notin Finals
  <2> TAKE k \in (i + 2)..((i + 3) - 1)
  <2>1. k = i + 2
    OBVIOUS
  <2>2. m \notin Finals
    BY DEF Finals
  <2> QED BY <2>1, <2>2
<1>5. ~Unfinished(b, i) /\ EndOf(b, i) = i + 3 /\ Unit(b, i) = SubSeq(b, i, i + 3)
  BY <1>2, <1>3, <1>4, SequenceAt
<1>6. SubSeq(b, i, i + 3) = <<b[i], b[i + 1], b[i + 2], b[i + 3]>>
  BY Spelled
<1>7. Unit(b, i) = <<"esc", "[", m, "~">>
  BY <1>5, <1>6
<1>8. KeysOf(Unit(b, i)) = <<>>
  BY <1>7, Silent
<1>9. ASSUME NEW in \in BOOLEAN PROVE PasteAfter(Unit(b, i), in) = (m = "start")
  <2>1. CASE m = "start"
    <3>1. PasteAfter(Unit(b, i), in) = TRUE
      <4>1. Unit(b, i) = <<"esc", "[", "start", "~">>
        BY <1>7, <2>1
      <4>2. CASE Unit(b, i) = <<"esc", "[", "start", "~">>
        BY <4>2, SMT DEF PasteAfter
      <4> QED BY <4>1, <4>2
    <3> QED BY <2>1, <3>1
  <2>2. CASE m = "end"
    <3>1. Unit(b, i) = <<"esc", "[", "end", "~">>
      BY <1>7, <2>2
    <3>2. Unit(b, i) # <<"esc", "[", "start", "~">>
      <4>1. PICK u : u = Unit(b, i)
        OBVIOUS
      <4>2. u[3] = "end"
        BY <3>1, <4>1
      <4>3. <<"esc", "[", "start", "~">>[3] = "start"
        OBVIOUS
      <4> QED BY <4>1, <4>2, <4>3
    <3>3. PasteAfter(Unit(b, i), in) = FALSE
      BY <3>1, <3>2, Zenon DEF PasteAfter
    <3> QED BY <2>2, <3>3
  <2> QED BY <2>1, <2>2
<1> QED BY <1>3, <1>5, <1>8, <1>9

\* A pasted text between its two sequences.
LEMMA BracketedIs ==
  ASSUME NEW text \in Seq(Bytes \ {"esc"})
  PROVE  LET c == Bracketed(text)
             n == Len(text)
         IN  /\ c \in Seq(Bytes) /\ Len(c) = n + 8
             /\ c[1] = "esc" /\ c[2] = "[" /\ c[3] = "start" /\ c[4] = "~"
             /\ \A i \in 5..(n + 4) : c[i] # "esc"
             /\ c[n + 5] = "esc" /\ c[n + 6] = "[" /\ c[n + 7] = "end" /\ c[n + 8] = "~"
<1> DEFINE n == Len(text)
<1>1. n \in Nat /\ text \in Seq(Bytes) /\ \A i \in 1..n : text[i] # "esc"
  BY LenProperties, ElementOfSeq
<1>2. PICK a \in Seq(Bytes) : /\ a = <<"esc", "[", "start", "~">> /\ Len(a) = 4
                              /\ a[1] = "esc" /\ a[2] = "[" /\ a[3] = "start" /\ a[4] = "~"
  <2>1. PICK w, x, y, v \in Bytes : w = "esc" /\ x = "[" /\ y = "start" /\ v = "~"
    BY DEF Bytes
  <2>2. PICK u : u = <<w, x, y, v>>
    OBVIOUS
  <2>3. u \in Seq(Bytes) /\ Len(u) = 4 /\ u[1] = w /\ u[2] = x /\ u[3] = y /\ u[4] = v
    BY <2>2, Quadruple
  <2> QED BY <2>1, <2>2, <2>3
<1>3. PICK z \in Seq(Bytes) : /\ z = <<"esc", "[", "end", "~">> /\ Len(z) = 4
                              /\ z[1] = "esc" /\ z[2] = "[" /\ z[3] = "end" /\ z[4] = "~"
  <2>1. PICK w, x, y, v \in Bytes : w = "esc" /\ x = "[" /\ y = "end" /\ v = "~"
    BY DEF Bytes
  <2>2. PICK u : u = <<w, x, y, v>>
    OBVIOUS
  <2>3. u \in Seq(Bytes) /\ Len(u) = 4 /\ u[1] = w /\ u[2] = x /\ u[3] = y /\ u[4] = v
    BY <2>2, Quadruple
  <2> QED BY <2>1, <2>2, <2>3
<1>4. PICK h \in Seq(Bytes) :
        /\ h = a \o text /\ Len(h) = n + 4
        /\ \A i \in 1..(n + 4) : h[i] = IF i <= 4 THEN a[i] ELSE text[i - 4]
  <2>1. /\ a \o text \in Seq(Bytes) /\ Len(a \o text) = Len(a) + n
        /\ \A i \in 1..(Len(a) + n) : (a \o text)[i] = IF i <= Len(a) THEN a[i] ELSE text[i - Len(a)]
    BY <1>1, ConcatProperties
  <2>2. Len(a) + n = n + 4
    BY <1>1, <1>2
  <2>3. PICK h : h = a \o text
    OBVIOUS
  <2> QED BY <1>2, <2>1, <2>2, <2>3
<1>5. PICK c \in Seq(Bytes) :
        /\ c = h \o z /\ Len(c) = n + 8
        /\ \A i \in 1..(n + 8) : c[i] = IF i <= n + 4 THEN h[i] ELSE z[i - (n + 4)]
  <2>1. /\ h \o z \in Seq(Bytes) /\ Len(h \o z) = Len(h) + Len(z)
        /\ \A i \in 1..(Len(h) + Len(z)) : (h \o z)[i] = IF i <= Len(h) THEN h[i] ELSE z[i - Len(h)]
    BY ConcatProperties
  <2>2. Len(h) + Len(z) = n + 8 /\ Len(h) = n + 4
    BY <1>1, <1>3, <1>4
  <2>3. PICK c : c = h \o z
    OBVIOUS
  <2>4. /\ c \in Seq(Bytes) /\ Len(c) = n + 8
        /\ \A i \in 1..(n + 8) : c[i] = IF i <= n + 4 THEN h[i] ELSE z[i - (n + 4)]
    BY <2>1, <2>2, <2>3
  <2> QED BY <2>3, <2>4
<1>6. c = Bracketed(text)
  BY <1>2, <1>3, <1>4, <1>5, Zenon DEF Bracketed
<1> HIDE DEF n
<1>7. c[1] = "esc" /\ c[2] = "[" /\ c[3] = "start" /\ c[4] = "~"
  <2>1. \A i \in 1..4 : c[i] = a[i]
    <3> TAKE i \in 1..4
    <3>1. i \in 1..(n + 8) /\ i <= n + 4 /\ i \in 1..(n + 4) /\ i <= 4
      BY <1>1
    <3> QED BY <1>4, <1>5, <3>1
  <2> QED BY <1>2, <2>1
<1>8. ASSUME NEW i \in 5..(n + 4) PROVE c[i] # "esc"
  <2>1. i \in 1..(n + 8) /\ i <= n + 4 /\ i \in 1..(n + 4) /\ ~(i <= 4) /\ i - 4 \in 1..n
    BY <1>1
  <2>2. c[i] = text[i - 4]
    BY <1>4, <1>5, <2>1
  <2> QED BY <1>1, <2>1, <2>2
<1>9. c[n + 5] = "esc" /\ c[n + 6] = "[" /\ c[n + 7] = "end" /\ c[n + 8] = "~"
  <2>1. \A i \in 1..4 : c[(n + 4) + i] = z[i]
    <3> TAKE i \in 1..4
    <3>1. (n + 4) + i \in 1..(n + 8) /\ ~((n + 4) + i <= n + 4) /\ ((n + 4) + i) - (n + 4) = i
      BY <1>1
    <3> QED BY <1>5, <3>1
  <2>2. /\ n + 5 = (n + 4) + 1 /\ n + 6 = (n + 4) + 2
        /\ n + 7 = (n + 4) + 3 /\ n + 8 = (n + 4) + 4
    BY <1>1
  <2> QED BY <1>3, <2>1, <2>2
<1> QED BY <1>5, <1>6, <1>7, <1>8, <1>9 DEF n

\* A pasted text stands for no key.
LEMMA BracketMeans ==
  ASSUME NEW text \in Seq(Bytes \ {"esc"})
  PROVE  /\ Bracketed(text) \in Seq(Bytes) /\ Fresh(Bracketed(text))
         /\ Settled(Bracketed(text), FALSE) /\ Meant(Bracketed(text), FALSE) = <<>>
<1>1. PICK c, n : c = Bracketed(text) /\ n = Len(text)
  OBVIOUS
<1>2. /\ c \in Seq(Bytes) /\ n \in Nat /\ Len(c) = n + 8
      /\ c[1] = "esc" /\ c[2] = "[" /\ c[3] = "start" /\ c[4] = "~"
      /\ \A i \in 5..(n + 4) : c[i] # "esc"
      /\ c[n + 5] = "esc" /\ c[n + 6] = "[" /\ c[n + 7] = "end" /\ c[n + 8] = "~"
  <2>1. LET d == Bracketed(text)
            m == Len(text)
        IN  /\ d \in Seq(Bytes) /\ Len(d) = m + 8
            /\ d[1] = "esc" /\ d[2] = "[" /\ d[3] = "start" /\ d[4] = "~"
            /\ \A i \in 5..(m + 4) : d[i] # "esc"
            /\ d[m + 5] = "esc" /\ d[m + 6] = "[" /\ d[m + 7] = "end" /\ d[m + 8] = "~"
    BY BracketedIs
  <2>2. n \in Nat
    BY <1>1, LenProperties
  <2> QED BY <1>1, <2>1, <2>2
<1>3. TRUE \in BOOLEAN /\ FALSE \in BOOLEAN
  OBVIOUS
<1>4. /\ ~Unfinished(c, 1) /\ EndOf(c, 1) = 4 /\ 4 \in Ends(c, 1)
      /\ KeysOf(Unit(c, 1)) = <<>>
      /\ \A in \in BOOLEAN : PasteAfter(Unit(c, 1), in) = TRUE
  <2>1. /\ 1 \in 1..Len(c) /\ 1 + 1 = 2 /\ 1 + 2 = 3 /\ 1 + 3 = 4 /\ 1 + 3 <= Len(c)
        /\ "start" \in {"start", "end"} /\ c[1 + 1] = "[" /\ c[1 + 2] = "start" /\ c[1 + 3] = "~"
    BY <1>2
  <2>2. /\ ~Unfinished(c, 1) /\ EndOf(c, 1) = 1 + 3 /\ 1 + 3 \in Ends(c, 1)
        /\ KeysOf(Unit(c, 1)) = <<>>
        /\ \A in \in BOOLEAN : PasteAfter(Unit(c, 1), in) = ("start" = "start")
    BY <1>2, <2>1, MarkAt
  <2> QED BY <2>1, <2>2
<1>5. /\ ~Unfinished(c, n + 5) /\ EndOf(c, n + 5) = n + 8 /\ n + 8 \in Ends(c, n + 5)
      /\ KeysOf(Unit(c, n + 5)) = <<>>
      /\ \A in \in BOOLEAN : PasteAfter(Unit(c, n + 5), in) = FALSE
  <2>1. /\ n + 5 \in 1..Len(c) /\ (n + 5) + 1 = n + 6 /\ (n + 5) + 2 = n + 7
        /\ (n + 5) + 3 = n + 8 /\ (n + 5) + 3 <= Len(c) /\ "end" \in {"start", "end"}
        /\ c[(n + 5) + 1] = "[" /\ c[(n + 5) + 2] = "end" /\ c[(n + 5) + 3] = "~"
    BY <1>2
  <2>2. /\ ~Unfinished(c, n + 5) /\ EndOf(c, n + 5) = (n + 5) + 3 /\ (n + 5) + 3 \in Ends(c, n + 5)
        /\ KeysOf(Unit(c, n + 5)) = <<>>
        /\ \A in \in BOOLEAN : PasteAfter(Unit(c, n + 5), in) = ("end" = "start")
    BY <1>2, <2>1, MarkAt
  <2> QED BY <2>1, <2>2
<1>6. Fed(c)[1][FALSE] = Fed(c)[5][TRUE]
  <2>1. 1 \in 1..Len(c) /\ Struck(c, 1, FALSE) = <<>> /\ EndOf(c, 1) + 1 = 5
    BY <1>2, <1>4 DEF Struck
  <2>2. Fed(c)[1][FALSE] = Fed(c)[EndOf(c, 1) + 1][PasteAfter(Unit(c, 1), FALSE)]
    BY <1>2, <1>3, <1>4, <2>1, FedSkips
  <2> QED BY <1>3, <1>4, <2>1, <2>2
<1>7. ASSUME NEW i \in 5..(n + 4) PROVE Fed(c)[i][TRUE] = Fed(c)[i + 1][TRUE]
  <2>1. i \in 1..Len(c) /\ i \in Int
    BY <1>2
  <2>2. ~Introduced(c, i) /\ ~Unfinished(c, i)
    BY <1>2, <2>1 DEF Introduced, Unfinished
  <2>3. EndOf(c, i) = i /\ \A in \in BOOLEAN : PasteAfter(Unit(c, i), in) = in
    BY <1>2, <2>1, <2>2, ByteAt
  <2>4. Struck(c, i, TRUE) = <<>>
    BY DEF Struck
  <2>5. Fed(c)[i][TRUE] = Fed(c)[EndOf(c, i) + 1][PasteAfter(Unit(c, i), TRUE)]
    BY <1>2, <1>3, <2>1, <2>2, <2>4, FedSkips
  <2> QED BY <1>3, <2>3, <2>5
<1>8. Fed(c)[5][TRUE] = Fed(c)[n + 5][TRUE]
  <2> DEFINE other == {i \in 5..(n + 5) : Fed(c)[i][TRUE] # Fed(c)[n + 5][TRUE]}
  <2>1. other = {}
    <3> SUFFICES ASSUME other # {} PROVE FALSE
      OBVIOUS
    <3>1. \A i \in other : i \in 5..(n + 5) /\ Fed(c)[i][TRUE] # Fed(c)[n + 5][TRUE]
      OBVIOUS
    <3>2. \A i \in 5..(n + 5) : i \notin other => Fed(c)[i][TRUE] = Fed(c)[n + 5][TRUE]
      OBVIOUS
    <3> HIDE DEF other
    <3>3. n + 5 \in Nat /\ other \in SUBSET (0..(n + 5))
      <4>1. n \in Nat
        BY <1>2
      <4>2. \A i \in 5..(n + 5) : i \in 0..(n + 5)
        BY <4>1
      <4>3. \A i \in other : i \in 0..(n + 5)
        BY <3>1, <4>2
      <4>4. n + 5 \in Nat
        BY <4>1
      <4> QED BY <4>3, <4>4
    <3>4. PICK i \in other : \A j \in other : j <= i
      BY <3>3, Largest
    <3>5. i \in 5..(n + 4) /\ i + 1 \in 5..(n + 5) /\ ~(i + 1 <= i)
      <4>1. n \in Nat /\ i \in 5..(n + 5) /\ i # n + 5
        BY <1>2, <3>1
      <4> QED BY <4>1
    <3>6. Fed(c)[i + 1][TRUE] = Fed(c)[n + 5][TRUE]
      BY <3>2, <3>4, <3>5
    <3> QED BY <1>7, <3>1, <3>5, <3>6
  <2>2. 5 \in 5..(n + 5)
    BY <1>2
  <2> QED BY <2>1, <2>2
<1>9. Fed(c)[n + 5][TRUE] = Fed(c)[Len(c) + 1][FALSE]
  <2>1. n + 5 \in 1..Len(c) /\ Struck(c, n + 5, TRUE) = <<>> /\ EndOf(c, n + 5) + 1 = Len(c) + 1
    BY <1>2, <1>5 DEF Struck
  <2>2. Fed(c)[n + 5][TRUE] = Fed(c)[EndOf(c, n + 5) + 1][PasteAfter(Unit(c, n + 5), TRUE)]
    BY <1>2, <1>3, <1>5, <2>1, FedSkips
  <2> QED BY <1>3, <1>5, <2>1, <2>2
<1>10. PICK d : d = Fed(c)[1][FALSE]
  OBVIOUS
<1>11. d.keys = <<>> /\ d.paste = FALSE /\ d.pending = <<>>
  <2>1. d = [keys |-> <<>>, paste |-> FALSE, pending |-> <<>>]
    BY <1>2, <1>3, <1>6, <1>8, <1>9, <1>10, FedStops
  <2> QED BY <2>1
<1>12. Short(c)
  <2> SUFFICES ASSUME NEW i \in 1..Len(c), Introduced(c, i) PROVE \E k \in Ends(c, i) : k <= i + 3
    BY DEF Short
  <2>1. c[i] = "esc" /\ i \in Int
    BY DEF Introduced
  <2>2. \/ i = 1 \/ i = 2 \/ i = 3 \/ i = 4 \/ i \in 5..(n + 4)
        \/ i = n + 5 \/ i = n + 6 \/ i = n + 7 \/ i = n + 8
    BY <1>2
  <2>3. i = 1 \/ i = n + 5
    BY <1>2, <2>1, <2>2
  <2>4. CASE i = 1
    <3>1. 4 \in Ends(c, i) /\ 4 <= i + 3
      BY <1>4, <2>4
    <3> QED BY <3>1
  <2>5. CASE i = n + 5
    <3>1. n + 8 \in Ends(c, i) /\ n + 8 <= i + 3
      BY <1>2, <1>5, <2>5
    <3> QED BY <3>1
  <2> QED BY <2>3, <2>4, <2>5
<1>13. Fresh(c)
  <2>1. c # <<>>
    BY <1>2
  <2> QED BY <1>2, <2>1 DEF Fresh
<1>14. <<>> \o <<>> = <<>>
  BY ConcatEmptySeq
<1>15. Settled(c, FALSE) /\ Meant(c, FALSE) = <<>>
  BY <1>10, <1>11, <1>12, <1>14 DEF Settled, Meant
<1> QED BY <1>1, <1>2, <1>13, <1>15

\* No bytes stand for no key.
LEMMA NothingMeans ==
  /\ <<>> \in Seq(Bytes) /\ Settled(<<>>, FALSE)
  /\ \A in \in BOOLEAN : Meant(<<>>, in) = <<>>
<1>1. PICK e \in Seq(Bytes) : e = <<>> /\ Len(e) = 0
  <2>1. <<>> \in Seq(Bytes) /\ Len(<<>>) = 0
    OBVIOUS
  <2> QED BY <2>1
<1>2. ASSUME NEW in \in BOOLEAN
      PROVE  Fed(e)[1][in].keys = <<>> /\ Fed(e)[1][in].paste = in /\ Fed(e)[1][in].pending = <<>>
  <2>1. Len(e) + 1 = 1
    BY <1>1
  <2>2. PICK d : d = Fed(e)[1][in]
    OBVIOUS
  <2>3. d = [keys |-> <<>>, paste |-> in, pending |-> <<>>]
    BY <2>1, <2>2, FedStops
  <2> QED BY <2>2, <2>3
<1>3. Short(e)
  BY <1>1 DEF Short
<1>4. <<>> \o <<>> = <<>>
  BY ConcatEmptySeq
<1>5. Settled(e, FALSE)
  <2>1. FALSE \in BOOLEAN
    OBVIOUS
  <2> QED BY <1>2, <1>3, <2>1 DEF Settled
<1>6. ASSUME NEW in \in BOOLEAN PROVE Meant(e, in) = <<>>
  BY <1>2, <1>4 DEF Meant
<1> QED BY <1>1, <1>5, <1>6

\* The end of bytes with short sequences has short sequences.
LEMMA ShortEnd ==
  ASSUME NEW b \in Seq(Bytes), Short(b), NEW c \in Seq(Bytes), NEW k \in Nat,
         PartOf(c, b, k), k + Len(c) = Len(b)
  PROVE  Short(c)
<1> SUFFICES ASSUME NEW i \in 1..Len(c), Introduced(c, i) PROVE \E l \in Ends(c, i) : l <= i + 3
  BY DEF Short
<1>1. Len(c) \in Nat /\ Len(b) \in Nat /\ \A l \in 1..Len(c) : c[l] = b[k + l]
  BY LenProperties DEF PartOf
<1>2. i < Len(c) /\ c[i] = "esc" /\ c[i + 1] \in {"[", "O"}
  BY DEF Introduced
<1>3. k + i \in 1..Len(b) /\ k + i < Len(b) /\ i + 1 \in 1..Len(c) /\ k + (i + 1) = (k + i) + 1
  BY <1>1, <1>2
<1>4. Introduced(b, k + i)
  BY <1>1, <1>2, <1>3 DEF Introduced
<1>5. PICK m \in Ends(b, k + i) : m <= (k + i) + 3
  BY <1>3, <1>4 DEF Short
<1>6. m \in ((k + i) + 2)..Len(b) /\ b[m] \in Finals
  BY <1>5 DEF Ends
<1>7. PICK l \in (i + 2)..Len(c) : m = k + l /\ l <= i + 3
  <2>1. m - k \in (i + 2)..Len(c) /\ m = k + (m - k) /\ m - k <= i + 3
    BY <1>1, <1>5, <1>6
  <2> QED BY <2>1
<1>8. l \in 1..Len(c)
  BY <1>1, <1>7
<1>9. l \in Ends(c, i)
  BY <1>1, <1>6, <1>7, <1>8 DEF Ends
<1> QED BY <1>7, <1>9

\* The two parts of a sequence that was put together.
LEMMA Parted ==
  ASSUME NEW S, NEW x \in Seq(S), NEW y \in Seq(S), NEW z, z = x \o y
  PROVE  /\ z \in Seq(S) /\ Len(x) <= Len(z)
         /\ SubSeq(z, 1, Len(x)) = x /\ From(z, Len(x) + 1) = y
<1>1. Len(x) \in Nat /\ Len(y) \in Nat
  BY LenProperties
<1>2. z \in Seq(S) /\ Len(z) = Len(x) + Len(y) /\ PartOf(x, z, 0) /\ PartOf(y, z, Len(x))
  BY PartsOf
<1>3. SubSeq(z, 1, Len(x)) = x
  <2>1. 1 \in 1..(Len(x) + 1) /\ Len(x) \in (1 - 1)..Len(x) /\ 0 \in Nat /\ 0 + 1 = 1 /\ 0 + Len(x) = Len(x)
    BY <1>1
  <2>2. SubSeq(x, 1, Len(x)) = SubSeq(z, 0 + 1, 0 + Len(x))
    BY <1>2, <2>1, SamePart
  <2>3. SubSeq(x, 1, Len(x)) = x
    BY SubSeqFull
  <2> QED BY <2>1, <2>2, <2>3
<1>4. From(z, Len(x) + 1) = y
  <2>1. 1 \in 1..(Len(y) + 1) /\ Len(y) \in (1 - 1)..Len(y)
    BY <1>1
  <2>2. SubSeq(y, 1, Len(y)) = SubSeq(z, Len(x) + 1, Len(x) + Len(y))
    BY <1>1, <1>2, <2>1, SamePart
  <2>3. SubSeq(y, 1, Len(y)) = y
    BY SubSeqFull
  <2> QED BY <1>2, <2>2, <2>3 DEF From
<1> QED BY <1>1, <1>2, <1>3, <1>4

\* The bytes there are, and those that are read with n new ones.
Reads(p, w, n, b, c) == b = p \o w /\ c = p \o SubSeq(w, 1, n)

\* What feed makes of these, inside a paste or outside.
Gives(c, in, d) == d = Fed(c)[1][in]

\* What is kept of them, and the bytes that were not read.
Left(q, w, n) == q \o From(w, n + 1)

\* They are the bytes from the r-th on: the k before it are gone.
Keeps(c, r, k, w, n, e) == k = r - 1 /\ e = Left(From(c, r), w, n)

\* Keys, and those of them that are taken first.
Splits(ks, keys, rest) == ks = keys \o rest

\* What is kept of the bytes that were read, before the ones that were not, is
\* an end of all of them.
LEMMA ReadOn ==
  ASSUME NEW p \in Seq(Bytes), NEW w \in Seq(Bytes), NEW n \in 1..Len(w),
         NEW b, NEW c, Reads(p, w, n, b, c),
         NEW r \in 1..(Len(c) + 1), NEW k, NEW e, Keeps(c, r, k, w, n, e)
  PROVE  /\ c \in Seq(Bytes) /\ b \in Seq(Bytes) /\ e \in Seq(Bytes)
         /\ PartOf(c, b, 0)
         /\ k \in Nat /\ PartOf(e, b, k) /\ k + Len(e) = Len(b)
<1>0. k = r - 1 /\ e = Left(From(c, r), w, n)
  BY DEF Keeps
<1>1. PICK u \in Seq(Bytes) : u = SubSeq(w, 1, n) /\ Len(u) = n /\ \A l \in 1..n : u[l] = w[l]
  <2>1. Len(w) \in Nat /\ \A i \in 1..Len(w) : w[i] \in Bytes
    BY LenProperties, ElementOfSeq
  <2>2. 1 \in Int /\ n \in Int /\ 1 <= n /\ n - 1 + 1 = n /\ \A i \in 1..n : w[i] \in Bytes
    BY <2>1
  <2>3. /\ SubSeq(w, 1, n) \in Seq(Bytes)
        /\ Len(SubSeq(w, 1, n)) = IF 1 <= n THEN n - 1 + 1 ELSE 0
        /\ \A l \in 1..(n - 1 + 1) : SubSeq(w, 1, n)[l] = w[1 + l - 1]
    BY <2>2, SubSeqProperties
  <2>4. \A l \in 1..n : 1 + l - 1 = l
    OBVIOUS
  <2>5. PICK u : u = SubSeq(w, 1, n)
    OBVIOUS
  <2> QED BY <2>2, <2>3, <2>4, <2>5
<1>2. PICK v \in Seq(Bytes) : /\ v = From(w, n + 1) /\ Len(v) = Len(w) - n
                              /\ \A l \in 1..(Len(w) - n) : v[l] = w[n + l]
  <2>1. n + 1 \in 1..(Len(w) + 1) /\ Len(w) - (n + 1) + 1 = Len(w) - n /\ (n + 1) - 1 = n
    BY LenProperties
  <2>2. /\ From(w, n + 1) \in Seq(Bytes) /\ Len(From(w, n + 1)) = Len(w) - (n + 1) + 1
        /\ \A l \in 1..(Len(w) - (n + 1) + 1) : From(w, n + 1)[l] = w[((n + 1) - 1) + l]
    BY <2>1, FromIs
  <2>3. PICK v : v = From(w, n + 1)
    OBVIOUS
  <2> QED BY <2>1, <2>2, <2>3
<1>3. Len(p) \in Nat /\ Len(w) \in Nat
  BY LenProperties
<1>4. /\ c \in Seq(Bytes) /\ Len(c) = Len(p) + n
      /\ \A i \in 1..(Len(p) + n) : c[i] = IF i <= Len(p) THEN p[i] ELSE u[i - Len(p)]
  <2>1. c = p \o u
    BY <1>1, Zenon DEF Reads
  <2>2. Len(u) = n
    BY <1>1
  <2> QED BY <2>1, <2>2, ConcatProperties
<1>5. /\ b \in Seq(Bytes) /\ Len(b) = Len(p) + Len(w)
      /\ \A i \in 1..(Len(p) + Len(w)) : b[i] = IF i <= Len(p) THEN p[i] ELSE w[i - Len(p)]
  <2>1. b = p \o w
    BY DEF Reads
  <2> QED BY <2>1, ConcatProperties
<1>6. ASSUME NEW i \in 1..Len(c) PROVE c[i] = b[i]
  <2>1. i \in 1..(Len(p) + n) /\ i \in 1..(Len(p) + Len(w)) /\ (i > Len(p) => i - Len(p) \in 1..n)
    BY <1>3, <1>4
  <2>2. CASE i <= Len(p)
    BY <1>4, <1>5, <2>1, <2>2
  <2>3. CASE ~(i <= Len(p))
    <3>1. i - Len(p) \in 1..n
      BY <1>3, <2>1, <2>3
    <3> QED BY <1>1, <1>4, <1>5, <2>1, <2>3, <3>1
  <2> QED BY <2>2, <2>3
<1>7. PartOf(c, b, 0)
  <2>1. 0 + Len(c) <= Len(b) /\ \A l \in 1..Len(c) : 0 + l = l
    BY <1>3, <1>4, <1>5
  <2> QED BY <1>6, <2>1 DEF PartOf
<1>8. PICK t \in Seq(Bytes) : /\ t = From(c, r) /\ Len(t) = Len(c) - r + 1
                              /\ \A l \in 1..Len(t) : t[l] = c[k + l]
  <2>1. PICK cc \in Seq(Bytes) : cc = c
    BY <1>4
  <2>2. r \in 1..(Len(cc) + 1)
    BY <2>1
  <2>3. /\ From(cc, r) \in Seq(Bytes) /\ Len(From(cc, r)) = Len(cc) - r + 1
        /\ \A l \in 1..(Len(cc) - r + 1) : From(cc, r)[l] = cc[(r - 1) + l]
    BY <2>2, FromIs
  <2>4. PICK t : t = From(cc, r)
    OBVIOUS
  <2>5. t \in Seq(Bytes) /\ Len(t) = Len(cc) - r + 1 /\ \A l \in 1..Len(t) : t[l] = cc[k + l]
    BY <1>0, <2>3, <2>4
  <2> QED BY <2>1, <2>4, <2>5
<1>9. /\ e \in Seq(Bytes) /\ Len(e) = Len(t) + Len(v)
      /\ \A i \in 1..(Len(t) + Len(v)) : e[i] = IF i <= Len(t) THEN t[i] ELSE v[i - Len(t)]
  <2>1. e = t \o v
    BY <1>0, <1>2, <1>8, Zenon DEF Left
  <2> QED BY <2>1, ConcatProperties
<1>10. /\ Len(c) = Len(p) + n /\ Len(b) = Len(p) + Len(w) /\ Len(v) = Len(w) - n
       /\ Len(t) = Len(c) - r + 1 /\ Len(e) = Len(t) + Len(v)
  BY <1>2, <1>4, <1>5, <1>8, <1>9
<1>11. k \in Nat /\ k + Len(e) = Len(b) /\ Len(t) \in Nat
  BY <1>0, <1>3, <1>10
<1>12. ASSUME NEW l \in 1..Len(e) PROVE e[l] = b[k + l]
  <2>1. CASE l <= Len(t)
    <3>1. l \in 1..(Len(t) + Len(v)) /\ l \in 1..Len(t) /\ k + l \in 1..Len(c)
      BY <1>0, <1>3, <1>10, <1>11, <2>1
    <3>2. e[l] = t[l]
      BY <1>9, <2>1, <3>1
    <3>3. t[l] = c[k + l]
      BY <1>8, <3>1
    <3>4. c[k + l] = b[k + l]
      BY <1>6, <3>1
    <3> QED BY <3>2, <3>3, <3>4
  <2>2. CASE ~(l <= Len(t))
    <3>1. PICK m \in 1..(Len(w) - n) :
            /\ l \in 1..(Len(t) + Len(v)) /\ l - Len(t) = m
            /\ k + l \in 1..(Len(p) + Len(w)) /\ ~(k + l <= Len(p))
            /\ (k + l) - Len(p) = n + m
      <4>1. /\ l - Len(t) \in 1..(Len(w) - n) /\ l \in 1..(Len(t) + Len(v))
            /\ k + l \in 1..(Len(p) + Len(w)) /\ ~(k + l <= Len(p))
            /\ (k + l) - Len(p) = n + (l - Len(t))
        BY <1>0, <1>3, <1>10, <1>11, <2>2
      <4> QED BY <4>1
    <3>2. e[l] = v[m]
      BY <1>9, <2>2, <3>1
    <3>3. v[m] = w[n + m]
      BY <1>2, <3>1
    <3>4. b[k + l] = w[n + m]
      BY <1>5, <3>1
    <3> QED BY <3>2, <3>3, <3>4
  <2> QED BY <2>1, <2>2
<1>13. PartOf(e, b, k)
  <2>1. k + Len(e) <= Len(b)
    BY <1>3, <1>10, <1>11
  <2> QED BY <1>12, <2>1 DEF PartOf
<1> QED BY <1>4, <1>5, <1>7, <1>9, <1>11, <1>13

\* A read takes the first of the keys that the bytes stand for; what it leaves
\* stands for the rest.
LEMMA ReadMeans ==
  ASSUME NEW p \in Seq(Bytes), NEW w \in Seq(Bytes), NEW in \in BOOLEAN,
         NEW n \in 1..Len(w), NEW b, NEW c, Reads(p, w, n, b, c),
         Settled(b, in), NEW d, Gives(c, in, d)
  PROVE  /\ d \in Outcomes
         /\ Left(d.pending, w, n) \in Seq(Bytes)
         /\ Settled(Left(d.pending, w, n), d.paste)
         /\ Splits(Meant(b, in), d.keys, Meant(Left(d.pending, w, n), d.paste))
         /\ Meant(Left(d.pending, w, n), d.paste) \in Seq(Names)
<1>1. d = Fed(c)[1][in]
  BY DEF Gives
<1>2. c \in Seq(Bytes) /\ b \in Seq(Bytes) /\ PartOf(c, b, 0)
  <2>1. c \in Seq(Bytes)
    <3>1. Len(w) \in Nat /\ \A i \in 1..Len(w) : w[i] \in Bytes
      BY LenProperties, ElementOfSeq
    <3>2. 1 \in Int /\ n \in Int /\ \A i \in 1..n : w[i] \in Bytes
      BY <3>1
    <3>3. SubSeq(w, 1, n) \in Seq(Bytes)
      BY <3>2, SubSeqProperties
    <3> QED BY <3>3, ConcatProperties DEF Reads
  <2>2. PICK s, e, k : s = 1 /\ Keeps(c, s, k, w, n, e)
    BY DEF Keeps
  <2>3. Len(c) \in Nat
    BY <2>1, LenProperties
  <2>4. s \in 1..(Len(c) + 1)
    BY <2>2, <2>3
  <2> QED BY <2>2, <2>4, ReadOn
<1>3. Len(b) \in Nat /\ Len(c) \in Nat
  BY <1>2, LenProperties
<1>4. Short(b)
  BY DEF Settled
<1>5. d \in Outcomes
  <2>1. 1 \in 1..(Len(c) + 1)
    BY <1>3
  <2> QED BY <1>1, <1>2, <2>1, FedType
<1>6. PICK h \in Outcomes : h = Fed(b)[1][in]
  <2>1. 1 \in 1..(Len(b) + 1)
    BY <1>3
  <2> QED BY <1>2, <2>1, FedType
<1>7. h.paste = FALSE /\ h.pending \in {<<>>, <<"esc">>}
  BY <1>6 DEF Settled
<1>8. PICK r \in 1..(Len(c) + 1), f \in Outcomes :
        /\ d.pending = From(c, r) /\ f = Fed(b)[r][d.paste]
        /\ h.keys = d.keys \o f.keys /\ h.paste = f.paste /\ h.pending = f.pending
  <2>1. LET o == Fed(c)[1][in]
            q == Len(c) - Len(o.pending) + 1
            after == Fed(b)[q][o.paste]
        IN  /\ q \in 1..(Len(c) + 1) /\ o.pending = From(c, q)
            /\ Fed(b)[1][in] = [keys |-> o.keys \o after.keys,
                                paste |-> after.paste, pending |-> after.pending]
    <3>1. \A i \in 1..(Len(c) + 1), out \in BOOLEAN :
            LET o == Fed(c)[i][out]
                q == Len(c) - Len(o.pending) + 1
                after == Fed(b)[q][o.paste]
            IN  /\ q \in 1..(Len(c) + 1) /\ o.pending = From(c, q)
                /\ Fed(b)[i][out] = [keys |-> o.keys \o after.keys,
                                     paste |-> after.paste, pending |-> after.pending]
      BY <1>2, <1>4, FedGoesOn, Zenon
    <3>2. 1 \in 1..(Len(c) + 1)
      BY <1>3
    <3> QED BY <3>1, <3>2, Zenon
  <2>2. PICK q : q = Len(c) - Len(d.pending) + 1
    OBVIOUS
  <2>3. /\ q \in 1..(Len(c) + 1) /\ d.pending = From(c, q)
        /\ h = [keys |-> d.keys \o Fed(b)[q][d.paste].keys,
                paste |-> Fed(b)[q][d.paste].paste, pending |-> Fed(b)[q][d.paste].pending]
    BY <1>1, <1>6, <2>1, <2>2, Zenon
  <2>4. Len(c) <= Len(b)
    BY <1>2, <1>3 DEF PartOf
  <2>5. q \in 1..(Len(b) + 1) /\ d.paste \in BOOLEAN
    <3>1. q \in 1..(Len(c) + 1)
      BY <2>3
    <3>2. q \in 1..(Len(b) + 1)
      BY <1>3, <2>4, <3>1
    <3>3. d.paste \in BOOLEAN
      BY <1>5 DEF Outcomes
    <3> QED BY <3>2, <3>3
  <2>6. PICK f \in Outcomes : f = Fed(b)[q][d.paste]
    BY <1>2, <2>5, FedType
  <2>7. h.keys = d.keys \o f.keys /\ h.paste = f.paste /\ h.pending = f.pending
    BY <2>3, <2>6
  <2> QED BY <2>3, <2>6, <2>7
<1>9. PICK e \in Seq(Bytes), k \in Nat :
        /\ e = Left(d.pending, w, n) /\ k = r - 1
        /\ PartOf(e, b, k) /\ k + Len(e) = Len(b)
  <2>1. PICK e, k : Keeps(c, r, k, w, n, e)
    BY DEF Keeps
  <2>2. e \in Seq(Bytes) /\ k \in Nat /\ PartOf(e, b, k) /\ k + Len(e) = Len(b)
    BY <2>1, ReadOn
  <2>3. e = Left(d.pending, w, n) /\ k = r - 1
    BY <1>8, <2>1, Zenon DEF Keeps
  <2> QED BY <2>2, <2>3
<1>10. Fed(e)[1][d.paste] = f
  <2>1. 1 \in 1..(Len(e) + 1) /\ k + 1 = r
    <3>1. Len(e) \in Nat
      BY LenProperties
    <3>2. r \in Int
      BY <1>3
    <3>3. k = r - 1
      BY <1>9
    <3> QED BY <3>1, <3>2, <3>3
  <2>2. d.paste \in BOOLEAN
    BY <1>5 DEF Outcomes
  <2>3. \A i \in 1..(Len(e) + 1), o \in BOOLEAN : Fed(e)[i][o] = Fed(b)[k + i][o]
    <3>1. PartOf(e, b, k) /\ k + Len(e) = Len(b) /\ b \in Seq(Bytes)
      BY <1>2, <1>9
    <3> QED BY <3>1, FedEnds
  <2>4. Fed(e)[1][d.paste] = Fed(b)[k + 1][d.paste]
    BY <2>1, <2>2, <2>3, Zenon
  <2> QED BY <1>8, <2>1, <2>4
<1>11. Settled(e, d.paste)
  <2>1. Short(e)
    BY <1>2, <1>4, <1>9, ShortEnd
  <2> QED BY <1>7, <1>8, <1>10, <2>1 DEF Settled
<1>12. Meant(e, d.paste) = f.keys \o f.pending /\ Meant(b, in) = h.keys \o h.pending
  BY <1>6, <1>10 DEF Meant
<1>13. PICK x, y, z \in Seq(Names) : x = d.keys /\ y = f.keys /\ z = f.pending
  <2>1. <<"esc">> \in Seq(Names) /\ <<>> \in Seq(Names)
    BY Single DEF Names, Bytes
  <2> QED BY <1>5, <1>7, <1>8, <2>1 DEF Outcomes
<1>14. (x \o y) \o z = x \o (y \o z) /\ y \o z \in Seq(Names)
  <2>1. (x \o y) \o z = x \o (y \o z)
    <3>1. Grouped(x, y, z)
      BY Grouping
    <3> QED BY <3>1, Zenon DEF Grouped
  <2>2. y \o z \in Seq(Names)
    BY ConcatProperties
  <2> QED BY <2>1, <2>2
<1>15. Splits(Meant(b, in), d.keys, Meant(e, d.paste)) /\ Meant(e, d.paste) \in Seq(Names)
  BY <1>8, <1>12, <1>13, <1>14 DEF Splits
<1> QED BY <1>5, <1>9, <1>11, <1>15

-----------------------------------------------------------------------------
(* The keys of a session *)

\* The bytes that were not decoded stand for the keys that are due.
StreamInv ==
  /\ wire \in Seq(Bytes) /\ pending \in Seq(Bytes) /\ paste \in BOOLEAN
  /\ due \in Seq(Names)
  /\ ~cut => /\ ~astray
             /\ Settled(pending \o wire, paste)
             /\ due = Meant(pending \o wire, paste)

\* Keys that are taken off those due are the first of them.
LEMMA TakenType ==
  ASSUME NEW keys \in Seq(Names), due \in Seq(Names), Taken(keys)
  PROVE  due' \in Seq(Names)
<1>1. CASE Len(keys) <= Len(due) /\ SubSeq(due, 1, Len(keys)) = keys
  <2>1. due' = From(due, Len(keys) + 1)
    BY <1>1 DEF Taken
  <2>2. Len(keys) + 1 \in 1..(Len(due) + 1)
    BY <1>1, LenProperties
  <2>3. From(due, Len(keys) + 1) \in Seq(Names)
    BY <2>2, FromIs
  <2> QED BY <2>1, <2>3
<1>2. CASE ~(Len(keys) <= Len(due) /\ SubSeq(due, 1, Len(keys)) = keys)
  BY <1>2 DEF Taken
<1> QED BY <1>1, <1>2

\* The first of the keys that are due leave the others.
LEMMA TakenFirst ==
  ASSUME NEW keys \in Seq(Names), NEW rest \in Seq(Names), due = keys \o rest,
         Taken(keys)
  PROVE  due' = rest /\ UNCHANGED astray
<1>1. /\ Len(keys) <= Len(due) /\ SubSeq(due, 1, Len(keys)) = keys
      /\ From(due, Len(keys) + 1) = rest
  BY Parted
<1> QED BY <1>1 DEF Taken

\* Codes that are sent stand for what they mean alone.
LEMMA Sent ==
  ASSUME StreamInv, NEW c \in Seq(Bytes), Fresh(c), Settled(c, FALSE),
         NEW ks \in Seq(Names), Meant(c, FALSE) = ks,
         wire' = wire \o c, due' = due \o ks, UNCHANGED <<pending, paste, astray, cut>>
  PROVE  StreamInv'
<1>1. wire \in Seq(Bytes) /\ pending \in Seq(Bytes) /\ paste \in BOOLEAN /\ due \in Seq(Names)
  BY DEF StreamInv
<1>2. wire' \in Seq(Bytes) /\ due' \in Seq(Names) /\ pending' \in Seq(Bytes) /\ paste' \in BOOLEAN
  BY <1>1, ConcatProperties
<1>3. ASSUME ~cut
      PROVE  /\ ~astray'
             /\ Settled((pending \o wire)', paste') /\ due' = Meant((pending \o wire)', paste')
  <2>1. PICK b \in Seq(Bytes) : b = pending \o wire
    BY <1>1, ConcatProperties
  <2>2. (pending \o wire)' = b \o c
    <3>1. Grouped(pending, wire, c)
      BY <1>1, Grouping
    <3>2. (pending \o wire) \o c = pending \o (wire \o c)
      BY <3>1, Zenon DEF Grouped
    <3>3. (pending \o wire)' = pending \o (wire \o c)
      OBVIOUS
    <3> QED BY <2>1, <3>2, <3>3, Zenon
  <2>3. ~astray /\ Settled(b, paste) /\ due = Meant(b, paste)
    BY <1>3, <2>1 DEF StreamInv
  <2>4. Settled(b \o c, paste) /\ Meant(b \o c, paste) = Meant(b, paste) \o Meant(c, FALSE)
    BY <1>1, <2>3, Appended
  <2> QED BY <2>2, <2>3, <2>4
<1> QED BY <1>2, <1>3 DEF StreamInv

\* A session starts with nothing due.
LEMMA StreamStart ==
  Start => StreamInv
<1> SUFFICES ASSUME Start PROVE StreamInv
  OBVIOUS
<1>1. wire = <<>> /\ pending = <<>> /\ paste = FALSE /\ due = <<>> /\ astray = FALSE
  BY DEF Start
<1>2. <<>> \in Seq(Bytes) /\ <<>> \in Seq(Names)
  OBVIOUS
<1>3. pending \o wire = <<>>
  BY <1>1, ConcatEmptySeq
<1>4. FALSE \in BOOLEAN
  OBVIOUS
<1>5. Settled(<<>>, FALSE) /\ Meant(<<>>, FALSE) = <<>>
  BY <1>4, NothingMeans
<1> QED BY <1>1, <1>2, <1>3, <1>5 DEF StreamInv

\* A key that is pressed is due behind the others.
LEMMA StreamPress ==
  ASSUME StreamInv, NEW k \in Pressed, Press(k)
  PROVE  StreamInv'
<1>1. k \in DOMAIN Code
  BY TerminalAssumption
<1>2. PICK c \in Seq(Bytes) : c = Code[k] /\ Fresh(c) /\ Settled(c, FALSE) /\ Meant(c, FALSE) = <<k>>
  BY <1>1, CodeMeans
<1>3. k \in Names
  BY <1>1, CodeMeans
<1>4. <<k>> \in Seq(Names)
  BY <1>3, Single
<1>5. wire' = wire \o c /\ due' = Append(due, k) /\ UNCHANGED <<pending, paste, astray, cut>>
  BY <1>2 DEF Press
<1>6. Append(due, k) = due \o <<k>>
  BY <1>3, AppendIsConcat DEF StreamInv
<1>7. due' = due \o <<k>>
  BY <1>5, <1>6
<1> QED BY <1>2, <1>4, <1>5, <1>7, Sent

\* A text that is pasted makes no key due.
LEMMA StreamPaste ==
  ASSUME StreamInv, NEW text \in Pasted, Paste(text)
  PROVE  StreamInv'
<1>1. text \in Seq(Bytes \ {"esc"})
  BY TerminalAssumption
<1>2. PICK c \in Seq(Bytes) :
        c = Bracketed(text) /\ Fresh(c) /\ Settled(c, FALSE) /\ Meant(c, FALSE) = <<>>
  BY <1>1, BracketMeans
<1>3. wire' = wire \o c /\ due' = due /\ UNCHANGED <<pending, paste, astray, cut>>
  BY <1>2 DEF Paste, history
<1>4. <<>> \in Seq(Names) /\ due \o <<>> = due
  BY ConcatEmptySeq DEF StreamInv
<1>5. due' = due \o <<>>
  BY <1>3, <1>4
<1> QED BY <1>2, <1>3, <1>4, <1>5, Sent

\* A tick that finds bytes takes the first of the keys that are due.
LEMMA StreamRead ==
  ASSUME StreamInv, NEW n \in 1..Len(wire), Read(n)
  PROVE  StreamInv'
<1>1. wire \in Seq(Bytes) /\ pending \in Seq(Bytes) /\ paste \in BOOLEAN /\ due \in Seq(Names)
  BY DEF StreamInv
<1>2. PICK b, c, d : Reads(pending, wire, n, b, c) /\ d = Fed(c)[1][paste]
  BY DEF Reads
<1>3. /\ pending' = d.pending /\ paste' = d.paste /\ Taken(d.keys)
      /\ wire' = From(wire, n + 1) /\ cut' = cut
  <2>1. Feed(SubSeq(wire, 1, n)) = d
    BY <1>2, Zenon DEF Feed, Reads
  <2> QED BY <2>1 DEF Read
<1>4. (pending \o wire)' = Left(d.pending, wire, n)
  BY <1>3 DEF Left
<1>5. c \in Seq(Bytes)
  <2>2. Len(wire) \in Nat /\ \A i \in 1..Len(wire) : wire[i] \in Bytes
    BY <1>1, LenProperties, ElementOfSeq
  <2>3. 1 \in Int /\ n \in Int /\ \A i \in 1..n : wire[i] \in Bytes
    BY <2>2
  <2>4. SubSeq(wire, 1, n) \in Seq(Bytes)
    BY <2>3, SubSeqProperties
  <2> QED BY <1>1, <1>2, <2>4, ConcatProperties DEF Reads
<1>6. d \in Outcomes
  <2>1. Len(c) \in Nat
    BY <1>5, LenProperties
  <2>2. 1 \in 1..(Len(c) + 1)
    BY <2>1
  <2> QED BY <1>1, <1>2, <1>5, <2>2, FedType
<1>7. d.keys \in Seq(Names) /\ d.paste \in BOOLEAN /\ d.pending \in Seq(Bytes)
  BY <1>6 DEF Outcomes
<1>8. wire' \in Seq(Bytes) /\ pending' \in Seq(Bytes) /\ paste' \in BOOLEAN /\ due' \in Seq(Names)
  <2>1. Len(wire) \in Nat
    BY <1>1, LenProperties
  <2>2. n + 1 \in 1..(Len(wire) + 1)
    BY <2>1
  <2>3. From(wire, n + 1) \in Seq(Bytes)
    BY <1>1, <2>2, FromIs
  <2>4. due' \in Seq(Names)
    BY <1>1, <1>3, <1>7, TakenType
  <2> QED BY <1>3, <1>7, <2>3, <2>4
<1>9. ASSUME ~cut
      PROVE  /\ ~astray'
             /\ Settled((pending \o wire)', paste') /\ due' = Meant((pending \o wire)', paste')
  <2>1. ~astray /\ Settled(b, paste) /\ due = Meant(b, paste)
    <3>1. b = pending \o wire
      BY <1>2 DEF Reads
    <3> QED BY <1>9, <3>1 DEF StreamInv
  <2>2. PICK e : e = Left(d.pending, wire, n)
    OBVIOUS
  <2>3. /\ Settled(e, d.paste) /\ Meant(b, paste) = d.keys \o Meant(e, d.paste)
        /\ Meant(e, d.paste) \in Seq(Names)
    <3>1. Settled(b, paste)
      BY <2>1
    <3>2. PICK x, y, z : x = pending /\ y = wire /\ z = paste
      OBVIOUS
    <3>3. x \in Seq(Bytes) /\ y \in Seq(Bytes) /\ z \in BOOLEAN /\ n \in 1..Len(y)
      BY <1>1, <3>2
    <3>4. Reads(x, y, n, b, c) /\ Gives(c, z, d) /\ Settled(b, z)
      BY <1>2, <3>1, <3>2 DEF Gives
    <3>5. /\ Settled(Left(d.pending, y, n), d.paste)
          /\ Splits(Meant(b, z), d.keys, Meant(Left(d.pending, y, n), d.paste))
          /\ Meant(Left(d.pending, y, n), d.paste) \in Seq(Names)
      BY <3>3, <3>4, ReadMeans
    <3>6. Meant(b, z) = d.keys \o Meant(e, d.paste)
      BY <2>2, <3>2, <3>5 DEF Splits
    <3> QED BY <2>2, <3>2, <3>5, <3>6
  <2>4. due' = Meant(e, d.paste) /\ astray' = astray
    BY <1>3, <1>7, <2>1, <2>3, TakenFirst
  <2> QED BY <1>3, <1>4, <2>1, <2>2, <2>3, <2>4
<1> QED BY <1>3, <1>8, <1>9 DEF StreamInv

\* A tick that finds none takes the escape key if that is all there is.
LEMMA StreamReadNothing ==
  ASSUME StreamInv, ReadNothing
  PROVE  StreamInv'
<1>1. /\ wire \in Seq(Bytes) /\ pending \in Seq(Bytes) /\ paste \in BOOLEAN /\ due \in Seq(Names)
      /\ wire' = wire /\ paste' = paste
  BY DEF StreamInv, ReadNothing
<1>2. CASE pending = <<"esc">>
  <2>1. /\ pending' = <<>> /\ Taken(<<"esc">>) /\ cut' = (cut \/ wire # <<>>)
    BY <1>2 DEF ReadNothing
  <2>2. <<"esc">> \in Seq(Names) /\ <<>> \in Seq(Names) /\ <<>> \in Seq(Bytes)
    BY Single DEF Names, Bytes
  <2>3. due' \in Seq(Names)
    BY <1>1, <2>1, <2>2, TakenType
  <2>4. ASSUME ~cut'
        PROVE  /\ ~astray'
               /\ Settled((pending \o wire)', paste') /\ due' = Meant((pending \o wire)', paste')
    <3>1. ~cut /\ wire = <<>>
      BY <2>1, <2>4
    <3>2. pending \o wire = <<"esc">> /\ (pending \o wire)' = <<>>
      <4>1. <<"esc">> \o <<>> = <<"esc">> /\ <<>> \o <<>> = <<>>
        BY <2>2, ConcatEmptySeq
      <4> QED BY <1>1, <1>2, <2>1, <3>1, <4>1
    <3>3. ~astray /\ Settled(<<"esc">>, paste) /\ due = Meant(<<"esc">>, paste)
      BY <3>1, <3>2 DEF StreamInv
    <3>4. PICK d : d = Fed(<<"esc">>)[1][paste]
      OBVIOUS
    <3>5. d.keys = <<>> /\ d.paste = paste /\ d.pending = <<"esc">>
      <4>1. d = [keys |-> <<>>, paste |-> paste, pending |-> <<"esc">>]
        BY <1>1, <3>4, EscMeans
      <4> QED BY <4>1
    <3>6. paste = FALSE
      BY <3>3, <3>4, <3>5 DEF Settled
    <3>7. due = <<>> \o <<"esc">>
      BY <3>3, <3>4, <3>5 DEF Meant
    <3>8. due = <<"esc">> \o <<>>
      <4>1. <<>> \o <<"esc">> = <<"esc">> /\ <<"esc">> \o <<>> = <<"esc">>
        BY <2>2, ConcatEmptySeq
      <4> QED BY <3>7, <4>1
    <3>9. due' = <<>> /\ astray' = astray
      BY <2>1, <2>2, <3>8, TakenFirst
    <3>10. Settled(<<>>, FALSE) /\ Meant(<<>>, FALSE) = <<>>
      <4>1. FALSE \in BOOLEAN
        OBVIOUS
      <4> QED BY <4>1, NothingMeans
    <3> QED BY <1>1, <3>2, <3>3, <3>6, <3>9, <3>10
  <2> QED BY <1>1, <2>1, <2>2, <2>3, <2>4 DEF StreamInv
<1>3. CASE pending # <<"esc">>
  <2>1. UNCHANGED <<wire, pending, paste, due, astray, cut>>
    BY <1>1, <1>3 DEF ReadNothing, history
  <2> QED BY <2>1 DEF StreamInv
<1> QED BY <1>2, <1>3

\* Every step of a session keeps it.
LEMMA StreamStep ==
  ASSUME StreamInv, [SessionNext]_vars
  PROVE  StreamInv'
<1>1. ASSUME UNCHANGED <<wire, pending, paste, due, astray, cut>> PROVE StreamInv'
  BY <1>1 DEF StreamInv
<1>2. ASSUME NEW k \in Pressed, Press(k) PROVE StreamInv'
  BY <1>2, StreamPress
<1>3. ASSUME NEW text \in Pasted, Paste(text) PROVE StreamInv'
  BY <1>3, StreamPaste
<1>4. ASSUME NEW n \in 1..Len(wire), Read(n) PROVE StreamInv'
  BY <1>4, StreamRead
<1>5. CASE ReadNothing
  BY <1>5, StreamReadNothing
<1>6. CASE Handle \/ Draw \/ Leave
  BY <1>1, <1>6 DEF Handle, Draw, Leave, history, input
<1>7. CASE Interrupt \/ Observe \/ RunReturns
  BY <1>1, <1>7 DEF Interrupt, Observe, RunReturns, history, input
<1>8. CASE UNCHANGED vars
  BY <1>1, <1>8 DEF vars, history, input
<1> QED BY <1>2, <1>3, <1>4, <1>5, <1>6, <1>7, <1>8 DEF SessionNext

\* In every state of a session the bytes stand for the keys that are due.
LEMMA StreamHolds ==
  Session => []StreamInv
<1>1. StreamInv /\ [SessionNext]_vars => StreamInv'
  BY StreamStep
<1> QED BY <1>1, StreamStart, PTL DEF Session

\* However the input is cut into reads, the dashboard is given the keys that
\* were pressed, in order, and nothing of a pasted text, unless a tick passes
\* between an escape byte and the rest of its sequence.
THEOREM KeysHold ==
  Session => []KeysAreWhole
<1>1. StreamInv => KeysAreWhole
  <2> SUFFICES ASSUME StreamInv, ~cut PROVE ~astray /\ (wire = <<>> /\ pending = <<>> => due = <<>>)
    BY DEF KeysAreWhole
  <2>1. ~astray /\ due = Meant(pending \o wire, paste) /\ paste \in BOOLEAN
    BY DEF StreamInv
  <2>2. ASSUME wire = <<>>, pending = <<>> PROVE due = <<>>
    <3>1. pending \o wire = <<>>
      BY <2>2, ConcatEmptySeq
    <3>2. Meant(<<>>, paste) = <<>>
      BY <2>1, NothingMeans
    <3> QED BY <2>1, <3>1, <3>2
  <2> QED BY <2>1, <2>2
<1> QED BY <1>1, StreamHolds, PTL

=============================================================================
