---------------------------- MODULE SequenceLemmas ----------------------------
(* What SubSeq, Front, Last, RemoveAt, Append and EXCEPT return, for the     *)
(* proofs about call stacks, and the least of a set of numbers.              *)
EXTENDS Integers, Sequences, SequencesExt, SequenceTheorems, WellFoundedInduction, TLAPS

LEMMA SubSeqFacts ==
  ASSUME NEW S, NEW q \in Seq(S), NEW m \in Int, NEW n \in Int,
         1 <= m, n <= Len(q), m <= n + 1
  PROVE  /\ SubSeq(q, m, n) \in Seq(S)
         /\ Len(SubSeq(q, m, n)) = n - m + 1
         /\ \A i \in 1..(n - m + 1) :
              SubSeq(q, m, n)[i] = q[m + i - 1] /\ m + i - 1 \in 1..Len(q)
<1>1. Len(q) \in Nat
  BY LenProperties
<1>2. \A i \in m..n : q[i] \in S
  BY <1>1, ElementOfSeq
<1>3. /\ SubSeq(q, m, n) \in Seq(S)
      /\ Len(SubSeq(q, m, n)) = IF m <= n THEN n - m + 1 ELSE 0
      /\ \A i \in 1..(n - m + 1) : SubSeq(q, m, n)[i] = q[m + i - 1]
  BY <1>2, SubSeqProperties
<1>4. Len(SubSeq(q, m, n)) = n - m + 1
  BY <1>3
<1>5. \A i \in 1..(n - m + 1) : m + i - 1 \in 1..Len(q)
  BY <1>1
<1> QED BY <1>3, <1>4, <1>5

LEMMA FrontFacts ==
  ASSUME NEW S, NEW q \in Seq(S), q # <<>>
  PROVE  /\ Front(q) \in Seq(S)
         /\ Len(Front(q)) = Len(q) - 1
         /\ Len(q) \in 1..Len(q)
         /\ Last(q) \in S
         /\ Last(q) = q[Len(q)]
         /\ \A i \in 1..Len(Front(q)) : Front(q)[i] = q[i] /\ i \in 1..Len(q)
<1>1. Len(q) \in Nat \ {0}
  BY EmptySeq
<1>2. Len(q) \in 1..Len(q)
  BY <1>1
<1>3. Last(q) = q[Len(q)] /\ Last(q) \in S
  BY <1>2, ElementOfSeq DEF Last
<1>4. /\ Front(q) \in Seq(S)
      /\ Len(Front(q)) = Len(q) - 1 - 1 + 1
      /\ \A i \in 1..(Len(q) - 1 - 1 + 1) :
           Front(q)[i] = q[1 + i - 1] /\ 1 + i - 1 \in 1..Len(q)
  <2>1. /\ 1 \in Int /\ Len(q) - 1 \in Int /\ 1 <= 1
        /\ Len(q) - 1 <= Len(q) /\ 1 <= Len(q) - 1 + 1
    BY <1>1
  <2> QED BY <2>1, SubSeqFacts DEF Front
<1>5. Len(Front(q)) = Len(q) - 1
  BY <1>1, <1>4
<1>6. \A i \in 1..Len(Front(q)) : Front(q)[i] = q[i] /\ i \in 1..Len(q)
  BY <1>1, <1>4, <1>5
<1> QED BY <1>2, <1>3, <1>4, <1>5, <1>6

LEMMA RemoveAtFacts ==
  ASSUME NEW S, NEW q \in Seq(S), NEW k \in 1..Len(q)
  PROVE  /\ RemoveAt(q, k) \in Seq(S)
         /\ Len(RemoveAt(q, k)) = Len(q) - 1
         /\ \A i \in 1..(Len(q) - 1) :
              RemoveAt(q, k)[i] = IF i < k THEN q[i] ELSE q[i + 1]
<1> DEFINE a == SubSeq(q, 1, k - 1)
           b == SubSeq(q, k + 1, Len(q))
<1>0. Len(q) \in Nat /\ k \in Int /\ 1 <= k /\ k <= Len(q)
  BY LenProperties
<1>1. /\ a \in Seq(S) /\ Len(a) = k - 1
      /\ \A i \in 1..(k - 1) : a[i] = q[i]
  <2>1. /\ a \in Seq(S) /\ Len(a) = k - 1 - 1 + 1
        /\ \A i \in 1..(k - 1 - 1 + 1) : a[i] = q[1 + i - 1] /\ 1 + i - 1 \in 1..Len(q)
    <3>1. /\ 1 \in Int /\ k - 1 \in Int /\ 1 <= 1
          /\ k - 1 <= Len(q) /\ 1 <= k - 1 + 1
      BY <1>0
    <3> QED BY <3>1, SubSeqFacts
  <2> HIDE DEF a
  <2> QED BY <1>0, <2>1
<1>2. /\ b \in Seq(S) /\ Len(b) = Len(q) - k
      /\ \A i \in 1..(Len(q) - k) : b[i] = q[k + i]
  <2>1. /\ b \in Seq(S) /\ Len(b) = Len(q) - (k + 1) + 1
        /\ \A i \in 1..(Len(q) - (k + 1) + 1) :
             b[i] = q[k + 1 + i - 1] /\ k + 1 + i - 1 \in 1..Len(q)
    <3>1. /\ k + 1 \in Int /\ Len(q) \in Int /\ 1 <= k + 1
          /\ Len(q) <= Len(q) /\ k + 1 <= Len(q) + 1
      BY <1>0
    <3> QED BY <3>1, SubSeqFacts
  <2> HIDE DEF b
  <2> QED BY <1>0, <2>1
<1> HIDE DEF a, b
<1>3. /\ a \o b \in Seq(S)
      /\ Len(a \o b) = Len(a) + Len(b)
      /\ \A i \in 1..(Len(a) + Len(b)) :
           (a \o b)[i] = IF i <= Len(a) THEN a[i] ELSE b[i - Len(a)]
  BY <1>1, <1>2, ConcatProperties
<1>4. Len(a) + Len(b) = Len(q) - 1
  BY <1>0, <1>1, <1>2
<1>5. ASSUME NEW i \in 1..(Len(q) - 1)
      PROVE  (a \o b)[i] = IF i < k THEN q[i] ELSE q[i + 1]
  <2>1. CASE i < k
    BY <1>0, <1>1, <1>3, <1>4, <2>1
  <2>2. CASE ~(i < k)
    <3>1. i - Len(a) \in 1..(Len(q) - k) /\ k + (i - Len(a)) = i + 1 /\ ~(i <= Len(a))
      BY <1>0, <1>1, <2>2
    <3> QED BY <1>2, <1>3, <1>4, <2>2, <3>1
  <2> QED BY <2>1, <2>2
<1>6. RemoveAt(q, k) = a \o b
  BY DEF RemoveAt, a, b
<1> QED BY <1>3, <1>4, <1>5, <1>6

LEMMA PushFacts ==
  ASSUME NEW S, NEW q \in Seq(S), NEW f \in S
  PROVE  /\ Append(q, f) \in Seq(S)
         /\ Len(Append(q, f)) = Len(q) + 1
         /\ Len(q) \in Nat
         /\ \A i \in 1..Len(q) : Append(q, f)[i] = q[i]
         /\ Append(q, f)[Len(q) + 1] = f
OBVIOUS

LEMMA PushTwoFacts ==
  ASSUME NEW S, NEW q \in Seq(S), NEW f \in S, NEW g \in S
  PROVE  /\ q \o <<f, g>> \in Seq(S)
         /\ Len(q \o <<f, g>>) = Len(q) + 2
         /\ Len(q) \in Nat
         /\ \A i \in 1..Len(q) : (q \o <<f, g>>)[i] = q[i]
         /\ (q \o <<f, g>>)[Len(q) + 1] = f
         /\ (q \o <<f, g>>)[Len(q) + 2] = g
OBVIOUS

LEMMA EditFacts ==
  ASSUME NEW S, NEW q \in Seq(S), q # <<>>, NEW f \in S
  PROVE  /\ [q EXCEPT ![Len(q)] = f] \in Seq(S)
         /\ Len([q EXCEPT ![Len(q)] = f]) = Len(q)
         /\ Len(q) \in 1..Len(q) /\ Len(q) \in Nat
         /\ \A i \in 1..Len(q) : [q EXCEPT ![Len(q)] = f][i] = IF i = Len(q) THEN f ELSE q[i]
OBVIOUS

\* A sequence as it is, or with one more.
LEMMA OnTop ==
  ASSUME NEW S, NEW rest \in Seq(S), NEW p \in S, NEW next, next = rest \/ next = Append(rest, p)
  PROVE  /\ next \in Seq(S)
         /\ \A i \in 1..Len(rest) : i \in 1..Len(next) /\ next[i] = rest[i]
         /\ \A i \in 1..Len(next) : i \in 1..Len(rest) \/ next[i] = p
         /\ next = Append(rest, p) => \E i \in 1..Len(next) : next[i] = p
<1> DEFINE more == Append(rest, p)
<1>1. /\ more \in Seq(S) /\ Len(more) = Len(rest) + 1 /\ Len(rest) \in Nat
      /\ \A i \in 1..Len(rest) : more[i] = rest[i]
      /\ more[Len(rest) + 1] = p
  BY PushFacts
<1> HIDE DEF more
<1>2. Len(rest) + 1 \in 1..Len(more) /\ more # rest /\ \A i \in 1..Len(rest) : i \in 1..Len(more)
  BY <1>1
<1>3. CASE next = rest
  BY <1>1, <1>2, <1>3 DEF more
<1>4. CASE next = more
  BY <1>1, <1>2, <1>4 DEF more
<1> QED BY <1>3, <1>4 DEF more

\* The last of a sequence edited, with one more on top or none.
LEMMA EditOnTop ==
  ASSUME NEW S, NEW q \in Seq(S), q # <<>>, NEW f \in S, NEW p \in S, NEW rest, NEW next,
         rest = [q EXCEPT ![Len(q)] = f], next = rest \/ next = Append(rest, p)
  PROVE  /\ next \in Seq(S) /\ Len(q) \in 1..Len(q)
         /\ \A i \in 1..Len(q) : i \in 1..Len(next) /\ next[i] = IF i = Len(q) THEN f ELSE q[i]
         /\ \A i \in 1..Len(next) : i \in 1..Len(q) \/ next[i] = p
         /\ next = Append(rest, p) => \E i \in 1..Len(next) : next[i] = p
<1>1. /\ rest \in Seq(S) /\ Len(rest) = Len(q) /\ Len(q) \in 1..Len(q)
      /\ \A i \in 1..Len(q) : rest[i] = IF i = Len(q) THEN f ELSE q[i]
  BY EditFacts
<1>2. /\ next \in Seq(S)
      /\ \A i \in 1..Len(rest) : i \in 1..Len(next) /\ next[i] = rest[i]
      /\ \A i \in 1..Len(next) : i \in 1..Len(rest) \/ next[i] = p
      /\ next = Append(rest, p) => \E i \in 1..Len(next) : next[i] = p
  <2>1. \A r : r \in Seq(S) /\ (next = r \/ next = Append(r, p)) =>
                 /\ next \in Seq(S)
                 /\ \A i \in 1..Len(r) : i \in 1..Len(next) /\ next[i] = r[i]
                 /\ \A i \in 1..Len(next) : i \in 1..Len(r) \/ next[i] = p
                 /\ next = Append(r, p) => \E i \in 1..Len(next) : next[i] = p
    BY OnTop
  <2>2. rest \in Seq(S) /\ (next = rest \/ next = Append(rest, p))
    BY <1>1
  <2> QED BY <2>1, <2>2, Zenon
<1> QED BY <1>1, <1>2

\* A set of numbers that has a member has a least one.
LEMMA LeastOf ==
  ASSUME NEW S \in SUBSET Nat, S # {}
  PROVE  \E m \in S : \A t \in S : t >= m
<1> DEFINE R == {ss \in Nat \X Nat : ss[1] < ss[2]}
<1>1. IsWellFoundedOn(R, Nat)
  BY NatLessThanWellFounded DEF OpToRel
<1>2. PICK m \in S : \A t \in S : ~(<<t, m>> \in R)
  <2> HIDE DEF R
  <2> QED BY <1>1, WFMin
<1>3. ASSUME NEW t \in S
      PROVE  t >= m
  <2>1. t \in Nat /\ m \in Nat
    OBVIOUS
  <2>2. ~(<<t, m>> \in R)
    BY <1>2
  <2>3. ~(t < m)
    BY <2>1, <2>2
  <2> QED BY <2>1, <2>3
<1> QED BY <1>3

=============================================================================
