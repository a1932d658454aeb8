----------------------------- MODULE GroupsProofs -----------------------------
(* The groups of players and the set of groups, for any number of players,   *)
(* groups and duplicates and listeners nested to any depth: lookups by id    *)
(* agree with the arrays, nobody who looks at the set on each of its changes *)
(* is behind, a player sits in one team at most, and nobody who is removed   *)
(* from every group is left in one.                                          *)
EXTENDS MCServices, SequenceLemmas, FiniteSetTheorems

-----------------------------------------------------------------------------
(* What holds of the groups at every step.                                   *)

Callees == {"game", "forward", "watcher"}

GroupFrames ==
  [op : {"publish"}, signal : Groups \union {Set}, to : SUBSET Callees, runs : BOOLEAN]
  \union [op : {"announce"}, group : Groups, left : Int, runs : BOOLEAN]
  \union [op : {"sweep"}, ids : SUBSET Ids, at : Nat, frozen : BOOLEAN, list : Seq(Groups),
          runs : BOOLEAN, doubled : SUBSET Groups]
  \union [op : {"purge"}, ids : SUBSET Ids, at : Nat, frozen : BOOLEAN, list : Seq(Groups),
          runs : BOOLEAN]
  \union [op : {"enter"}, id : Ids, group : Groups, already : BOOLEAN, others : SUBSET Groups,
          joined : BOOLEAN, runs : BOOLEAN]

GroupTypes ==
  /\ players \in [Groups -> Seq(G!Entries)]
  /\ index = [g \in Groups |-> G!Indexed(players[g])]
  /\ set \in Seq(Groups) /\ G!IsInjective(set) /\ attached = G!ToSet(set)
  /\ teams \in {{}, Groups} /\ watched \in BOOLEAN /\ seen \subseteq Ids
  /\ stack \in Seq(GroupFrames)

\* The set will publish on account of this frame.
Wakes(f) ==
  \/ f.op = "publish" /\ ("forward" \in f.to \/ (f.signal = Set /\ "watcher" \in f.to))
  \/ f.op = "announce" /\ f.left # 0 /\ f.group \in attached

\* A watcher who is behind will look again.
WatcherIsCalled ==
  watched /\ seen # G!SetIds => \E i \in 1..Len(stack) : Wakes(stack[i])

Lists(entries, id) == \E i \in 1..Len(entries) : entries[i].id = id

Single(entries, id) ==
  \A i, j \in 1..Len(entries) : entries[i].id = id /\ entries[j].id = id => i = j

\* What has been swept is clean, but for the groups that had the player twice.
SweepFits(f) ==
  LET over == G!Groupwise(f)
  IN  /\ (\E id \in Ids : f.ids = {id}) /\ f.at <= Len(over)
      /\ \A k \in 1..f.at, id \in f.ids : Lists(players[over[k]], id) => over[k] \in f.doubled
      /\ \A g \in Groups \ f.doubled, id \in f.ids : Single(players[g], id)

\* One player at a time enters a team, who is in no team that was left for it.
EnterFits(f) ==
  /\ f.group \in teams
  /\ \A g \in teams \ {f.group} : g \in f.others \/ ~Lists(players[g], f.id)

\* The frame f asks nothing of the groups, or what it asks holds; only the first may enter.
FrameFits(f, i) ==
  /\ f.op = "sweep" => SweepFits(f)
  /\ f.op = "enter" => i = 1 /\ EnterFits(f)

GroupFramesFit == \A i \in 1..Len(stack) : \A f \in {stack[i]} : FrameFits(f, i)

OneTeam ==
  /\ \A id \in Ids : \A g, h \in teams : Lists(players[g], id) /\ Lists(players[h], id) => g = h
  /\ \A g \in teams, id \in Ids : Single(players[g], id)

GroupsInv == GroupTypes /\ WatcherIsCalled /\ GroupFramesFit /\ OneTeam

\* What is listed, and which entry of it is found.
LEMMA IdsAre ==
  ASSUME NEW s \in Seq(G!Entries), NEW id
  PROVE  id \in G!IdsOf(s) <=> Lists(s, id)
BY DEF G!IdsOf, G!ToSet, Lists

LEMMA MinIs ==
  ASSUME NEW S \in SUBSET Nat, NEW m \in S, \A j \in S : m <= j
  PROVE  G!Min(S) = m
<1>1. \A x \in S : (\A y \in S : x <= y) => x = m
  OBVIOUS
<1> QED BY <1>1 DEF G!Min

LEMMA FirstAt ==
  ASSUME NEW s \in Seq(G!Entries), NEW m \in 1..Len(s),
         \A j \in 1..Len(s) : s[j].id = s[m].id => m <= j
  PROVE  G!First(s, s[m].id) = s[m]
<1> DEFINE I == {i \in DOMAIN s : s[i].id = s[m].id}
<1>1. I \in SUBSET Nat /\ m \in I /\ \A j \in I : m <= j
  OBVIOUS
<1>2. G!Min(I) = m
  BY <1>1, MinIs
<1> QED BY <1>2 DEF G!First

LEMMA FirstIs ==
  ASSUME NEW s \in Seq(G!Entries), NEW id, Lists(s, id)
  PROVE  \E m \in 1..Len(s) : /\ s[m].id = id /\ G!First(s, id) = s[m]
                              /\ \A j \in 1..Len(s) : s[j].id = id => m <= j
<1> DEFINE I == {i \in 1..Len(s) : s[i].id = id}
<1>1. I \in SUBSET Nat /\ I # {}
  BY DEF Lists
<1>2. PICK m \in I : \A t \in I : t >= m
  <2> HIDE DEF I
  <2> QED BY <1>1, LeastOf
<1>3. m \in 1..Len(s) /\ s[m].id = id /\ \A j \in 1..Len(s) : s[j].id = id => m <= j
  BY <1>2
<1> QED BY <1>3, FirstAt

LEMMA RemoveFirstIs ==
  ASSUME NEW S, NEW s \in Seq(S), NEW k \in 1..Len(s),
         \A i \in 1..Len(s) : s[i] = s[k] => k <= i
  PROVE  G!RemoveFirst(s, s[k]) = RemoveAt(s, k)
<1> DEFINE I == {i \in 1..Len(s) : s[i] = s[k]}
<1>1. I \in SUBSET Nat /\ k \in I /\ \A j \in I : k <= j
  OBVIOUS
<1>2. G!Min(I) = k
  BY <1>1, MinIs
<1>3. G!SelectInSeq(s, LAMBDA v : v = s[k]) = k
  BY <1>1, <1>2 DEF G!SelectInSeq
<1>4. G!RemoveFirst(s, s[k]) = G!RemoveAt(s, k)
  BY <1>3 DEF G!RemoveFirst
<1> QED BY <1>4 DEF G!RemoveAt, RemoveAt

\* delete() takes the entry of one player out, and leaves the lookups of the others.
LEMMA LessOne ==
  ASSUME NEW s \in Seq(G!Entries), NEW id, Lists(s, id), NEW l, l = G!RemoveFirst(s, G!First(s, id))
  PROVE  /\ l \in Seq(G!Entries)
         /\ \A i : Lists(l, i) => Lists(s, i)
         /\ \A i : i # id /\ Lists(s, i) => Lists(l, i) /\ G!First(l, i) = G!First(s, i)
         /\ \A i : Single(s, i) => Single(l, i)
         /\ Single(s, id) => ~Lists(l, id)
<1>1. PICK k \in 1..Len(s) : /\ s[k].id = id /\ G!First(s, id) = s[k]
                             /\ \A j \in 1..Len(s) : s[j].id = id => k <= j
  BY FirstIs
<1>2. l = RemoveAt(s, k)
  <2>1. \A i \in 1..Len(s) : s[i] = s[k] => k <= i
    BY <1>1
  <2> QED BY <1>1, <2>1, RemoveFirstIs
<1>3. /\ l \in Seq(G!Entries) /\ Len(l) = Len(s) - 1 /\ Len(s) \in Nat
      /\ \A i \in 1..Len(l) : l[i] = IF i < k THEN s[i] ELSE s[i + 1]
  <2> DEFINE q == RemoveAt(s, k)
  <2>1. /\ q \in Seq(G!Entries) /\ Len(q) = Len(s) - 1
        /\ \A i \in 1..(Len(s) - 1) : q[i] = IF i < k THEN s[i] ELSE s[i + 1]
    BY RemoveAtFacts
  <2> HIDE DEF q
  <2>2. Len(s) \in Nat /\ l = q
    BY <1>2 DEF q
  <2> QED BY <2>1, <2>2
<1>4. \A i \in 1..Len(l) :
        \/ i < k /\ i \in 1..Len(s) /\ l[i] = s[i]
        \/ i >= k /\ i + 1 \in 1..Len(s) /\ l[i] = s[i + 1]
  BY <1>3
<1>5. \A i : Lists(l, i) => Lists(s, i)
  BY <1>4 DEF Lists
<1>6. ASSUME NEW i, i # id, Lists(s, i)
      PROVE  Lists(l, i) /\ G!First(l, i) = G!First(s, i)
  <2>1. PICK m \in 1..Len(s) : /\ s[m].id = i /\ G!First(s, i) = s[m]
                               /\ \A j \in 1..Len(s) : s[j].id = i => m <= j
    BY <1>6, FirstIs
  <2>2. m # k
    BY <1>1, <1>6, <2>1
  <2> DEFINE n == IF m < k THEN m ELSE m - 1
  <2>3. n \in 1..Len(l) /\ l[n] = s[m]
    <3>1. CASE m < k
      BY <1>3, <3>1
    <3>2. CASE m > k
      BY <1>3, <3>2
    <3> QED BY <2>2, <3>1, <3>2
  <2>4. ASSUME NEW j \in 1..Len(l), l[j].id = i
        PROVE  n <= j
    BY <1>4, <2>1, <2>2, <2>4
  <2>5. G!First(l, l[n].id) = l[n]
    <3> HIDE DEF n
    <3> QED BY <1>3, <2>1, <2>3, <2>4, FirstAt
  <2> QED BY <2>1, <2>3, <2>5 DEF Lists
<1>7. ASSUME NEW i, Single(s, i)
      PROVE  Single(l, i)
  <2> SUFFICES ASSUME NEW a \in 1..Len(l), NEW b \in 1..Len(l), l[a].id = i, l[b].id = i
               PROVE  a = b
    BY DEF Single
  <2>1. \A x, y \in 1..Len(s) : s[x].id = i /\ s[y].id = i => x = y
    BY <1>7 DEF Single
  <2> QED BY <1>4, <2>1
<1>8. ASSUME Single(s, id), Lists(l, id)
      PROVE  FALSE
  <2>1. PICK a \in 1..Len(l) : l[a].id = id
    BY <1>8 DEF Lists
  <2>2. \A x \in 1..Len(s) : s[x].id = id => x = k
    BY <1>1, <1>8 DEF Single
  <2> QED BY <1>4, <2>1, <2>2
<1> QED BY <1>3, <1>5, <1>6, <1>7, <1>8

\* What is listed of what stays was listed before, in the same order.
LEMMA WithoutIs ==
  ASSUME NEW s \in Seq(G!Entries), NEW ids
  PROVE  /\ G!Without(s, ids) \in Seq(G!Entries)
         /\ \A i : Lists(G!Without(s, ids), i) => Lists(s, i)
         /\ \A i : Single(s, i) => Single(G!Without(s, ids), i)
<1> DEFINE N == Len(s)
           Turn(f, n) == IF n = 0 THEN <<>>
                         ELSE IF s[n].id \in ids THEN f[n - 1] ELSE Append(f[n - 1], s[n])
           Loops(f, n) == f = [m \in 0..n |-> Turn(f, m)]
           Kept(q, n) ==
             /\ q \in Seq(G!Entries)
             /\ \A i \in 1..Len(q) : \E k \in 1..n : q[i] = s[k]
             /\ \A i, j \in 1..Len(q) :
                  i < j => \E k, m \in 1..n : k < m /\ q[i] = s[k] /\ q[j] = s[m]
<1>0. N \in Nat
  OBVIOUS
<1>1. \E f : Loops(f, N)
  <2> DEFINE Bad == {n \in 0..N : ~\E f : Loops(f, n)}
  <2> SUFFICES ASSUME Bad # {} PROVE FALSE
    BY <1>0
  <2>1. Bad \in SUBSET Nat
    BY <1>0
  <2>2. PICK n \in Bad : \A t \in Bad : t >= n
    <3> HIDE DEF Bad
    <3> QED BY <2>1, LeastOf
  <2>3. n \in 0..N /\ ~\E f : Loops(f, n)
    BY <2>2
  <2>4. CASE n = 0
    <3> DEFINE f == [m \in 0..0 |-> <<>>]
    <3>1. f = [m \in 0..0 |-> Turn(f, m)]
      <4>1. \A m \in 0..0 : Turn(f, m) = <<>>
        OBVIOUS
      <4> QED BY <4>1
    <3> QED BY <2>3, <2>4, <3>1
  <2>5. CASE n # 0
    <3>1. n - 1 \in 0..N /\ ~(n - 1 >= n) /\ n \in Nat /\ n - 1 \in Nat
      BY <1>0, <2>3, <2>5
    <3>2. \E f : Loops(f, n - 1)
      BY <2>2, <3>1
    <3>3. PICK f : Loops(f, n - 1)
      BY <3>2
    <3> DEFINE g == [m \in 0..n |-> IF m = n THEN Turn(f, n) ELSE f[m]]
    <3>4. \A m \in 0..n : Turn(g, m) = g[m]
      <4> SUFFICES ASSUME NEW m \in 0..n PROVE Turn(g, m) = g[m]
        OBVIOUS
      <4>1. m = 0 \/ g[m - 1] = f[m - 1]
        BY <3>1
      <4>2. Turn(g, m) = Turn(f, m)
        BY <4>1
      <4>3. m # n => f[m] = Turn(f, m)
        <5>1. m # n => m \in 0..(n - 1)
          BY <3>1
        <5> HIDE DEF Turn
        <5> QED BY <3>3, <5>1
      <4> HIDE DEF Turn
      <4> QED BY <4>2, <4>3
    <3>5. Loops(g, n)
      <4> HIDE DEF Turn
      <4>1. g = [m \in 0..n |-> g[m]]
        OBVIOUS
      <4> HIDE DEF g
      <4> QED BY <3>4, <4>1
    <3> QED BY <2>3, <3>5
  <2> QED BY <2>4, <2>5
<1>2. PICK f : Loops(f, N) /\ G!Without(s, ids) = f[N]
  BY <1>1 DEF G!Without
<1>3. \A n \in 0..N : f[n] = Turn(f, n)
  <2> HIDE DEF Turn
  <2> QED BY <1>2
<1>4. \A n \in 0..N : Kept(f[n], n)
  <2> DEFINE Bad == {n \in 0..N : ~Kept(f[n], n)}
  <2> SUFFICES ASSUME Bad # {} PROVE FALSE
    OBVIOUS
  <2>1. Bad \in SUBSET Nat
    BY <1>0
  <2>2. PICK n \in Bad : \A t \in Bad : t >= n
    <3> HIDE DEF Bad
    <3> QED BY <2>1, LeastOf
  <2>3. n \in 0..N /\ ~Kept(f[n], n) /\ f[n] = Turn(f, n)
    BY <1>3, <2>2
  <2>4. CASE n = 0
    BY <2>3, <2>4
  <2>5. CASE n # 0
    <3>1. n - 1 \in 0..N /\ ~(n - 1 >= n) /\ n \in 1..N /\ n \in Nat
      BY <1>0, <2>3, <2>5
    <3>2. Kept(f[n - 1], n - 1)
      BY <2>2, <3>1
    <3> DEFINE q == f[n - 1]
    <3>3. /\ q \in Seq(G!Entries) /\ s[n] \in G!Entries
          /\ \A i \in 1..Len(q) : \E k \in 1..(n - 1) : q[i] = s[k]
          /\ \A i, j \in 1..Len(q) :
               i < j => \E k, m \in 1..(n - 1) : k < m /\ q[i] = s[k] /\ q[j] = s[m]
      BY <3>1, <3>2
    <3>4. f[n] = q \/ f[n] = Append(q, s[n])
      BY <2>3, <2>5
    <3> HIDE DEF q
    <3>5. CASE f[n] = q
      <4>1. \A k \in 1..(n - 1) : k \in 1..n
        BY <3>1
      <4>2. Kept(q, n)
        <5>1. \A i \in 1..Len(q) : \E k \in 1..n : q[i] = s[k]
          BY <3>3, <4>1
        <5>2. \A i, j \in 1..Len(q) :
                i < j => \E k, m \in 1..n : k < m /\ q[i] = s[k] /\ q[j] = s[m]
          BY <3>3, <4>1
        <5> QED BY <3>3, <5>1, <5>2
      <4> HIDE DEF Kept
      <4> QED BY <2>3, <3>5, <4>2
    <3>6. CASE f[n] = Append(q, s[n])
      <4> DEFINE r == Append(q, s[n])
      <4>1. /\ r \in Seq(G!Entries) /\ Len(r) = Len(q) + 1 /\ Len(q) \in Nat
            /\ \A i \in 1..Len(q) : r[i] = q[i]
            /\ r[Len(q) + 1] = s[n]
        BY <3>3, PushFacts
      <4> HIDE DEF r
      <4>2. ASSUME NEW i \in 1..Len(r)
            PROVE  \E k \in 1..n : r[i] = s[k]
        <5>1. CASE i = Len(q) + 1
          BY <3>1, <4>1, <5>1
        <5>2. CASE i # Len(q) + 1
          <6>1. i \in 1..Len(q) /\ r[i] = q[i]
            BY <4>1, <5>2
          <6>2. PICK k \in 1..(n - 1) : q[i] = s[k]
            BY <3>3, <6>1
          <6> QED BY <3>1, <6>1, <6>2
        <5> QED BY <5>1, <5>2
      <4>3. ASSUME NEW i \in 1..Len(r), NEW j \in 1..Len(r), i < j
            PROVE  \E k, m \in 1..n : k < m /\ r[i] = s[k] /\ r[j] = s[m]
        <5>1. i \in 1..Len(q) /\ r[i] = q[i]
          BY <4>1, <4>3
        <5>2. CASE j = Len(q) + 1
          <6>1. PICK k \in 1..(n - 1) : q[i] = s[k]
            BY <3>3, <5>1
          <6>2. k \in 1..n /\ n \in 1..n /\ k < n
            BY <3>1
          <6> QED BY <4>1, <5>1, <5>2, <6>1, <6>2
        <5>3. CASE j # Len(q) + 1
          <6>1. j \in 1..Len(q) /\ r[j] = q[j]
            BY <4>1, <5>3
          <6>2. PICK k \in 1..(n - 1), m \in 1..(n - 1) : k < m /\ q[i] = s[k] /\ q[j] = s[m]
            BY <3>3, <4>3, <5>1, <6>1
          <6>3. k \in 1..n /\ m \in 1..n
            BY <3>1
          <6> QED BY <5>1, <6>1, <6>2, <6>3
        <5> QED BY <5>2, <5>3
      <4>4. Kept(r, n)
        BY <4>1, <4>2, <4>3
      <4> HIDE DEF Kept
      <4> QED BY <2>3, <3>6, <4>4 DEF r
    <3> QED BY <3>4, <3>5, <3>6
  <2> QED BY <2>4, <2>5
<1> DEFINE l == G!Without(s, ids)
<1>5. /\ l \in Seq(G!Entries)
      /\ \A i \in 1..Len(l) : \E k \in 1..N : l[i] = s[k]
      /\ \A i, j \in 1..Len(l) :
           i < j => \E k, m \in 1..N : k < m /\ l[i] = s[k] /\ l[j] = s[m]
  <2>1. Kept(l, N)
    <3>1. N \in 0..N
      BY <1>0
    <3> HIDE DEF Kept
    <3> QED BY <1>2, <1>4, <3>1
  <2> HIDE DEF l
  <2> QED BY <2>1
<1> HIDE DEF l
<1>6. \A i : Lists(l, i) => Lists(s, i)
  BY <1>5 DEF Lists
<1>7. ASSUME NEW i, Single(s, i)
      PROVE  Single(l, i)
  <2> SUFFICES ASSUME NEW a \in 1..Len(l), NEW b \in 1..Len(l), l[a].id = i, l[b].id = i, a < b
               PROVE  FALSE
    <3>1. \A a, b \in 1..Len(l) : a = b \/ a < b \/ b < a
      BY <1>5
    <3> QED BY <3>1 DEF Single
  <2>1. PICK k \in 1..N, m \in 1..N : k < m /\ l[a] = s[k] /\ l[b] = s[m]
    BY <1>5
  <2>2. k = m
    BY <1>7, <2>1 DEF Single
  <2> QED BY <1>0, <2>1, <2>2
<1> QED BY <1>5, <1>6, <1>7 DEF l

\* The index knows who is listed.
LEMMA LookupIs ==
  ASSUME GroupTypes, NEW g \in Groups
  PROVE  /\ players[g] \in Seq(G!Entries) /\ index[g] = G!Indexed(players[g])
         /\ DOMAIN index[g] = G!IdsOf(players[g])
         /\ \A id : G!HasId(g, id) <=> Lists(players[g], id)
<1>1. players[g] \in Seq(G!Entries) /\ index[g] = G!Indexed(players[g])
  BY DEF GroupTypes
<1>2. DOMAIN index[g] = G!IdsOf(players[g])
  BY <1>1 DEF G!Indexed
<1> QED BY <1>1, <1>2, IdsAre DEF G!HasId

\* The group g lists nobody whom it did not list, and nobody twice whom it listed once.
Lessens(g) ==
  /\ players' \in [Groups -> Seq(G!Entries)]
  /\ index' = [h \in Groups |-> G!Indexed(players'[h])]
  /\ \A h \in Groups \ {g} : players'[h] = players[h]
  /\ \A id : Lists(players'[g], id) => Lists(players[g], id)
  /\ \A id : Single(players[g], id) => Single(players'[g], id)

\* The array of g is replaced, and its index agrees.
LEMMA ReplacesIs ==
  ASSUME GroupTypes, NEW g \in Groups, NEW q \in Seq(G!Entries),
         players' = [players EXCEPT ![g] = q], index' = [index EXCEPT ![g] = G!Indexed(q)]
  PROVE  /\ players' \in [Groups -> Seq(G!Entries)]
         /\ index' = [h \in Groups |-> G!Indexed(players'[h])]
         /\ players'[g] = q /\ \A h \in Groups \ {g} : players'[h] = players[h]
<1>1. players \in [Groups -> Seq(G!Entries)] /\ index = [h \in Groups |-> G!Indexed(players[h])]
  BY DEF GroupTypes
<1>2. /\ players' \in [Groups -> Seq(G!Entries)] /\ players'[g] = q
      /\ \A h \in Groups \ {g} : players'[h] = players[h]
  BY <1>1
<1>3. index' = [h \in Groups |-> IF h = g THEN G!Indexed(q) ELSE index[h]]
  BY <1>1
<1>4. \A h \in Groups : (IF h = g THEN G!Indexed(q) ELSE index[h]) = G!Indexed(players'[h])
  BY <1>1, <1>2
<1> QED BY <1>2, <1>3, <1>4

LEMMA Unlessened ==
  ASSUME GroupTypes, NEW g \in Groups, UNCHANGED <<players, index>>
  PROVE  Lessens(g)
BY DEF GroupTypes, Lessens

LEMMA DeleteIs ==
  ASSUME GroupTypes, NEW g \in Groups, NEW id, NEW rest, G!DeleteFrom(g, id, rest)
  PROVE  /\ Lessens(g)
         /\ Single(players[g], id) => ~Lists(players'[g], id)
         /\ \/ UNCHANGED <<players, index>> /\ stack' = rest
            \/ stack' = Append(rest, G!Publication(g))
<1>1. CASE ~G!HasId(g, id)
  <2>1. UNCHANGED <<players, index>> /\ stack' = rest
    BY <1>1 DEF G!DeleteFrom
  <2> QED BY <1>1, <2>1, Unlessened, LookupIs
<1>2. CASE G!HasId(g, id)
  <2> DEFINE s == players[g]
             left == G!RemoveFirst(s, index[g][id])
             kept == IF id \in G!IdsOf(left) THEN DOMAIN index[g] ELSE DOMAIN index[g] \ {id}
             changed == [i \in kept |-> IF i = id THEN G!First(left, i) ELSE index[g][i]]
  <2>1. /\ players' = [players EXCEPT ![g] = left]
        /\ index' = [index EXCEPT ![g] = changed]
        /\ stack' = Append(rest, G!Publication(g))
    BY <1>2 DEF G!DeleteFrom
  <2>2. /\ s \in Seq(G!Entries) /\ Lists(s, id) /\ index[g] = G!Indexed(s)
        /\ DOMAIN index[g] = G!IdsOf(s)
    BY <1>2, LookupIs
  <2> HIDE DEF s
  <2>3. \A i \in G!IdsOf(s) : index[g][i] = G!First(s, i)
    BY <2>2 DEF G!Indexed
  <2>4. left = G!RemoveFirst(s, G!First(s, id))
    <3>1. id \in G!IdsOf(s)
      BY <2>2, IdsAre
    <3> QED BY <2>3, <3>1
  <2> HIDE DEF left
  <2>5. /\ left \in Seq(G!Entries)
        /\ \A i : Lists(left, i) => Lists(s, i)
        /\ \A i : i # id /\ Lists(s, i) => Lists(left, i) /\ G!First(left, i) = G!First(s, i)
        /\ \A i : Single(s, i) => Single(left, i)
        /\ Single(s, id) => ~Lists(left, id)
    BY <2>2, <2>4, LessOne
  <2>6. \A i : (i \in G!IdsOf(s) <=> Lists(s, i)) /\ (i \in G!IdsOf(left) <=> Lists(left, i))
    BY <2>2, <2>5, IdsAre
  <2>7. kept = G!IdsOf(left)
    <3>1. \A i : i # id => (i \in G!IdsOf(s) <=> i \in G!IdsOf(left))
      BY <2>5, <2>6
    <3>2. \A i : i \in kept <=> i \in G!IdsOf(left)
      <4>1. CASE id \in G!IdsOf(left)
        <5>1. id \in G!IdsOf(s)
          BY <2>2, <2>6
        <5> QED BY <2>2, <3>1, <4>1, <5>1
      <4>2. CASE id \notin G!IdsOf(left)
        BY <2>2, <3>1, <4>2
      <4> QED BY <4>1, <4>2
    <3> HIDE DEF kept
    <3> QED BY <3>2
  <2>8. changed = G!Indexed(left)
    <3>1. ASSUME NEW i \in kept
          PROVE  (IF i = id THEN G!First(left, i) ELSE index[g][i]) = G!First(left, i)
      <4>1. CASE i = id
        BY <4>1
      <4>2. CASE i # id
        <5>1. Lists(s, i) /\ i \in G!IdsOf(s)
          BY <2>5, <2>6, <2>7
        <5> QED BY <2>3, <2>5, <4>2, <5>1
      <4> QED BY <4>1, <4>2
    <3> QED BY <2>7, <3>1 DEF G!Indexed
  <2> HIDE DEF changed
  <2>9. /\ players' \in [Groups -> Seq(G!Entries)]
        /\ index' = [h \in Groups |-> G!Indexed(players'[h])]
        /\ players'[g] = left /\ \A h \in Groups \ {g} : players'[h] = players[h]
    BY <2>1, <2>5, <2>8, ReplacesIs
  <2> QED BY <2>1, <2>5, <2>9 DEF Lessens, s
<1> QED BY <1>1, <1>2

LEMMA RemoveIs ==
  ASSUME GroupTypes, NEW g \in Groups, NEW ids, NEW rest, G!RemoveFrom(g, ids, rest)
  PROVE  /\ Lessens(g)
         /\ \/ UNCHANGED <<players, index>> /\ stack' = rest
            \/ \E n \in Int \ {0} : stack' = Append(rest, G!Announcement(g, n))
<1> DEFINE s == players[g]
           left == G!Without(s, ids)
           gone == Len(s) - Len(left)
<1>1. s \in Seq(G!Entries)
  BY DEF GroupTypes
<1>2. CASE gone = 0
  <2>1. UNCHANGED <<players, index>> /\ stack' = rest
    BY <1>2 DEF G!RemoveFrom
  <2> QED BY <2>1, Unlessened
<1>3. CASE gone # 0
  <2>1. /\ players' = [players EXCEPT ![g] = left] /\ index' = [index EXCEPT ![g] = G!Indexed(left)]
        /\ stack' = Append(rest, G!Announcement(g, gone))
    BY <1>3 DEF G!RemoveFrom
  <2>2. /\ left \in Seq(G!Entries)
        /\ \A i : Lists(left, i) => Lists(s, i)
        /\ \A i : Single(s, i) => Single(left, i)
    BY <1>1, WithoutIs
  <2>3. gone \in Int \ {0}
    <3>1. Len(s) \in Nat /\ Len(left) \in Nat
      BY <1>1, <2>2
    <3> HIDE DEF left, s
    <3> QED BY <1>3, <3>1
  <2> HIDE DEF left
  <2>4. Lessens(g)
    <3>1. /\ players' \in [Groups -> Seq(G!Entries)]
          /\ index' = [h \in Groups |-> G!Indexed(players'[h])]
          /\ players'[g] = left /\ \A h \in Groups \ {g} : players'[h] = players[h]
      BY <2>1, <2>2, ReplacesIs
    <3> QED BY <2>2, <3>1 DEF Lessens
  <2> QED BY <2>1, <2>3, <2>4
<1> QED BY <1>2, <1>3

LEMMA AddIs ==
  ASSUME GroupTypes, NEW g \in Groups, NEW id \in Ids, NEW rest,
         G!AddTo(g, [id |-> id, n |-> 1], rest)
  PROVE  /\ players' \in [Groups -> Seq(G!Entries)]
         /\ index' = [h \in Groups |-> G!Indexed(players'[h])]
         /\ \A h \in Groups \ {g} : players'[h] = players[h]
         /\ \A i : i # id => (Lists(players'[g], i) <=> Lists(players[g], i))
         /\ \A i : Single(players[g], i) => Single(players'[g], i)
         /\ \/ UNCHANGED <<players, index>> /\ stack' = rest
            \/ stack' = Append(rest, G!Publication(g))
<1> DEFINE s == players[g]
           e == [id |-> id, n |-> 1]
           more == Append(s, e)
<1>1. CASE G!HasId(g, id)
  <2>1. UNCHANGED <<players, index>> /\ stack' = rest
    BY <1>1 DEF G!AddTo
  <2> QED BY <2>1, Unlessened DEF GroupTypes
<1>2. CASE ~G!HasId(g, id)
  <2> DEFINE changed == [i \in DOMAIN index[g] \union {id} |-> IF i = id THEN e ELSE index[g][i]]
  <2>1. /\ players' = [players EXCEPT ![g] = more] /\ index' = [index EXCEPT ![g] = changed]
        /\ stack' = Append(rest, G!Publication(g))
    BY <1>2 DEF G!AddTo
  <2>2. /\ s \in Seq(G!Entries) /\ ~Lists(s, id) /\ index[g] = G!Indexed(s)
        /\ DOMAIN index[g] = G!IdsOf(s)
    BY <1>2, LookupIs
  <2>3. e \in G!Entries /\ e.id = id
    BY DEF G!Entries
  <2> HIDE DEF s, e
  <2>4. /\ more \in Seq(G!Entries) /\ Len(more) = Len(s) + 1 /\ Len(s) \in Nat
        /\ \A i \in 1..Len(s) : more[i] = s[i]
        /\ more[Len(s) + 1] = e
    BY <2>2, <2>3, PushFacts
  <2> HIDE DEF more
  <2>5. \A k \in 1..Len(more) : (k \in 1..Len(s) /\ more[k] = s[k]) \/ (k = Len(s) + 1 /\ more[k] = e)
    BY <2>4
  <2>6. \A i : Lists(more, i) <=> Lists(s, i) \/ i = id
    <3>1. \A i : Lists(s, i) => Lists(more, i)
      BY <2>4 DEF Lists
    <3>2. Lists(more, id)
      BY <2>3, <2>4 DEF Lists
    <3>3. \A i : Lists(more, i) => Lists(s, i) \/ i = id
      BY <2>3, <2>5 DEF Lists
    <3> QED BY <3>1, <3>2, <3>3
  <2>7. ASSUME NEW i, Single(s, i)
        PROVE  Single(more, i)
    <3> SUFFICES ASSUME NEW a \in 1..Len(more), NEW b \in 1..Len(more), more[a].id = i, more[b].id = i
                 PROVE  a = b
      BY DEF Single
    <3>1. CASE i = id
      <4>1. \A k \in 1..Len(s) : s[k].id # id
        BY <2>2 DEF Lists
      <4> QED BY <2>5, <3>1, <4>1
    <3>2. CASE i # id
      <4>1. a \in 1..Len(s) /\ b \in 1..Len(s) /\ s[a].id = i /\ s[b].id = i
        BY <2>3, <2>5, <3>2
      <4> QED BY <2>7, <4>1 DEF Single
    <3> QED BY <3>1, <3>2
  <2>8. \A i : i # id /\ Lists(s, i) => G!First(more, i) = G!First(s, i)
    <3> SUFFICES ASSUME NEW i, i # id, Lists(s, i) PROVE G!First(more, i) = G!First(s, i)
      OBVIOUS
    <3>1. PICK m \in 1..Len(s) : /\ s[m].id = i /\ G!First(s, i) = s[m]
                                 /\ \A j \in 1..Len(s) : s[j].id = i => m <= j
      BY <2>2, FirstIs
    <3>2. m \in 1..Len(more) /\ more[m] = s[m]
      BY <2>4
    <3>3. \A j \in 1..Len(more) : more[j].id = more[m].id => m <= j
      BY <2>4, <2>5, <3>1, <3>2
    <3>4. G!First(more, more[m].id) = more[m]
      BY <2>4, <3>2, <3>3, FirstAt
    <3> QED BY <3>1, <3>2, <3>4
  <2>9. G!First(more, id) = e
    <3> DEFINE m == Len(s) + 1
    <3>1. m \in 1..Len(more) /\ more[m] = e
      BY <2>4
    <3>2. \A k \in 1..Len(s) : s[k].id # id
      BY <2>2 DEF Lists
    <3>3. \A j \in 1..Len(more) : more[j].id = more[m].id => m <= j
      BY <2>3, <2>4, <2>5, <3>2
    <3> HIDE DEF m
    <3>4. G!First(more, more[m].id) = more[m]
      BY <2>4, <3>1, <3>3, FirstAt
    <3> QED BY <2>3, <3>1, <3>4
  <2>10. changed = G!Indexed(more)
    <3>1. \A i : (i \in G!IdsOf(s) <=> Lists(s, i)) /\ (i \in G!IdsOf(more) <=> Lists(more, i))
      BY <2>2, <2>4, IdsAre
    <3>2. DOMAIN index[g] \union {id} = G!IdsOf(more)
      <4>1. \A i : i \in DOMAIN index[g] \union {id} <=> i \in G!IdsOf(more)
        BY <2>2, <2>6, <3>1
      <4> QED BY <4>1
    <3>3. \A i \in G!IdsOf(s) : index[g][i] = G!First(s, i)
      BY <2>2 DEF G!Indexed
    <3>4. ASSUME NEW i \in G!IdsOf(more)
          PROVE  (IF i = id THEN e ELSE index[g][i]) = G!First(more, i)
      BY <2>6, <2>8, <2>9, <3>1, <3>3
    <3> QED BY <3>2, <3>4 DEF G!Indexed
  <2> HIDE DEF changed
  <2>11. /\ players' \in [Groups -> Seq(G!Entries)]
         /\ index' = [h \in Groups |-> G!Indexed(players'[h])]
         /\ players'[g] = more /\ \A h \in Groups \ {g} : players'[h] = players[h]
    BY <2>1, <2>4, <2>10, ReplacesIs
  <2> QED BY <2>1, <2>6, <2>7, <2>11 DEF s
<1> QED BY <1>1, <1>2

-----------------------------------------------------------------------------
(* The groups: publications and loops.                                       *)

LEMMA GroupNumbers ==
  /\ Set \notin Groups /\ GroupsCalls \in Nat /\ Given \subseteq Seq(G!Entries)
  /\ IsFiniteSet(Groups) /\ \A s \in G!SetToSeqs(Groups) : s \in Seq(Groups)
<1>1. /\ Set \notin Groups /\ GroupsCalls \in Nat /\ Given \subseteq Seq(G!Entries)
      /\ G!IsFiniteSet(Groups)
  BY ServicesAssumption DEF G!GroupsAssumption, G!Entries
<1>2. G!Cardinality(Groups) = Cardinality(Groups) /\ IsFiniteSet(Groups)
  BY <1>1 DEF G!Cardinality, Cardinality, G!IsFiniteSet, IsFiniteSet
<1>3. \A s \in G!SetToSeqs(Groups) : s \in Seq(Groups)
  BY <1>2, FS_CardinalityType DEF G!SetToSeqs
<1> QED BY <1>1, <1>2, <1>3

LEMMA StackIs ==
  ASSUME GroupTypes
  PROVE  /\ stack \in Seq(GroupFrames) /\ Len(stack) \in Nat
         /\ G!Top = stack[Len(stack)]
         /\ G!Front(stack) = Front(stack)
         /\ stack # <<>> => Len(stack) \in 1..Len(stack) /\ stack[Len(stack)] \in GroupFrames
<1>1. stack \in Seq(GroupFrames)
  BY DEF GroupTypes
<1>2. G!Top = stack[Len(stack)] /\ G!Front(stack) = Front(stack)
  BY DEF G!Top, G!Last, G!Front, Front
<1>3. stack # <<>> => Len(stack) \in 1..Len(stack) /\ stack[Len(stack)] \in GroupFrames
  BY <1>1, FrontFacts
<1> QED BY <1>1, <1>2, <1>3

\* A frame is of the kind that its name says.
LEMMA FrameKinds ==
  ASSUME NEW f \in GroupFrames
  PROVE  /\ f.op \in {"publish", "announce", "sweep", "purge", "enter"}
         /\ f.op = "publish" =>
              f \in [op : {"publish"}, signal : Groups \union {Set}, to : SUBSET Callees, runs : BOOLEAN]
         /\ f.op = "announce" =>
              f \in [op : {"announce"}, group : Groups, left : Int, runs : BOOLEAN]
         /\ f.op = "sweep" =>
              f \in [op : {"sweep"}, ids : SUBSET Ids, at : Nat, frozen : BOOLEAN,
                     list : Seq(Groups), runs : BOOLEAN, doubled : SUBSET Groups]
         /\ f.op = "purge" =>
              f \in [op : {"purge"}, ids : SUBSET Ids, at : Nat, frozen : BOOLEAN,
                     list : Seq(Groups), runs : BOOLEAN]
         /\ f.op = "enter" =>
              f \in [op : {"enter"}, id : Ids, group : Groups, already : BOOLEAN,
                     others : SUBSET Groups, joined : BOOLEAN, runs : BOOLEAN]
BY DEF GroupFrames

\* What an operation publishes is heard by the set if it listens, and by its watcher.
LEMMA PublicationIs ==
  /\ \A g \in Groups \union {Set} : /\ G!Publication(g) \in GroupFrames
                                    /\ G!Publication(g).op = "publish"
  /\ \A g \in Groups : g \in attached => Wakes(G!Publication(g))
  /\ watched => Wakes(G!Publication(Set))
<1>1. \A g : G!Hearers(g) \in SUBSET Callees
  BY DEF G!Hearers, Callees
<1>2. ASSUME NEW g \in Groups \union {Set}
      PROVE  G!Publication(g) \in GroupFrames /\ G!Publication(g).op = "publish"
  BY <1>1 DEF G!Publication, GroupFrames
<1>3. ASSUME NEW g \in Groups, g \in attached
      PROVE  Wakes(G!Publication(g))
  BY <1>3 DEF G!Publication, G!Hearers, Wakes
<1>4. watched => Wakes(G!Publication(Set))
  BY DEF G!Publication, G!Hearers, Wakes
<1> QED BY <1>2, <1>3, <1>4

LEMMA AnnouncementIs ==
  ASSUME NEW g \in Groups, NEW n \in Int
  PROVE  /\ G!Announcement(g, n) \in GroupFrames /\ G!Announcement(g, n).op = "announce"
         /\ g \in attached /\ n # 0 => Wakes(G!Announcement(g, n))
BY DEF G!Announcement, GroupFrames, Wakes

\* Only what is in the groups of the set matters to who looks at it.
LEMMA SetIdsStay ==
  ASSUME GroupTypes, UNCHANGED set, DOMAIN index' = Groups,
         \A h \in Groups : h \in attached => index'[h] = index[h]
  PROVE  G!SetIds' = G!SetIds
<1>1. \A h \in G!ToSet(set) : h \in Groups /\ h \in attached
  BY DEF GroupTypes, G!ToSet
<1>2. G!ToSet(set)' = G!ToSet(set)
  BY DEF G!ToSet
<1>3. {DOMAIN index'[h] : h \in G!ToSet(set)'} = {DOMAIN index[h] : h \in G!ToSet(set)}
  BY <1>1, <1>2
<1> QED BY <1>3 DEF G!SetIds

\* An operation on the group g: the frames below are as they were, or awake as they were.
LEMMA WatcherAfter ==
  ASSUME GroupTypes, WatcherIsCalled, NEW g \in Groups, UNCHANGED <<set, attached, watched, seen>>,
         index' = [h \in Groups |-> G!Indexed(players'[h])],
         \A h \in Groups \ {g} : players'[h] = players[h],
         NEW rest \in Seq(GroupFrames), Len(rest) = Len(stack),
         \A i \in 1..Len(stack) : Wakes(stack[i]) => Wakes(rest[i]),
         \/ UNCHANGED <<players, index>> /\ stack' = rest
         \/ \E f \in GroupFrames : (g \in attached => Wakes(f)) /\ stack' = Append(rest, f)
  PROVE  WatcherIsCalled'
<1>1. \A f : Wakes(f)' <=> Wakes(f)
  BY DEF Wakes
<1> SUFFICES ASSUME watched, seen # G!SetIds'
             PROVE  \E i \in 1..Len(stack') : Wakes(stack'[i])
  BY <1>1 DEF WatcherIsCalled
<1>2. \/ stack' = rest
      \/ \E f \in GroupFrames : stack' = Append(rest, f)
  OBVIOUS
<1>3. \A i \in 1..Len(rest) : i \in 1..Len(stack') /\ stack'[i] = rest[i]
  BY <1>2, PushFacts
<1>4. CASE seen # G!SetIds
  <2>1. PICK i \in 1..Len(stack) : Wakes(stack[i])
    BY <1>4 DEF WatcherIsCalled
  <2> QED BY <1>3, <2>1
<1>5. CASE seen = G!SetIds
  <2>1. G!SetIds' # G!SetIds
    BY <1>5
  <2>2. g \in attached
    <3> SUFFICES ASSUME g \notin attached PROVE FALSE
      OBVIOUS
    <3>1. \A h \in Groups : h \in attached => index'[h] = index[h]
      BY DEF GroupTypes
    <3> QED BY <2>1, <3>1, SetIdsStay
  <2>3. ~UNCHANGED <<players, index>>
    <3> SUFFICES ASSUME UNCHANGED <<players, index>> PROVE FALSE
      OBVIOUS
    <3> QED BY <2>1, SetIdsStay
  <2>4. PICK f \in GroupFrames : Wakes(f) /\ stack' = Append(rest, f)
    BY <2>2, <2>3
  <2>5. Len(stack') = Len(rest) + 1 /\ Len(rest) \in Nat /\ stack'[Len(rest) + 1] = f
    BY <2>4, PushFacts
  <2>6. Len(rest) + 1 \in 1..Len(stack')
    BY <2>5
  <2> QED BY <2>4, <2>5, <2>6
<1> QED BY <1>4, <1>5

\* The frames of `rest` fit, and nothing or an announcement comes on top.
LEMMA FramesAfter ==
  ASSUME NEW rest \in Seq(GroupFrames),
         \A i \in 1..Len(rest) : \A f \in {rest[i]} : FrameFits(f, i)',
         \/ stack' = rest
         \/ \E f \in GroupFrames : f.op \in {"publish", "announce", "purge"} /\ stack' = Append(rest, f)
  PROVE  stack' \in Seq(GroupFrames) /\ GroupFramesFit'
<1>1. CASE stack' = rest
  BY <1>1 DEF GroupFramesFit
<1>2. ASSUME NEW f \in GroupFrames, f.op \in {"publish", "announce", "purge"},
             stack' = Append(rest, f)
      PROVE  stack' \in Seq(GroupFrames) /\ GroupFramesFit'
  <2>1. /\ stack' \in Seq(GroupFrames) /\ Len(stack') = Len(rest) + 1 /\ Len(rest) \in Nat
        /\ \A i \in 1..Len(rest) : stack'[i] = rest[i]
        /\ stack'[Len(rest) + 1] = f
    BY <1>2, PushFacts
  <2>2. FrameFits(f, Len(rest) + 1)'
    BY <1>2 DEF FrameFits
  <2>3. ASSUME NEW i \in 1..Len(stack'), NEW x, x = stack'[i]
        PROVE  FrameFits(x, i)'
    <3>1. CASE i = Len(rest) + 1
      <4>1. x = f
        BY <2>1, <2>3, <3>1
      <4> QED BY <1>2, <4>1 DEF FrameFits
    <3>2. CASE i # Len(rest) + 1
      <4>1. i \in 1..Len(rest) /\ x \in {rest[i]}
        BY <2>1, <2>3, <3>2
      <4> QED BY <4>1
    <3> QED BY <3>1, <3>2
  <2> QED BY <2>1, <2>3 DEF GroupFramesFit
<1> QED BY <1>1, <1>2

\* What fits goes on fitting when a group lists less.
LEMMA LessensFits ==
  ASSUME GroupTypes, NEW g \in Groups, Lessens(g), UNCHANGED <<set, teams>>,
         NEW f \in GroupFrames, NEW i, FrameFits(f, i)
  PROVE  FrameFits(f, i)'
<1>1. \A h \in Groups : /\ \A id : Lists(players'[h], id) => Lists(players[h], id)
                        /\ \A id : Single(players[h], id) => Single(players'[h], id)
  BY DEF Lessens
<1>2. CASE f.op = "sweep"
  <2>1. f.list \in Seq(Groups) /\ f.ids \in SUBSET Ids /\ f.doubled \in SUBSET Groups /\ f.at \in Nat
    BY <1>2, FrameKinds
  <2> DEFINE over == G!Groupwise(f)
  <2>2. over \in Seq(Groups) /\ G!Groupwise(f)' = over
    BY <2>1 DEF G!Groupwise, GroupTypes
  <2>3. SweepFits(f)
    BY <1>2 DEF FrameFits
  <2> HIDE DEF over
  <2>4. /\ (\E id \in Ids : f.ids = {id}) /\ f.at <= Len(over)
        /\ \A k \in 1..f.at, id \in f.ids : Lists(players[over[k]], id) => over[k] \in f.doubled
        /\ \A h \in Groups \ f.doubled, id \in f.ids : Single(players[h], id)
    BY <2>3 DEF SweepFits, over
  <2>5. \A k \in 1..f.at : over[k] \in Groups
    BY <2>1, <2>2, <2>4
  <2>6. SweepFits(f)'
    BY <1>1, <2>2, <2>4, <2>5 DEF SweepFits
  <2> QED BY <1>2, <2>6 DEF FrameFits
<1>3. CASE f.op = "enter"
  <2>1. f.id \in Ids /\ f.group \in Groups /\ f.others \in SUBSET Groups
    BY <1>3, FrameKinds
  <2>2. i = 1 /\ EnterFits(f) /\ teams \subseteq Groups
    BY <1>3 DEF FrameFits, GroupTypes
  <2>3. EnterFits(f)'
    BY <1>1, <2>2 DEF EnterFits
  <2> QED BY <1>3, <2>2, <2>3 DEF FrameFits
<1>4. CASE f.op \notin {"sweep", "enter"}
  BY <1>4 DEF FrameFits
<1> QED BY <1>2, <1>3, <1>4

LEMMA LessensTeams ==
  ASSUME GroupTypes, NEW g \in Groups, Lessens(g), UNCHANGED teams, OneTeam
  PROVE  OneTeam'
<1>1. \A h \in Groups : /\ \A id : Lists(players'[h], id) => Lists(players[h], id)
                        /\ \A id : Single(players[h], id) => Single(players'[h], id)
  BY DEF Lessens
<1>2. teams \subseteq Groups
  BY DEF GroupTypes
<1> QED BY <1>1, <1>2 DEF OneTeam

\* What the frames below the top are worth is left to them.
LEMMA FitsIs ==
  ASSUME GroupsInv
  PROVE  \A i \in 1..Len(stack) : \A f \in {stack[i]} : FrameFits(f, i) /\ f \in GroupFrames
BY StackIs DEF GroupsInv, GroupFramesFit

\* An operation on g that goes on under the stack `rest`.
LEMMA ChangesKeep ==
  ASSUME GroupsInv, NEW g \in Groups, UNCHANGED <<set, attached, teams, watched, seen>>,
         players' \in [Groups -> Seq(G!Entries)],
         index' = [h \in Groups |-> G!Indexed(players'[h])],
         \A h \in Groups \ {g} : players'[h] = players[h],
         OneTeam',
         NEW rest \in Seq(GroupFrames), Len(rest) = Len(stack),
         \A i \in 1..Len(stack) : Wakes(stack[i]) => Wakes(rest[i]),
         \A i \in 1..Len(stack) : \A f \in {rest[i]} : FrameFits(f, i)',
         \/ UNCHANGED <<players, index>> /\ stack' = rest
         \/ stack' = Append(rest, G!Publication(g))
         \/ \E n \in Int \ {0} : stack' = Append(rest, G!Announcement(g, n))
  PROVE  GroupsInv'
<1>1. \/ UNCHANGED <<players, index>> /\ stack' = rest
      \/ \E f \in GroupFrames : /\ f.op \in {"publish", "announce", "purge"}
                                /\ g \in attached => Wakes(f)
                                /\ stack' = Append(rest, f)
  <2>1. ASSUME NEW n \in Int \ {0}, stack' = Append(rest, G!Announcement(g, n))
        PROVE  \E f \in GroupFrames : /\ f.op \in {"publish", "announce", "purge"}
                                      /\ g \in attached => Wakes(f)
                                      /\ stack' = Append(rest, f)
    BY <2>1, AnnouncementIs
  <2>2. G!Publication(g) \in GroupFrames /\ G!Publication(g).op = "publish"
        /\ (g \in attached => Wakes(G!Publication(g)))
    BY PublicationIs
  <2> QED BY <2>1, <2>2
<1>2. WatcherIsCalled'
  <2>1. GroupTypes /\ WatcherIsCalled
    BY DEF GroupsInv
  <2>2. \/ UNCHANGED <<players, index>> /\ stack' = rest
        \/ \E f \in GroupFrames : (g \in attached => Wakes(f)) /\ stack' = Append(rest, f)
    BY <1>1
  <2> QED BY <2>1, <2>2, WatcherAfter
<1>3. stack' \in Seq(GroupFrames) /\ GroupFramesFit'
  <2>1. \/ stack' = rest
        \/ \E f \in GroupFrames : f.op \in {"publish", "announce", "purge"} /\ stack' = Append(rest, f)
    BY <1>1
  <2> QED BY <2>1, FramesAfter
<1>4. GroupTypes'
  <2>1. attached' = G!ToSet(set)' /\ G!IsInjective(set)'
    BY DEF GroupsInv, GroupTypes, G!ToSet, G!IsInjective
  <2> QED BY <1>3, <2>1 DEF GroupsInv, GroupTypes
<1> QED BY <1>2, <1>3, <1>4 DEF GroupsInv

\* An operation that takes players out of g.
LEMMA LessensKeeps ==
  ASSUME GroupsInv, NEW g \in Groups, Lessens(g), UNCHANGED <<set, attached, teams, watched, seen>>,
         NEW rest \in Seq(GroupFrames), Len(rest) = Len(stack),
         \A i \in 1..Len(stack) : Wakes(stack[i]) => Wakes(rest[i]),
         \A i \in 1..Len(stack) : \A f \in {rest[i]} : FrameFits(f, i)',
         \/ UNCHANGED <<players, index>> /\ stack' = rest
         \/ stack' = Append(rest, G!Publication(g))
         \/ \E n \in Int \ {0} : stack' = Append(rest, G!Announcement(g, n))
  PROVE  GroupsInv'
<1>1. OneTeam'
  BY LessensTeams DEF GroupsInv
<1>2. /\ players' \in [Groups -> Seq(G!Entries)]
      /\ index' = [h \in Groups |-> G!Indexed(players'[h])]
      /\ \A h \in Groups \ {g} : players'[h] = players[h]
  BY DEF Lessens
<1> QED BY <1>1, <1>2, ChangesKeep

\* Such an operation at rest, or called by a callback.
LEMMA LessensCalled ==
  ASSUME GroupsInv, NEW g \in Groups, Lessens(g), UNCHANGED <<set, attached, teams, watched, seen>>,
         \/ UNCHANGED <<players, index>> /\ stack' = stack
         \/ stack' = Append(stack, G!Publication(g))
         \/ \E n \in Int \ {0} : stack' = Append(stack, G!Announcement(g, n))
  PROVE  GroupsInv'
<1>1. stack \in Seq(GroupFrames)
  BY StackIs DEF GroupsInv
<1>2. \A i \in 1..Len(stack) : \A f \in {stack[i]} : FrameFits(f, i)'
  <2> DEFINE q == stack
  <2> SUFFICES ASSUME NEW i \in 1..Len(q), NEW f \in {q[i]} PROVE FrameFits(f, i)'
    OBVIOUS
  <2>1. f \in GroupFrames /\ FrameFits(f, i)
    BY FitsIs
  <2> QED BY <2>1, LessensFits DEF GroupsInv
<1> QED BY <1>1, <1>2, LessensKeeps

\* The innermost frame takes a step of its loop, in which g loses a player.
LEMMA LoopKeeps ==
  ASSUME GroupsInv, stack # <<>>, ~Wakes(stack[Len(stack)]),
         NEW g \in Groups, Lessens(g), UNCHANGED <<set, attached, teams, watched, seen>>,
         NEW f \in GroupFrames, \A i \in {Len(stack)}, x \in {f} : FrameFits(x, i)',
         NEW rest, rest = [stack EXCEPT ![Len(stack)] = f],
         \/ UNCHANGED <<players, index>> /\ stack' = rest
         \/ stack' = Append(rest, G!Publication(g))
         \/ \E n \in Int \ {0} : stack' = Append(rest, G!Announcement(g, n))
  PROVE  GroupsInv'
<1>1. /\ rest \in Seq(GroupFrames) /\ Len(rest) = Len(stack)
      /\ Len(stack) \in 1..Len(stack) /\ Len(stack) \in Nat
      /\ \A i \in 1..Len(stack) : rest[i] = IF i = Len(stack) THEN f ELSE stack[i]
  BY StackIs, EditFacts DEF GroupsInv
<1>2. \A i \in 1..Len(stack) : Wakes(stack[i]) => Wakes(rest[i])
  <2> SUFFICES ASSUME NEW i \in 1..Len(stack), Wakes(stack[i]) PROVE Wakes(rest[i])
    OBVIOUS
  <2>1. i # Len(stack)
    OBVIOUS
  <2>2. rest[i] = stack[i]
    BY <1>1, <2>1
  <2> QED BY <2>2
<1>3. \A i \in 1..Len(stack) : \A x \in {rest[i]} : FrameFits(x, i)'
  <2> DEFINE q == stack
  <2>1. \A i \in 1..Len(q) : i # Len(q) => \A x \in {q[i]} : FrameFits(x, i)'
    <3> SUFFICES ASSUME NEW i \in 1..Len(q), NEW x \in {q[i]} PROVE FrameFits(x, i)'
      OBVIOUS
    <3>1. x \in GroupFrames /\ FrameFits(x, i)
      BY FitsIs
    <3> QED BY <3>1, LessensFits DEF GroupsInv
  <2> SUFFICES ASSUME NEW i \in 1..Len(q), NEW x \in {rest[i]} PROVE FrameFits(x, i)'
    OBVIOUS
  <2>2. CASE i = Len(q)
    <3>1. x \in {f} /\ i \in {Len(stack)}
      BY <1>1, <2>2
    <3> QED BY <3>1
  <2>3. CASE i # Len(q)
    <3>1. x \in {q[i]}
      BY <1>1, <2>3
    <3> QED BY <2>1, <2>3, <3>1
  <2> QED BY <2>2, <2>3
<1> QED BY <1>1, <1>2, <1>3, LessensKeeps

\* The frame at the top of the stack.
LEMMA TopIs ==
  ASSUME GroupsInv, NEW t, stack # <<>>, t = G!Top
  PROVE  /\ t \in GroupFrames /\ FrameFits(t, Len(stack)) /\ t = stack[Len(stack)]
         /\ Len(stack) \in 1..Len(stack)
<1>1. t = stack[Len(stack)] /\ t \in GroupFrames /\ Len(stack) \in 1..Len(stack)
  BY StackIs DEF GroupsInv
<1> QED BY <1>1, FitsIs

LEMMA SweepNextKeeps ==
  ASSUME GroupsInv, G!SweepNext
  PROVE  GroupsInv'
<1>1. PICK t : t = G!Top
  OBVIOUS
<1>2. stack # <<>> /\ t.op = "sweep" /\ t.at < Len(G!Groupwise(t))
  BY <1>1 DEF G!SweepNext, G!In
<1>3. /\ t \in GroupFrames /\ FrameFits(t, Len(stack)) /\ t = stack[Len(stack)]
      /\ Len(stack) \in 1..Len(stack)
  BY <1>1, <1>2, TopIs
<1>4. /\ t.at \in Nat /\ t.list \in Seq(Groups) /\ t.ids \in SUBSET Ids
      /\ t.doubled \in SUBSET Groups /\ t.frozen \in BOOLEAN
      /\ t \in [op : {"sweep"}, ids : SUBSET Ids, at : Nat, frozen : BOOLEAN,
                 list : Seq(Groups), runs : BOOLEAN, doubled : SUBSET Groups]
  BY <1>2, <1>3, FrameKinds
<1> DEFINE over == G!Groupwise(t)
           k == t.at + 1
           g == over[k]
           f == [t EXCEPT !.at = t.at + 1]
           rest == [stack EXCEPT ![Len(stack)] = f]
<1>5. over \in Seq(Groups) /\ over' = over /\ k \in 1..Len(over) /\ g \in Groups
  <2>1. over \in Seq(Groups)
    BY <1>4 DEF G!Groupwise, GroupsInv, GroupTypes
  <2>2. over' = over
    BY DEF G!Groupwise, G!SweepNext
  <2> HIDE DEF over
  <2>3. k \in 1..Len(over)
    <3>1. Len(over) \in Nat /\ t.at < Len(over)
      BY <1>2, <2>1 DEF over
    <3> QED BY <1>4, <3>1
  <2> QED BY <2>1, <2>2, <2>3
<1>6. f \in GroupFrames /\ f.op = "sweep" /\ f.ids = t.ids /\ f.doubled = t.doubled /\ f.at = k
      /\ f.frozen = t.frozen /\ f.list = t.list
  <2>1. f \in [op : {"sweep"}, ids : SUBSET Ids, at : Nat, frozen : BOOLEAN,
               list : Seq(Groups), runs : BOOLEAN, doubled : SUBSET Groups]
    BY <1>4
  <2> QED BY <1>4, <2>1 DEF GroupFrames
<1>7. PICK id \in t.ids : G!DeleteFrom(g, id, rest)
  <2>1. [stack EXCEPT ![Len(stack)].at = @ + 1] = rest
    BY <1>3
  <2> HIDE DEF rest
  <2> QED BY <1>1, <2>1 DEF G!SweepNext
<1> HIDE DEF rest
<1>8. /\ Lessens(g)
      /\ Single(players[g], id) => ~Lists(players'[g], id)
      /\ \/ UNCHANGED <<players, index>> /\ stack' = rest
         \/ stack' = Append(rest, G!Publication(g))
  <2> HIDE DEF g
  <2> QED BY <1>5, <1>7, DeleteIs DEF GroupsInv
<1>9. \A h \in Groups : /\ \A x : Lists(players'[h], x) => Lists(players[h], x)
                        /\ \A x : Single(players[h], x) => Single(players'[h], x)
  BY <1>8 DEF Lessens
<1>10. /\ t.ids = {id} /\ t.at <= Len(over)
       /\ \A j \in 1..t.at, x \in t.ids : Lists(players[over[j]], x) => over[j] \in t.doubled
       /\ \A h \in Groups \ t.doubled, x \in t.ids : Single(players[h], x)
  BY <1>2, <1>3, <1>7 DEF FrameFits, SweepFits
<1>11. \A x \in {f} : SweepFits(x)'
  <2> SUFFICES ASSUME NEW x, x = f PROVE SweepFits(x)'
    OBVIOUS
  <2>0. x.ids = t.ids /\ x.doubled = t.doubled /\ x.at = k /\ x.frozen = t.frozen /\ x.list = t.list
    BY <1>6
  <2>1. G!Groupwise(x)' = over
    BY <1>5, <2>0 DEF G!Groupwise
  <2> HIDE DEF over, f
  <2>2. \A j \in 1..k, y \in t.ids : Lists(players'[over[j]], y) => over[j] \in t.doubled
    <3> SUFFICES ASSUME NEW j \in 1..k, Lists(players'[over[j]], id), over[j] \notin t.doubled
                 PROVE  FALSE
      BY <1>10
    <3>1. over[j] \in Groups
      BY <1>4, <1>5
    <3>2. CASE j = k
      BY <1>8, <1>10, <3>1, <3>2
    <3>3. CASE j # k
      <4>1. j \in 1..t.at
        BY <1>4, <3>3
      <4> QED BY <1>9, <1>10, <3>1, <4>1
    <3> QED BY <3>2, <3>3
  <2>3. \A h \in Groups \ t.doubled, y \in t.ids : Single(players'[h], y)
    BY <1>9, <1>10
  <2>4. k <= Len(over) /\ id \in Ids
    BY <1>4, <1>5, <1>7
  <2> QED BY <1>10, <2>0, <2>1, <2>2, <2>3, <2>4 DEF SweepFits
<1>12. \A i \in {Len(stack)}, x \in {f} : FrameFits(x, i)'
  <2> SUFFICES ASSUME NEW i, NEW x, x = f PROVE FrameFits(x, i)'
    OBVIOUS
  <2>1. x.op = "sweep"
    BY <1>6
  <2> QED BY <1>11, <2>1 DEF FrameFits
<1>13. ~Wakes(stack[Len(stack)])
  BY <1>2, <1>3 DEF Wakes
<1>14. UNCHANGED <<set, attached, teams, watched, seen>>
  BY DEF G!SweepNext
<1> HIDE DEF g, f
<1> QED BY <1>2, <1>5, <1>6, <1>8, <1>12, <1>13, <1>14, LoopKeeps DEF rest

LEMMA PurgeNextKeeps ==
  ASSUME GroupsInv, G!PurgeNext
  PROVE  GroupsInv'
<1>1. PICK t : t = G!Top
  OBVIOUS
<1>2. stack # <<>> /\ t.op = "purge" /\ t.at < Len(G!Groupwise(t))
  BY <1>1 DEF G!PurgeNext, G!In
<1>3. t \in GroupFrames /\ t = stack[Len(stack)] /\ Len(stack) \in 1..Len(stack)
  BY <1>1, <1>2, TopIs
<1>4. t \in [op : {"purge"}, ids : SUBSET Ids, at : Nat, frozen : BOOLEAN,
             list : Seq(Groups), runs : BOOLEAN]
  BY <1>2, <1>3, FrameKinds
<1> DEFINE over == G!Groupwise(t)
           g == over[t.at + 1]
           f == [t EXCEPT !.at = t.at + 1]
           rest == [stack EXCEPT ![Len(stack)] = f]
<1>5. g \in Groups
  <2>1. over \in Seq(Groups)
    BY <1>4 DEF G!Groupwise, GroupsInv, GroupTypes
  <2>2. Len(over) \in Nat /\ t.at < Len(over) /\ t.at \in Nat
    BY <1>2, <1>4, <2>1
  <2> HIDE DEF over
  <2> QED BY <2>1, <2>2
<1>6. f \in GroupFrames /\ f.op = "purge"
  <2>1. f \in [op : {"purge"}, ids : SUBSET Ids, at : Nat, frozen : BOOLEAN,
               list : Seq(Groups), runs : BOOLEAN]
    BY <1>4
  <2> QED BY <1>4, <2>1 DEF GroupFrames
<1>7. G!RemoveFrom(g, t.ids, rest)
  <2>1. [stack EXCEPT ![Len(stack)].at = @ + 1] = rest
    BY <1>3
  <2> HIDE DEF rest
  <2> QED BY <1>1, <2>1 DEF G!PurgeNext
<1> HIDE DEF rest
<1>8. /\ Lessens(g)
      /\ \/ UNCHANGED <<players, index>> /\ stack' = rest
         \/ \E n \in Int \ {0} : stack' = Append(rest, G!Announcement(g, n))
  <2> HIDE DEF g
  <2> QED BY <1>5, <1>7, RemoveIs DEF GroupsInv
<1>9. \A i \in {Len(stack)}, x \in {f} : FrameFits(x, i)'
  <2> SUFFICES ASSUME NEW i, NEW x, x = f PROVE FrameFits(x, i)'
    OBVIOUS
  <2>1. x.op = "purge"
    BY <1>6
  <2> QED BY <2>1 DEF FrameFits
<1>10. ~Wakes(stack[Len(stack)])
  BY <1>2, <1>3 DEF Wakes
<1>11. UNCHANGED <<set, attached, teams, watched, seen>>
  BY DEF G!PurgeNext
<1> HIDE DEF g, f
<1> QED BY <1>2, <1>5, <1>6, <1>8, <1>9, <1>10, <1>11, LoopKeeps DEF rest

\* The frame of a player who enters a team: nothing else is under way.
LEMMA EnterIs ==
  ASSUME GroupsInv, NEW t, stack # <<>>, t = G!Top, t.op = "enter"
  PROVE  /\ t \in GroupFrames /\ t = stack[Len(stack)] /\ Len(stack) = 1 /\ EnterFits(t)
         /\ t \in [op : {"enter"}, id : Ids, group : Groups, already : BOOLEAN,
                   others : SUBSET Groups, joined : BOOLEAN, runs : BOOLEAN]
         /\ teams = Groups
<1>1. t \in GroupFrames /\ FrameFits(t, Len(stack)) /\ t = stack[Len(stack)]
  BY TopIs
<1>2. Len(stack) = 1 /\ EnterFits(t)
  BY <1>1 DEF FrameFits
<1>3. teams = Groups
  BY <1>2 DEF EnterFits, GroupsInv, GroupTypes
<1> QED BY <1>1, <1>2, <1>3, FrameKinds

LEMMA LeaveOtherKeeps ==
  ASSUME GroupsInv, NEW g \in Groups, G!LeaveOther(g)
  PROVE  GroupsInv'
<1>1. PICK t : t = G!Top
  OBVIOUS
<1>2. stack # <<>> /\ t.op = "enter" /\ g \in t.others
  BY <1>1 DEF G!LeaveOther, G!In
<1>3. /\ t \in GroupFrames /\ t = stack[Len(stack)] /\ Len(stack) = 1 /\ EnterFits(t)
      /\ t \in [op : {"enter"}, id : Ids, group : Groups, already : BOOLEAN,
                others : SUBSET Groups, joined : BOOLEAN, runs : BOOLEAN]
      /\ teams = Groups
  BY <1>1, <1>2, EnterIs
<1> DEFINE f == [t EXCEPT !.others = t.others \ {g}]
           rest == [stack EXCEPT ![Len(stack)] = f]
<1>4. f \in GroupFrames /\ f.op = "enter" /\ f.id = t.id /\ f.group = t.group
      /\ f.others = t.others \ {g}
  <2>1. f \in [op : {"enter"}, id : Ids, group : Groups, already : BOOLEAN,
               others : SUBSET Groups, joined : BOOLEAN, runs : BOOLEAN]
    BY <1>3
  <2> QED BY <1>3, <2>1 DEF GroupFrames
<1>5. G!DeleteFrom(g, t.id, rest)
  <2>1. [stack EXCEPT ![Len(stack)].others = @ \ {g}] = rest
    BY <1>3
  <2> HIDE DEF rest
  <2> QED BY <1>1, <2>1 DEF G!LeaveOther
<1> HIDE DEF rest
<1>6. /\ Lessens(g)
      /\ Single(players[g], t.id) => ~Lists(players'[g], t.id)
      /\ \/ UNCHANGED <<players, index>> /\ stack' = rest
         \/ stack' = Append(rest, G!Publication(g))
  BY <1>5, DeleteIs DEF GroupsInv
<1>7. \A h \in Groups : \A x : Lists(players'[h], x) => Lists(players[h], x)
  BY <1>6 DEF Lessens
<1>8. Single(players[g], t.id)
  BY <1>3 DEF GroupsInv, OneTeam
<1>9. UNCHANGED <<set, attached, teams, watched, seen>>
  BY DEF G!LeaveOther
<1>10. \A i \in {Len(stack)}, x \in {f} : FrameFits(x, i)'
  <2> SUFFICES ASSUME NEW i, i = 1, NEW x, x = f PROVE FrameFits(x, i)'
    BY <1>3
  <2>1. x.op = "enter" /\ x.id = t.id /\ x.group = t.group /\ x.others = t.others \ {g}
    BY <1>4
  <2>2. /\ t.group \in teams
        /\ \A h \in teams \ {t.group} : h \in t.others \/ ~Lists(players[h], t.id)
    BY <1>3 DEF EnterFits
  <2> HIDE DEF f
  <2>3. \A h \in teams' \ {t.group} : h \in t.others \ {g} \/ ~Lists(players'[h], t.id)
    BY <1>3, <1>6, <1>7, <1>8, <1>9, <2>2
  <2>4. EnterFits(x)'
    BY <1>9, <2>1, <2>2, <2>3 DEF EnterFits
  <2> QED BY <2>1, <2>4 DEF FrameFits
<1>11. ~Wakes(stack[Len(stack)])
  BY <1>2, <1>3 DEF Wakes
<1> HIDE DEF f
<1> QED BY <1>2, <1>4, <1>6, <1>9, <1>10, <1>11, LoopKeeps DEF rest

LEMMA DeleteKeeps ==
  ASSUME GroupsInv, NEW g \in Groups, NEW id \in Ids, G!Delete(g, id)
  PROVE  GroupsInv'
<1>1. G!DeleteFrom(g, id, stack) /\ UNCHANGED <<set, attached, teams, watched, seen>>
  BY DEF G!Delete
<1>2. /\ Lessens(g)
      /\ \/ UNCHANGED <<players, index>> /\ stack' = stack
         \/ stack' = Append(stack, G!Publication(g))
  BY <1>1, DeleteIs DEF GroupsInv
<1> QED BY <1>1, <1>2, LessensCalled

LEMMA RemoveWhereKeeps ==
  ASSUME GroupsInv, NEW g \in Groups, NEW ids, G!RemoveWhere(g, ids)
  PROVE  GroupsInv'
<1>1. G!RemoveFrom(g, ids, stack) /\ UNCHANGED <<set, attached, teams, watched, seen>>
  BY DEF G!RemoveWhere
<1>2. /\ Lessens(g)
      /\ \/ UNCHANGED <<players, index>> /\ stack' = stack
         \/ \E n \in Int \ {0} : stack' = Append(stack, G!Announcement(g, n))
  BY <1>1, RemoveIs DEF GroupsInv
<1> QED BY <1>1, <1>2, LessensCalled

LEMMA ClearKeeps ==
  ASSUME GroupsInv, NEW g \in Groups, G!Clear(g)
  PROVE  GroupsInv'
<1>1. /\ players[g] # <<>> /\ players' = [players EXCEPT ![g] = <<>>]
      /\ index' = [index EXCEPT ![g] = G!Indexed(<<>>)]
      /\ stack' = Append(stack, G!Announcement(g, Len(players[g])))
      /\ UNCHANGED <<set, attached, teams, watched, seen>>
  BY DEF G!Clear
<1>2. <<>> \in Seq(G!Entries) /\ Len(<<>>) = 0
  OBVIOUS
<1>3. Lessens(g)
  <2>1. /\ players' \in [Groups -> Seq(G!Entries)]
        /\ index' = [h \in Groups |-> G!Indexed(players'[h])]
        /\ players'[g] = <<>> /\ \A h \in Groups \ {g} : players'[h] = players[h]
    BY <1>1, <1>2, ReplacesIs DEF GroupsInv
  <2>2. \A id : ~Lists(<<>>, id) /\ Single(<<>>, id)
    BY <1>2 DEF Lists, Single
  <2> QED BY <2>1, <2>2 DEF Lessens
<1>4. Len(players[g]) \in Int \ {0}
  <2>1. players[g] \in Seq(G!Entries)
    BY DEF GroupsInv, GroupTypes
  <2> QED BY <1>1, <2>1
<1> QED BY <1>1, <1>3, <1>4, LessensCalled

\* Nobody who is being swept out of the groups is added to one, but one who enters a team.
LEMMA AddFits ==
  ASSUME GroupTypes, NEW g \in Groups, NEW id, UNCHANGED <<set, teams>>,
         \A h \in Groups \ {g} : players'[h] = players[h],
         \A x : x # id => (Lists(players'[g], x) <=> Lists(players[g], x)),
         \A x : Single(players[g], x) => Single(players'[g], x),
         NEW f \in GroupFrames, NEW i, FrameFits(f, i), f.op # "enter",
         f.op = "sweep" => id \notin f.ids
  PROVE  FrameFits(f, i)'
<1>1. CASE f.op = "sweep"
  <2>1. f.list \in Seq(Groups) /\ f.ids \in SUBSET Ids /\ f.doubled \in SUBSET Groups /\ f.at \in Nat
    BY <1>1, FrameKinds
  <2> DEFINE over == G!Groupwise(f)
  <2>2. over \in Seq(Groups) /\ G!Groupwise(f)' = over
    BY <2>1 DEF G!Groupwise, GroupTypes
  <2>3. SweepFits(f)
    BY <1>1 DEF FrameFits
  <2> HIDE DEF over
  <2>4. /\ (\E x \in Ids : f.ids = {x}) /\ f.at <= Len(over)
        /\ \A k \in 1..f.at, x \in f.ids : Lists(players[over[k]], x) => over[k] \in f.doubled
        /\ \A h \in Groups \ f.doubled, x \in f.ids : Single(players[h], x)
    BY <2>3 DEF SweepFits, over
  <2>5. \A k \in 1..f.at : over[k] \in Groups
    BY <2>1, <2>2, <2>4
  <2>6. \A x \in f.ids : x # id
    BY <1>1
  <2>7. \A h \in Groups, x \in f.ids : /\ Lists(players'[h], x) => Lists(players[h], x)
                                       /\ Single(players[h], x) => Single(players'[h], x)
    BY <2>6
  <2>8. SweepFits(f)'
    BY <2>2, <2>4, <2>5, <2>7 DEF SweepFits
  <2> QED BY <1>1, <2>8 DEF FrameFits
<1>2. CASE f.op # "sweep"
  BY <1>2 DEF FrameFits
<1> QED BY <1>1, <1>2

\* Who is being removed from every group.
LEMMA SweepingIs ==
  ASSUME GroupTypes, NEW i \in 1..Len(stack), NEW f \in {stack[i]}, f.op = "sweep"
  PROVE  f.ids \subseteq G!Sweeping
<1>1. i \in DOMAIN stack
  BY DEF GroupTypes
<1> QED BY <1>1 DEF G!Sweeping

LEMMA AddKeeps ==
  ASSUME GroupsInv, NEW g \in Groups, NEW id \in Ids, G!Add(g, id)
  PROVE  GroupsInv'
<1>1. /\ id \notin G!Sweeping /\ ~G!OtherTeam(g, id)
      /\ G!AddTo(g, [id |-> id, n |-> 1], stack)
      /\ UNCHANGED <<set, attached, teams, watched, seen>>
  BY DEF G!Add
<1>2. /\ players' \in [Groups -> Seq(G!Entries)]
      /\ index' = [h \in Groups |-> G!Indexed(players'[h])]
      /\ \A h \in Groups \ {g} : players'[h] = players[h]
      /\ \A i : i # id => (Lists(players'[g], i) <=> Lists(players[g], i))
      /\ \A i : Single(players[g], i) => Single(players'[g], i)
      /\ \/ UNCHANGED <<players, index>> /\ stack' = stack
         \/ stack' = Append(stack, G!Publication(g))
  BY <1>1, AddIs DEF GroupsInv
<1>3. OneTeam'
  <2>1. teams \subseteq Groups /\ teams' = teams
    BY <1>1 DEF GroupsInv, GroupTypes
  <2>2. \A h \in teams \ {g} : ~Lists(players[h], id)
    BY <1>1, <2>1, LookupIs DEF G!OtherTeam, GroupsInv
  <2>3. \A x \in Ids : \A h, k \in teams : Lists(players'[h], x) /\ Lists(players'[k], x) => h = k
    <3> SUFFICES ASSUME NEW x \in Ids, NEW h \in teams, NEW k \in teams,
                        Lists(players'[h], x), Lists(players'[k], x)
                 PROVE  h = k
      OBVIOUS
    <3>1. CASE x = id
      BY <1>2, <2>1, <2>2, <3>1
    <3>2. CASE x # id
      <4>1. Lists(players[h], x) /\ Lists(players[k], x)
        BY <1>2, <2>1, <3>2
      <4> QED BY <4>1 DEF GroupsInv, OneTeam
    <3> QED BY <3>1, <3>2
  <2>4. \A h \in teams, x \in Ids : Single(players'[h], x)
    BY <1>2, <2>1 DEF GroupsInv, OneTeam
  <2> QED BY <2>1, <2>3, <2>4 DEF OneTeam
<1>4. \A i \in 1..Len(stack) : \A f \in {stack[i]} : FrameFits(f, i)'
  <2> DEFINE q == stack
  <2> SUFFICES ASSUME NEW i \in 1..Len(q), NEW f \in {q[i]} PROVE FrameFits(f, i)'
    OBVIOUS
  <2>1. f \in GroupFrames /\ FrameFits(f, i)
    BY FitsIs
  <2>2. CASE f.op # "enter"
    <3>1. f.op = "sweep" => id \notin f.ids
      BY <1>1, SweepingIs DEF GroupsInv
    <3> QED BY <1>1, <1>2, <2>1, <2>2, <3>1, AddFits DEF GroupsInv
  <2>3. CASE f.op = "enter"
    <3>1. i \in DOMAIN stack
      BY DEF GroupsInv, GroupTypes
    <3>2. f.id # id
      BY <1>1, <2>3, <3>1 DEF G!OtherTeam
    <3>3. i = 1 /\ EnterFits(f) /\ teams \subseteq Groups
      BY <2>1, <2>3 DEF FrameFits, GroupsInv, GroupTypes
    <3>4. \A h \in teams : Lists(players'[h], f.id) => Lists(players[h], f.id)
      BY <1>2, <3>2, <3>3
    <3>5. EnterFits(f)'
      BY <1>1, <3>3, <3>4 DEF EnterFits
    <3> QED BY <2>3, <3>3, <3>5 DEF FrameFits
  <2> QED BY <2>2, <2>3
<1>5. stack \in Seq(GroupFrames)
  BY StackIs DEF GroupsInv
<1> QED BY <1>1, <1>2, <1>3, <1>4, <1>5, ChangesKeep

LEMMA EnterTeamKeeps ==
  ASSUME GroupsInv, G!EnterTeam
  PROVE  GroupsInv'
<1>1. PICK t : t = G!Top
  OBVIOUS
<1>2. stack # <<>> /\ t.op = "enter" /\ t.others = {}
  BY <1>1 DEF G!EnterTeam, G!In
<1>3. /\ t \in GroupFrames /\ t = stack[Len(stack)] /\ Len(stack) = 1 /\ EnterFits(t)
      /\ t \in [op : {"enter"}, id : Ids, group : Groups, already : BOOLEAN,
                others : SUBSET Groups, joined : BOOLEAN, runs : BOOLEAN]
      /\ teams = Groups
  BY <1>1, <1>2, EnterIs
<1> DEFINE f == [t EXCEPT !.joined = TRUE]
           rest == [stack EXCEPT ![Len(stack)] = f]
           g == t.group
           id == t.id
<1>4. f \in GroupFrames /\ f.op = "enter" /\ f.id = t.id /\ f.group = t.group /\ f.others = t.others
  <2>1. f \in [op : {"enter"}, id : Ids, group : Groups, already : BOOLEAN,
               others : SUBSET Groups, joined : BOOLEAN, runs : BOOLEAN]
    BY <1>3
  <2> QED BY <1>3, <2>1 DEF GroupFrames
<1>5. G!AddTo(g, [id |-> id, n |-> 1], rest) /\ UNCHANGED <<set, attached, teams, watched, seen>>
  <2>1. [stack EXCEPT ![Len(stack)].joined = TRUE] = rest
    BY <1>3
  <2> HIDE DEF rest
  <2> QED BY <1>1, <2>1 DEF G!EnterTeam
<1>6. g \in Groups /\ id \in Ids
  BY <1>3
<1>7. /\ players' \in [Groups -> Seq(G!Entries)]
      /\ index' = [h \in Groups |-> G!Indexed(players'[h])]
      /\ \A h \in Groups \ {g} : players'[h] = players[h]
      /\ \A i : i # id => (Lists(players'[g], i) <=> Lists(players[g], i))
      /\ \A i : Single(players[g], i) => Single(players'[g], i)
      /\ \/ UNCHANGED <<players, index>> /\ stack' = rest
         \/ stack' = Append(rest, G!Publication(g))
  <2> HIDE DEF rest, g, id
  <2> QED BY <1>5, <1>6, AddIs DEF GroupsInv
<1>8. \A h \in Groups \ {g} : ~Lists(players[h], id)
  BY <1>2, <1>3 DEF EnterFits
<1>9. OneTeam'
  <2>1. teams' = Groups
    BY <1>3, <1>5
  <2>2. \A x \in Ids : \A h, k \in Groups : Lists(players[h], x) /\ Lists(players[k], x) => h = k
    BY <1>3 DEF GroupsInv, OneTeam
  <2>3. \A h \in Groups, x \in Ids : Single(players[h], x)
    BY <1>3 DEF GroupsInv, OneTeam
  <2> HIDE DEF g, id
  <2>4. \A x \in Ids : \A h, k \in Groups : Lists(players'[h], x) /\ Lists(players'[k], x) => h = k
    <3> SUFFICES ASSUME NEW x \in Ids, NEW h \in Groups, NEW k \in Groups,
                        Lists(players'[h], x), Lists(players'[k], x)
                 PROVE  h = k
      OBVIOUS
    <3>1. CASE x = id
      BY <1>7, <1>8, <3>1
    <3>2. CASE x # id
      <4>1. Lists(players[h], x) /\ Lists(players[k], x)
        BY <1>7, <3>2
      <4> QED BY <2>2, <4>1
    <3> QED BY <3>1, <3>2
  <2>5. \A h \in Groups, x \in Ids : Single(players'[h], x)
    BY <1>7, <2>3
  <2> QED BY <2>1, <2>4, <2>5 DEF OneTeam
<1>10. /\ rest \in Seq(GroupFrames) /\ Len(rest) = Len(stack)
       /\ \A i \in 1..Len(stack) : i = 1 /\ rest[i] = f
  BY <1>2, <1>3, <1>4, StackIs, EditFacts DEF GroupsInv
<1>11. \A i \in 1..Len(stack) : ~Wakes(stack[i])
  BY <1>2, <1>3 DEF Wakes
<1>12. \A i \in 1..Len(stack) : \A x \in {rest[i]} : FrameFits(x, i)'
  <2> DEFINE q == stack
  <2> SUFFICES ASSUME NEW i \in 1..Len(q), NEW x \in {rest[i]} PROVE FrameFits(x, i)'
    OBVIOUS
  <2>1. i = 1 /\ x.op = "enter" /\ x.id = id /\ x.group = g /\ x.others = t.others
    BY <1>4, <1>10
  <2> HIDE DEF rest, f, g, id
  <2>2. \A h \in Groups \ {g} : ~Lists(players'[h], id)
    BY <1>7, <1>8
  <2>3. EnterFits(x)'
    BY <1>3, <1>5, <1>6, <2>1, <2>2 DEF EnterFits
  <2> QED BY <2>1, <2>3 DEF FrameFits
<1> HIDE DEF rest, f, g, id
<1> QED BY <1>5, <1>6, <1>7, <1>9, <1>10, <1>11, <1>12, ChangesKeep

\* A step that only calls, returns or looks.
LEMMA StillKeeps ==
  ASSUME GroupsInv, UNCHANGED <<players, index, set, attached, teams>>,
         watched' \in BOOLEAN, seen' \subseteq Ids, stack' \in Seq(GroupFrames), WatcherIsCalled',
         \A i \in 1..Len(stack') : \A f \in {stack'[i]} : FrameFits(f, i)
  PROVE  GroupsInv'
<1>1. GroupTypes'
  <2>1. attached' = G!ToSet(set)' /\ G!IsInjective(set)'
    BY DEF GroupsInv, GroupTypes, G!ToSet, G!IsInjective
  <2> QED BY <2>1 DEF GroupsInv, GroupTypes
<1>2. OneTeam'
  BY DEF GroupsInv, OneTeam
<1>3. \A f, i : FrameFits(f, i) => FrameFits(f, i)'
  BY DEF FrameFits, SweepFits, EnterFits, G!Groupwise
<1>4. GroupFramesFit'
  BY <1>3 DEF GroupFramesFit
<1> QED BY <1>1, <1>2, <1>4 DEF GroupsInv

\* A watcher who is behind is still called if a frame that wakes it remains.
LEMMA WatcherStays ==
  ASSUME WatcherIsCalled, UNCHANGED <<index, set, attached, watched, seen>>,
         watched /\ (\E i \in 1..Len(stack) : Wakes(stack[i])) => \E i \in 1..Len(stack') : Wakes(stack'[i])
  PROVE  WatcherIsCalled'
<1>1. \A f : Wakes(f)' <=> Wakes(f)
  BY DEF Wakes
<1>2. G!SetIds' = G!SetIds
  BY DEF G!SetIds, G!ToSet
<1>3. watched' /\ seen' # G!SetIds' => watched /\ seen # G!SetIds
  BY <1>2
<1>4. watched' /\ seen' # G!SetIds' => \E i \in 1..Len(stack') : Wakes(stack'[i])
  BY <1>3 DEF WatcherIsCalled
<1>5. (\E i \in 1..Len(stack') : Wakes(stack'[i])) => (\E i \in 1..Len(stack) : Wakes(stack[i]))'
  BY DEF Wakes
<1> QED BY <1>4, <1>5 DEF WatcherIsCalled

\* Game code starts something.
LEMMA PushKeeps ==
  ASSUME GroupsInv, UNCHANGED <<players, index, set, attached, teams, watched, seen>>,
         NEW f \in GroupFrames, FrameFits(f, Len(stack) + 1), stack' = Append(stack, f)
  PROVE  GroupsInv'
<1>1. stack \in Seq(GroupFrames)
  BY StackIs DEF GroupsInv
<1>2. /\ stack' \in Seq(GroupFrames) /\ Len(stack') = Len(stack) + 1 /\ Len(stack) \in Nat
      /\ \A i \in 1..Len(stack) : stack'[i] = stack[i]
      /\ stack'[Len(stack) + 1] = f
  BY <1>1, PushFacts
<1>3. \A i \in 1..Len(stack') : \A x \in {stack'[i]} : FrameFits(x, i)
  <2> SUFFICES ASSUME NEW i \in 1..Len(stack'), NEW x, x = stack'[i] PROVE FrameFits(x, i)
    OBVIOUS
  <2>1. CASE i = Len(stack) + 1
    BY <1>2, <2>1
  <2>2. CASE i # Len(stack) + 1
    <3>1. i \in 1..Len(stack) /\ x \in {stack[i]}
      BY <1>2, <2>2
    <3> QED BY <3>1, FitsIs
  <2> QED BY <2>1, <2>2
<1>4. (\E i \in 1..Len(stack) : Wakes(stack[i])) => \E i \in 1..Len(stack') : Wakes(stack'[i])
  <2> SUFFICES ASSUME NEW i \in 1..Len(stack), Wakes(stack[i])
               PROVE  \E j \in 1..Len(stack') : Wakes(stack'[j])
    OBVIOUS
  <2>1. i \in 1..Len(stack') /\ stack'[i] = stack[i]
    BY <1>2
  <2> QED BY <2>1
<1>5. WatcherIsCalled'
  BY <1>4, WatcherStays DEF GroupsInv
<1> QED BY <1>2, <1>3, <1>5, StillKeeps DEF GroupsInv, GroupTypes

\* The innermost frame is over.
LEMMA PopKeeps ==
  ASSUME GroupsInv, UNCHANGED <<players, index, set, attached, teams, watched, seen>>,
         stack # <<>>, ~Wakes(stack[Len(stack)]), stack' = G!Front(stack)
  PROVE  GroupsInv'
<1>1. stack \in Seq(GroupFrames) /\ stack' = Front(stack)
  BY StackIs DEF GroupsInv
<1>2. /\ stack' \in Seq(GroupFrames) /\ Len(stack') = Len(stack) - 1 /\ Len(stack) \in 1..Len(stack)
      /\ \A i \in 1..Len(stack') : stack'[i] = stack[i] /\ i \in 1..Len(stack)
  BY <1>1, FrontFacts
<1>3. \A i \in 1..Len(stack') : \A x \in {stack'[i]} : FrameFits(x, i)
  <2> SUFFICES ASSUME NEW i \in 1..Len(stack'), NEW x, x = stack'[i] PROVE FrameFits(x, i)
    OBVIOUS
  <2>1. i \in 1..Len(stack) /\ x \in {stack[i]}
    BY <1>2
  <2> QED BY <2>1, FitsIs
<1>4. (\E i \in 1..Len(stack) : Wakes(stack[i])) => \E i \in 1..Len(stack') : Wakes(stack'[i])
  <2> SUFFICES ASSUME NEW i \in 1..Len(stack), Wakes(stack[i])
               PROVE  \E j \in 1..Len(stack') : Wakes(stack'[j])
    OBVIOUS
  <2>1. i # Len(stack)
    OBVIOUS
  <2>2. i \in 1..Len(stack') /\ stack'[i] = stack[i]
    BY <1>2, <2>1
  <2> QED BY <2>2
<1>5. WatcherIsCalled'
  BY <1>4, WatcherStays DEF GroupsInv
<1> QED BY <1>2, <1>3, <1>5, StillKeeps DEF GroupsInv, GroupTypes

\* The innermost frame goes on as f, with a publication on top or none.
LEMMA EditKeeps ==
  ASSUME GroupsInv, UNCHANGED <<players, index, set, attached, teams, watched>>, seen' \subseteq Ids,
         stack # <<>>, NEW f \in GroupFrames, FrameFits(f, Len(stack)),
         NEW rest, rest = [stack EXCEPT ![Len(stack)] = f],
         NEW p \in GroupFrames, p.op = "publish",
         stack' = rest \/ stack' = Append(rest, p),
         \/ seen' = G!SetIds
         \/ UNCHANGED seen /\ (Wakes(stack[Len(stack)]) => Wakes(f))
         \/ UNCHANGED seen /\ stack' = Append(rest, p)
            /\ (watched /\ Wakes(stack[Len(stack)]) => Wakes(p))
  PROVE  GroupsInv'
<1>1. stack \in Seq(GroupFrames)
  BY StackIs DEF GroupsInv
<1>2. /\ stack' \in Seq(GroupFrames) /\ Len(stack) \in 1..Len(stack)
      /\ \A i \in 1..Len(stack) :
           i \in 1..Len(stack') /\ stack'[i] = IF i = Len(stack) THEN f ELSE stack[i]
      /\ \A i \in 1..Len(stack') : i \in 1..Len(stack) \/ stack'[i] = p
      /\ stack' = Append(rest, p) => \E i \in 1..Len(stack') : stack'[i] = p
  BY <1>1, EditOnTop
<1>3. \A i \in 1..Len(stack') : \A x \in {stack'[i]} : FrameFits(x, i)
  <2> SUFFICES ASSUME NEW i \in 1..Len(stack'), NEW x, x = stack'[i] PROVE FrameFits(x, i)
    OBVIOUS
  <2>1. CASE i \notin 1..Len(stack)
    BY <1>2, <2>1 DEF FrameFits
  <2>2. CASE i \in 1..Len(stack) /\ i # Len(stack)
    <3>1. x \in {stack[i]}
      BY <1>1, <1>2, <2>2
    <3> QED BY <2>2, <3>1, FitsIs
  <2>3. CASE i = Len(stack)
    <3>1. x = f
      BY <1>1, <1>2, <2>3
    <3> QED BY <2>3, <3>1
  <2> QED BY <2>1, <2>2, <2>3
<1>4. WatcherIsCalled'
  <2>1. CASE seen' = G!SetIds
    <3>1. G!SetIds' = G!SetIds
      BY DEF G!SetIds, G!ToSet
    <3> QED BY <2>1, <3>1 DEF WatcherIsCalled
  <2>2. CASE /\ UNCHANGED seen
             /\ \/ Wakes(stack[Len(stack)]) => Wakes(f)
                \/ stack' = Append(rest, p) /\ (watched /\ Wakes(stack[Len(stack)]) => Wakes(p))
    <3> SUFFICES ASSUME watched, NEW i \in 1..Len(stack), Wakes(stack[i])
                 PROVE  \E j \in 1..Len(stack') : Wakes(stack'[j])
      BY <2>2, WatcherStays DEF GroupsInv
    <3>1. CASE i # Len(stack)
      <4>1. i \in 1..Len(stack') /\ stack'[i] = stack[i]
        BY <1>1, <1>2, <3>1
      <4> QED BY <4>1
    <3>2. CASE i = Len(stack)
      <4>1. CASE Wakes(f)
        <5>1. Len(stack) \in 1..Len(stack') /\ stack'[Len(stack)] = f
          BY <1>1, <1>2
        <5> QED BY <4>1, <5>1
      <4>2. CASE Wakes(p) /\ stack' = Append(rest, p)
        BY <1>2, <4>2
      <4> QED BY <2>2, <3>2, <4>1, <4>2
    <3> QED BY <3>1, <3>2
  <2> QED BY <2>1, <2>2
<1> QED BY <1>2, <1>3, <1>4, StillKeeps DEF GroupsInv, GroupTypes

LEMMA SetIdsIn ==
  ASSUME GroupTypes
  PROVE  G!SetIds \subseteq Ids
<1> SUFFICES ASSUME NEW g \in G!ToSet(set), NEW id \in DOMAIN index[g] PROVE id \in Ids
  BY DEF G!SetIds
<1>1. g \in Groups
  BY DEF GroupTypes, G!ToSet
<1>2. players[g] \in Seq(G!Entries) /\ Lists(players[g], id)
  BY <1>1, LookupIs, IdsAre
<1>3. PICK i \in 1..Len(players[g]) : players[g][i].id = id
  BY <1>2 DEF Lists
<1>4. players[g][i] \in G!Entries
  BY <1>2, <1>3
<1> QED BY <1>3, <1>4 DEF G!Entries

LEMMA DeliverKeeps ==
  ASSUME GroupsInv, NEW c \in Callees, G!Deliver(c)
  PROVE  GroupsInv'
<1>1. PICK t : t = G!Top
  OBVIOUS
<1>2. stack # <<>> /\ t.op = "publish" /\ c \in t.to
  BY <1>1 DEF G!Deliver, G!In
<1>3. t \in GroupFrames /\ FrameFits(t, Len(stack)) /\ t = stack[Len(stack)] /\ Len(stack) \in 1..Len(stack)
  BY <1>1, <1>2, TopIs
<1>4. t \in [op : {"publish"}, signal : Groups \union {Set}, to : SUBSET Callees, runs : BOOLEAN]
  BY <1>2, <1>3, FrameKinds
<1> DEFINE starts == (c = "game" /\ calls < GroupsCalls)
           f == [t EXCEPT !.to = t.to \ {c}, !.runs = starts]
           rest == [stack EXCEPT ![Len(stack)] = f]
           p == G!Publication(Set)
<1>5. f \in GroupFrames /\ f.op = "publish" /\ f.to = t.to \ {c} /\ f.signal = t.signal
  <2>1. starts \in BOOLEAN
    OBVIOUS
  <2> HIDE DEF starts
  <2>2. f \in [op : {"publish"}, signal : Groups \union {Set}, to : SUBSET Callees, runs : BOOLEAN]
    BY <1>4, <2>1
  <2> QED BY <1>4, <2>2 DEF GroupFrames
<1>6. /\ stack' = IF c = "forward" THEN Append(rest, p) ELSE rest
      /\ seen' = IF c = "watcher" THEN G!SetIds ELSE seen
      /\ UNCHANGED <<players, index, set, attached, teams, watched>>
  <2> DEFINE edit == [stack EXCEPT ![Len(stack)].to = @ \ {c}, ![Len(stack)].runs = starts]
  <2>1. edit = rest
    <3> HIDE DEF starts
    <3> QED BY <1>3
  <2>2. /\ stack' = IF c = "forward" THEN Append(edit, p) ELSE edit
        /\ seen' = IF c = "watcher" THEN G!SetIds ELSE seen
        /\ UNCHANGED <<players, index, set, attached, teams, watched>>
    BY Zenon DEF G!Deliver
  <2> HIDE DEF rest, edit
  <2> QED BY <2>1, <2>2
<1>7. p \in GroupFrames /\ p.op = "publish" /\ (watched => Wakes(p))
  BY PublicationIs
<1>8. seen' \subseteq Ids
  BY <1>6, SetIdsIn DEF GroupsInv, GroupTypes
<1>9. FrameFits(f, Len(stack))
  <2> HIDE DEF f
  <2> QED BY <1>5 DEF FrameFits
<1>10. c = "game" => (Wakes(t) => Wakes(f))
  <2> HIDE DEF f
  <2> QED BY <1>2, <1>5 DEF Wakes
<1>11. c \in {"game", "forward", "watcher"}
  BY DEF Callees
<1> HIDE DEF f, p
<1>12. stack' = rest \/ stack' = Append(rest, p)
  BY <1>6
<1>13. \/ seen' = G!SetIds
       \/ UNCHANGED seen /\ (Wakes(stack[Len(stack)]) => Wakes(f))
       \/ UNCHANGED seen /\ stack' = Append(rest, p)
          /\ (watched /\ Wakes(stack[Len(stack)]) => Wakes(p))
  <2> HIDE DEF rest
  <2> QED BY <1>3, <1>6, <1>7, <1>10, <1>11
<1> QED BY <1>2, <1>5, <1>6, <1>7, <1>8, <1>9, <1>12, <1>13, EditKeeps

\* A frame that only runs, or no longer runs, game code.
LEMMA RunsIs ==
  ASSUME NEW t \in GroupFrames, NEW b \in BOOLEAN, NEW i, FrameFits(t, i)
  PROVE  /\ [t EXCEPT !.runs = b] \in GroupFrames /\ FrameFits([t EXCEPT !.runs = b], i)
         /\ Wakes(t) => Wakes([t EXCEPT !.runs = b])
<1>1. PICK f : f = [t EXCEPT !.runs = b]
  OBVIOUS
<1>2. CASE t.op = "publish"
  <2>1. t \in [op : {"publish"}, signal : Groups \union {Set}, to : SUBSET Callees, runs : BOOLEAN]
    BY <1>2, FrameKinds
  <2>2. f \in GroupFrames /\ f.op = t.op /\ f.to = t.to /\ f.signal = t.signal
    BY <1>1, <2>1 DEF GroupFrames
  <2> QED BY <1>1, <1>2, <2>2 DEF FrameFits, Wakes
<1>3. CASE t.op = "announce"
  <2>1. t \in [op : {"announce"}, group : Groups, left : Int, runs : BOOLEAN]
    BY <1>3, FrameKinds
  <2>2. f \in GroupFrames /\ f.op = t.op /\ f.left = t.left /\ f.group = t.group
    BY <1>1, <2>1 DEF GroupFrames
  <2> QED BY <1>1, <1>3, <2>2 DEF FrameFits, Wakes
<1>4. CASE t.op = "sweep"
  <2>1. t \in [op : {"sweep"}, ids : SUBSET Ids, at : Nat, frozen : BOOLEAN,
               list : Seq(Groups), runs : BOOLEAN, doubled : SUBSET Groups]
    BY <1>4, FrameKinds
  <2>2. f \in GroupFrames /\ f.op = t.op /\ f.ids = t.ids /\ f.at = t.at /\ f.frozen = t.frozen
        /\ f.list = t.list /\ f.doubled = t.doubled
    BY <1>1, <2>1 DEF GroupFrames
  <2>3. SweepFits(t) => SweepFits(f)
    BY <2>2 DEF SweepFits, G!Groupwise
  <2> QED BY <1>1, <1>4, <2>2, <2>3 DEF FrameFits, Wakes
<1>5. CASE t.op = "purge"
  <2>1. t \in [op : {"purge"}, ids : SUBSET Ids, at : Nat, frozen : BOOLEAN,
               list : Seq(Groups), runs : BOOLEAN]
    BY <1>5, FrameKinds
  <2>2. f \in GroupFrames /\ f.op = t.op
    BY <1>1, <2>1 DEF GroupFrames
  <2> QED BY <1>1, <1>5, <2>2 DEF FrameFits, Wakes
<1>6. CASE t.op = "enter"
  <2>1. t \in [op : {"enter"}, id : Ids, group : Groups, already : BOOLEAN,
               others : SUBSET Groups, joined : BOOLEAN, runs : BOOLEAN]
    BY <1>6, FrameKinds
  <2>2. f \in GroupFrames /\ f.op = t.op /\ f.id = t.id /\ f.group = t.group /\ f.others = t.others
    BY <1>1, <2>1 DEF GroupFrames
  <2>3. EnterFits(t) => EnterFits(f)
    BY <2>2 DEF EnterFits
  <2> QED BY <1>1, <1>6, <2>2, <2>3 DEF FrameFits, Wakes
<1> QED BY <1>2, <1>3, <1>4, <1>5, <1>6, FrameKinds

LEMMA CallbackReturnsKeeps ==
  ASSUME GroupsInv, G!CallbackReturns
  PROVE  GroupsInv'
<1>1. PICK t : t = G!Top
  OBVIOUS
<1>2. stack # <<>>
  BY DEF G!CallbackReturns
<1>3. t \in GroupFrames /\ FrameFits(t, Len(stack)) /\ t = stack[Len(stack)] /\ Len(stack) \in 1..Len(stack)
  BY <1>1, <1>2, TopIs
<1>4. PICK f : f = [t EXCEPT !.runs = FALSE]
  OBVIOUS
<1>5. f \in GroupFrames /\ FrameFits(f, Len(stack)) /\ (Wakes(t) => Wakes(f))
  BY <1>3, <1>4, RunsIs
<1>6. PICK rest : rest = [stack EXCEPT ![Len(stack)] = f]
  OBVIOUS
<1>7. /\ stack' = rest
      /\ UNCHANGED <<players, index, set, attached, teams, watched, seen>>
  BY <1>3, <1>4, <1>6 DEF G!CallbackReturns
<1>8. G!Publication(Set) \in GroupFrames /\ G!Publication(Set).op = "publish"
  BY PublicationIs
<1>9. seen' \subseteq Ids
  BY <1>7 DEF GroupsInv, GroupTypes
<1> QED BY <1>2, <1>3, <1>5, <1>6, <1>7, <1>8, <1>9, EditKeeps

LEMMA PublishedKeeps ==
  ASSUME GroupsInv, G!Published
  PROVE  GroupsInv'
<1>1. PICK t : t = G!Top
  OBVIOUS
<1>2. stack # <<>> /\ t.op = "publish" /\ t.to = {}
  BY <1>1 DEF G!Published, G!In
<1>3. t = stack[Len(stack)]
  BY <1>1, <1>2, TopIs
<1>4. ~Wakes(stack[Len(stack)])
  BY <1>2, <1>3 DEF Wakes
<1> QED BY <1>2, <1>4, PopKeeps DEF G!Published, G!Pop

LEMMA LoopEndsKeeps ==
  ASSUME GroupsInv, G!LoopEnds
  PROVE  GroupsInv'
<1>1. PICK t : t = G!Top
  OBVIOUS
<1>2. stack # <<>> /\ t.op \in {"sweep", "purge"}
  BY <1>1 DEF G!LoopEnds
<1>3. t = stack[Len(stack)]
  BY <1>1, <1>2, TopIs
<1>4. ~Wakes(stack[Len(stack)])
  BY <1>2, <1>3 DEF Wakes
<1> QED BY <1>2, <1>4, PopKeeps DEF G!LoopEnds, G!Pop

LEMMA AnnounceNextKeeps ==
  ASSUME GroupsInv, G!AnnounceNext
  PROVE  GroupsInv'
<1>1. PICK t : t = G!Top
  OBVIOUS
<1>2. stack # <<>> /\ t.op = "announce"
  BY <1>1 DEF G!AnnounceNext, G!In
<1>3. t \in GroupFrames /\ t = stack[Len(stack)] /\ Len(stack) \in 1..Len(stack)
  BY <1>1, <1>2, TopIs
<1>4. t \in [op : {"announce"}, group : Groups, left : Int, runs : BOOLEAN]
  BY <1>2, <1>3, FrameKinds
<1>5. UNCHANGED <<players, index, set, attached, teams, watched, seen>>
  BY DEF G!AnnounceNext
<1>6. CASE t.left = 0
  <2>1. ~Wakes(stack[Len(stack)])
    BY <1>2, <1>3, <1>6 DEF Wakes
  <2>2. stack' = G!Front(stack)
    BY <1>1, <1>6 DEF G!AnnounceNext, G!Pop
  <2> QED BY <1>2, <1>5, <2>1, <2>2, PopKeeps
<1>7. CASE t.left # 0
  <2>1. PICK f : f = [t EXCEPT !.left = t.left - 1]
    OBVIOUS
  <2>2. f \in GroupFrames /\ f.op = "announce"
    BY <1>4, <2>1 DEF GroupFrames
  <2>3. FrameFits(f, Len(stack))
    BY <2>2 DEF FrameFits
  <2>4. PICK rest : rest = [stack EXCEPT ![Len(stack)] = f]
    OBVIOUS
  <2>5. PICK p : p = G!Publication(t.group)
    OBVIOUS
  <2>6. stack' = Append(rest, p)
    <3>1. [stack EXCEPT ![Len(stack)].left = @ - 1] = rest
      BY <1>3, <2>1, <2>4
    <3> QED BY <1>1, <1>7, <2>5, <3>1 DEF G!AnnounceNext
  <2>7. p \in GroupFrames /\ p.op = "publish" /\ (t.group \in attached => Wakes(p))
    BY <1>4, <2>5, PublicationIs
  <2>8. Wakes(stack[Len(stack)]) => Wakes(p)
    BY <1>2, <1>3, <2>7 DEF Wakes
  <2>9. seen' \subseteq Ids
    BY <1>5 DEF GroupsInv, GroupTypes
  <2> QED BY <1>2, <1>5, <2>2, <2>3, <2>4, <2>6, <2>7, <2>8, <2>9, EditKeeps
<1> QED BY <1>6, <1>7

LEMMA EnteredKeeps ==
  ASSUME GroupsInv, G!Entered
  PROVE  GroupsInv'
<1>1. PICK t : t = G!Top
  OBVIOUS
<1>2. stack # <<>> /\ t.op = "enter"
  BY <1>1 DEF G!Entered, G!In
<1>3. /\ t \in GroupFrames /\ t = stack[Len(stack)] /\ Len(stack) = 1 /\ EnterFits(t)
      /\ t \in [op : {"enter"}, id : Ids, group : Groups, already : BOOLEAN,
                others : SUBSET Groups, joined : BOOLEAN, runs : BOOLEAN]
  BY <1>1, <1>2, EnterIs
<1>4. ~Wakes(stack[Len(stack)])
  BY <1>2, <1>3 DEF Wakes
<1>5. UNCHANGED <<players, index, set, attached, teams, watched, seen>>
  BY DEF G!Entered
<1>6. CASE t.already
  <2>1. stack' = G!Front(stack)
    BY <1>1, <1>6 DEF G!Entered, G!Pop
  <2> QED BY <1>2, <1>4, <1>5, <2>1, PopKeeps
<1>7. CASE ~t.already
  <2>1. PICK f : f = [t EXCEPT !.runs = TRUE, !.already = TRUE]
    OBVIOUS
  <2>2. f \in GroupFrames /\ f.op = "enter" /\ f.id = t.id /\ f.group = t.group /\ f.others = t.others
    BY <1>3, <2>1 DEF GroupFrames
  <2>3. FrameFits(f, Len(stack))
    BY <1>3, <2>2 DEF FrameFits, EnterFits
  <2>4. PICK rest : rest = [stack EXCEPT ![Len(stack)] = f]
    OBVIOUS
  <2>5. stack' = rest
    <3>1. [stack EXCEPT ![Len(stack)].runs = TRUE, ![Len(stack)].already = TRUE] = rest
      BY <1>3, <2>1, <2>4, TopIs
    <3> QED BY <1>1, <1>7, <3>1 DEF G!Entered
  <2>6. G!Publication(Set) \in GroupFrames /\ G!Publication(Set).op = "publish"
    BY PublicationIs
  <2>7. seen' \subseteq Ids
    BY <1>5 DEF GroupsInv, GroupTypes
  <2> QED BY <1>2, <1>4, <1>5, <2>2, <2>3, <2>4, <2>5, <2>6, <2>7, EditKeeps
<1> QED BY <1>6, <1>7

\* A loop that begins has swept nothing.
LEMMA SweepStarts ==
  ASSUME GroupTypes, NEW id \in Ids, NEW over \in Seq(Groups), NEW frozen \in BOOLEAN,
         NEW f, f = G!Sweep(id, over, frozen)
  PROVE  f \in GroupFrames /\ \A i : FrameFits(f, i)
<1>1. /\ f.op = "sweep" /\ f.ids = {id} /\ f.at = 0 /\ f.frozen = frozen /\ f.list = over
      /\ f.doubled = G!Doubled(id)
  BY DEF G!Sweep
<1>2. G!Doubled(id) \in SUBSET Groups
  BY DEF G!Doubled
<1>3. f \in GroupFrames
  <2>1. f \in [op : {"sweep"}, ids : SUBSET Ids, at : Nat, frozen : BOOLEAN, list : Seq(Groups),
               runs : BOOLEAN, doubled : SUBSET Groups]
    BY <1>2 DEF G!Sweep
  <2> QED BY <2>1 DEF GroupFrames
<1>4. \A g \in Groups \ f.doubled, x \in f.ids : Single(players[g], x)
  <2> SUFFICES ASSUME NEW g \in Groups, g \notin G!Doubled(id) PROVE Single(players[g], id)
    BY <1>1
  <2>1. players[g] \in Seq(G!Entries)
    BY DEF GroupTypes
  <2>2. \A i, j \in DOMAIN players[g] :
          ~(i # j /\ players[g][i].id = id /\ players[g][j].id = id)
    BY DEF G!Doubled
  <2> QED BY <2>1, <2>2 DEF Single
<1>5. SweepFits(f)
  <2>1. G!Groupwise(f) \in Seq(Groups)
    BY <1>1 DEF G!Groupwise, GroupTypes
  <2>2. f.at <= Len(G!Groupwise(f))
    BY <1>1, <2>1
  <2>3. \A k \in 1..f.at : FALSE
    BY <1>1
  <2> QED BY <1>1, <1>4, <2>2, <2>3 DEF SweepFits
<1> QED BY <1>1, <1>3, <1>5 DEF FrameFits

LEMMA PurgeStarts ==
  ASSUME NEW ids \in SUBSET Ids, NEW over \in Seq(Groups), NEW frozen \in BOOLEAN,
         NEW f, f = G!Purge(ids, over, frozen)
  PROVE  f \in GroupFrames /\ \A i : FrameFits(f, i)
<1>1. f.op = "purge"
  BY DEF G!Purge
<1>2. f \in [op : {"purge"}, ids : SUBSET Ids, at : Nat, frozen : BOOLEAN, list : Seq(Groups),
             runs : BOOLEAN]
  BY DEF G!Purge
<1> QED BY <1>1, <1>2 DEF FrameFits, GroupFrames

LEMMA LoopsStartKeep ==
  ASSUME GroupsInv,
         \/ \E id \in Ids : G!RemovePlayer(id) \/ G!LeaveLobby(id)
         \/ \E gone \in SUBSET Ids : G!ClearInvalid(gone) \/ G!DetachChooser(gone)
  PROVE  GroupsInv'
<1>1. UNCHANGED <<players, index, set, attached, teams, watched, seen>>
  BY DEF G!RemovePlayer, G!LeaveLobby, G!ClearInvalid, G!DetachChooser
<1>2. \/ \E id \in Ids, over \in Seq(Groups), frozen \in BOOLEAN :
            stack' = Append(stack, G!Sweep(id, over, frozen))
      \/ \E ids \in SUBSET Ids, over \in Seq(Groups), frozen \in BOOLEAN :
            stack' = Append(stack, G!Purge(ids, over, frozen))
  <2>1. <<>> \in Seq(Groups)
    OBVIOUS
  <2>2. \A x : stack = <<>> => Append(stack, x) = <<x>>
    OBVIOUS
  <2>3. teams # {} => \A s \in G!SetToSeqs(teams) : s \in Seq(Groups)
    BY GroupNumbers DEF GroupsInv, GroupTypes
  <2>4. ASSUME NEW id \in Ids, G!RemovePlayer(id)
        PROVE  stack' = Append(stack, G!Sweep(id, <<>>, FALSE))
    BY <2>4 DEF G!RemovePlayer
  <2>5. ASSUME NEW id \in Ids, G!LeaveLobby(id)
        PROVE  \E over \in Seq(Groups) : stack' = Append(stack, G!Sweep(id, over, TRUE))
    BY <2>2, <2>3, <2>5 DEF G!LeaveLobby
  <2>6. ASSUME NEW gone \in SUBSET Ids, G!ClearInvalid(gone)
        PROVE  stack' = Append(stack, G!Purge(gone, <<>>, FALSE))
    BY <2>6 DEF G!ClearInvalid
  <2>7. ASSUME NEW gone \in SUBSET Ids, G!DetachChooser(gone)
        PROVE  \E over \in Seq(Groups) : stack' = Append(stack, G!Purge(gone, over, TRUE))
    BY <2>2, <2>3, <2>7 DEF G!DetachChooser
  <2> QED BY <2>1, <2>4, <2>5, <2>6, <2>7
<1>3. \E f \in GroupFrames : FrameFits(f, Len(stack) + 1) /\ stack' = Append(stack, f)
  <2>1. ASSUME NEW id \in Ids, NEW over \in Seq(Groups), NEW frozen \in BOOLEAN,
               stack' = Append(stack, G!Sweep(id, over, frozen))
        PROVE  \E f \in GroupFrames : FrameFits(f, Len(stack) + 1) /\ stack' = Append(stack, f)
    BY <2>1, SweepStarts DEF GroupsInv
  <2>2. ASSUME NEW ids \in SUBSET Ids, NEW over \in Seq(Groups), NEW frozen \in BOOLEAN,
               stack' = Append(stack, G!Purge(ids, over, frozen))
        PROVE  \E f \in GroupFrames : FrameFits(f, Len(stack) + 1) /\ stack' = Append(stack, f)
    BY <2>2, PurgeStarts
  <2> QED BY <1>2, <2>1, <2>2
<1> QED BY <1>1, <1>3, PushKeeps

LEMMA EnterRegionKeeps ==
  ASSUME GroupsInv, NEW id \in Ids, NEW g \in Groups, G!EnterRegion(id, g)
  PROVE  GroupsInv'
<1>1. PICK f : f = [op |-> "enter", id |-> id, group |-> g, already |-> G!HasId(g, id),
                   others |-> teams \ {g}, joined |-> FALSE, runs |-> TRUE]
  OBVIOUS
<1>2. /\ stack = <<>> /\ g \in teams /\ stack' = <<f>>
      /\ UNCHANGED <<players, index, set, attached, teams, watched, seen>>
  BY <1>1 DEF G!EnterRegion
<1>3. Len(stack) + 1 = 1 /\ stack' = Append(stack, f)
  BY <1>2
<1>4. f \in GroupFrames
  <2>1. G!HasId(g, id) \in BOOLEAN /\ teams \subseteq Groups
    BY DEF G!HasId, GroupsInv, GroupTypes
  <2>2. f \in [op : {"enter"}, id : Ids, group : Groups, already : BOOLEAN, others : SUBSET Groups,
               joined : BOOLEAN, runs : BOOLEAN]
    BY <1>1, <2>1
  <2> QED BY <2>2 DEF GroupFrames
<1>5. FrameFits(f, 1)
  BY <1>1, <1>2 DEF FrameFits, EnterFits
<1> QED BY <1>2, <1>3, <1>4, <1>5, PushKeeps

LEMMA WatchKeeps ==
  ASSUME GroupsInv, G!Watch \/ G!Unwatch
  PROVE  GroupsInv'
<1>1. /\ UNCHANGED <<players, index, set, attached, teams, stack>>
      /\ watched' \in BOOLEAN /\ seen' \subseteq Ids
      /\ ~watched' \/ seen' = G!SetIds
  BY SetIdsIn DEF G!Watch, G!Unwatch, GroupsInv, GroupTypes
<1>2. WatcherIsCalled'
  <2>1. G!SetIds' = G!SetIds
    BY <1>1 DEF G!SetIds, G!ToSet
  <2> QED BY <1>1, <2>1 DEF WatcherIsCalled
<1>3. stack' \in Seq(GroupFrames) /\ stack' = stack
  BY <1>1 DEF GroupsInv, GroupTypes
<1>4. \A i \in 1..Len(stack') : \A f \in {stack'[i]} : FrameFits(f, i)
  BY <1>3, FitsIs
<1> QED BY <1>1, <1>2, <1>3, <1>4, StillKeeps

\* The set changes and says so.
LEMMA SetChanges ==
  ASSUME GroupsInv, UNCHANGED <<players, index, teams, watched, seen>>,
         set' \in Seq(Groups), G!IsInjective(set)', attached' = G!ToSet(set)',
         NEW rest \in Seq(GroupFrames),
         \A i \in 1..Len(rest) : \A f \in {rest[i]} : FrameFits(f, i)',
         stack' = Append(rest, G!Publication(Set))
  PROVE  GroupsInv'
<1>1. PICK p : p = G!Publication(Set)
  OBVIOUS
<1>2. p \in GroupFrames /\ p.op = "publish" /\ (watched => Wakes(p)) /\ stack' = Append(rest, p)
  BY <1>1, PublicationIs
<1>3. stack' \in Seq(GroupFrames) /\ GroupFramesFit'
  BY <1>2, FramesAfter
<1>4. GroupTypes'
  BY <1>3 DEF GroupsInv, GroupTypes
<1>5. WatcherIsCalled'
  <2>1. PICK n \in 1..Len(stack') : stack'[n] = p
    BY <1>2, OnTop
  <2>2. watched => p.op = "publish" /\ p.signal = Set /\ "watcher" \in p.to
    BY <1>1 DEF G!Publication, G!Hearers
  <2>3. watched => \E i \in 1..Len(stack') : /\ stack'[i].op = "publish"
                                            /\ stack'[i].signal = Set /\ "watcher" \in stack'[i].to
    BY <2>1, <2>2
  <2> QED BY <2>3 DEF WatcherIsCalled, Wakes
<1>6. OneTeam'
  BY DEF GroupsInv, OneTeam
<1> QED BY <1>3, <1>4, <1>5, <1>6 DEF GroupsInv

\* What is swept is not affected by a group that joins the end of the set.
LEMMA GrownFits ==
  ASSUME GroupTypes, UNCHANGED <<players, teams>>, NEW g \in Groups, set' = Append(set, g),
         NEW f \in GroupFrames, NEW i, FrameFits(f, i)
  PROVE  FrameFits(f, i)'
<1>1. CASE f.op = "sweep"
  <2>1. f.list \in Seq(Groups) /\ f.at \in Nat
    BY <1>1, FrameKinds
  <2> DEFINE over == G!Groupwise(f)
             next == G!Groupwise(f)'
  <2>2. SweepFits(f)
    BY <1>1 DEF FrameFits
  <2>3. set \in Seq(Groups) /\ over \in Seq(Groups)
    BY <2>1 DEF GroupTypes, G!Groupwise
  <2>4. next = over \/ next = Append(over, g)
    BY DEF G!Groupwise
  <2> HIDE DEF over, next
  <2>5. Len(over) <= Len(next) /\ Len(over) \in Nat /\ Len(next) \in Nat
        /\ \A k \in 1..Len(over) : next[k] = over[k]
    <3>1. next \in Seq(Groups) /\ \A k \in 1..Len(over) : k \in 1..Len(next) /\ next[k] = over[k]
      BY <2>3, <2>4, OnTop
    <3>2. Len(over) \in Nat /\ Len(next) \in Nat
      BY <2>3, <3>1
    <3> QED BY <3>1, <3>2
  <2>6. /\ (\E x \in Ids : f.ids = {x}) /\ f.at <= Len(over)
        /\ \A k \in 1..f.at, x \in f.ids : Lists(players[over[k]], x) => over[k] \in f.doubled
        /\ \A h \in Groups \ f.doubled, x \in f.ids : Single(players[h], x)
    BY <2>2 DEF SweepFits, over
  <2>7. f.at <= Len(next) /\ \A k \in 1..f.at : next[k] = over[k]
    BY <2>1, <2>5, <2>6
  <2>8. SweepFits(f)'
    BY <2>6, <2>7 DEF SweepFits, next
  <2> QED BY <1>1, <2>8 DEF FrameFits
<1>2. CASE f.op # "sweep"
  BY <1>2 DEF FrameFits, EnterFits
<1> QED BY <1>1, <1>2

LEMMA AddGroupKeeps ==
  ASSUME GroupsInv, NEW g \in Groups, G!AddGroup(g)
  PROVE  GroupsInv'
<1>1. /\ g \notin G!ToSet(set) /\ set' = Append(set, g) /\ attached' = attached \union {g}
      /\ stack' = Append(stack, G!Publication(Set))
      /\ UNCHANGED <<players, index, teams, watched, seen>>
  BY DEF G!AddGroup
<1>2. set \in Seq(Groups) /\ G!IsInjective(set) /\ attached = G!ToSet(set) /\ stack \in Seq(GroupFrames)
  BY DEF GroupsInv, GroupTypes
<1>3. /\ set' \in Seq(Groups) /\ Len(set') = Len(set) + 1 /\ Len(set) \in Nat
      /\ \A i \in 1..Len(set) : set'[i] = set[i]
      /\ set'[Len(set) + 1] = g
  BY <1>1, <1>2, PushFacts
<1>4. \A i \in 1..Len(set) : set[i] # g
  BY <1>1, <1>2 DEF G!ToSet
<1>5. \A i, j \in 1..Len(set) : set[i] = set[j] => i = j
  BY <1>2 DEF G!IsInjective
<1>6. \A i, j \in 1..Len(set') : set'[i] = set'[j] => i = j
  BY <1>3, <1>4, <1>5
<1>7. G!IsInjective(set)'
  BY <1>3, <1>6 DEF G!IsInjective
<1>8. attached' = G!ToSet(set)'
  <2>1. \A x : x \in G!ToSet(set) <=> \E i \in 1..Len(set) : set[i] = x
    BY <1>2 DEF G!ToSet
  <2>2. \A x : x \in G!ToSet(set)' <=> \E i \in 1..Len(set') : set'[i] = x
    BY <1>3 DEF G!ToSet
  <2>3. \A x : (\E i \in 1..Len(set') : set'[i] = x) <=> (\E i \in 1..Len(set) : set[i] = x) \/ x = g
    <3>1. \A x : (\E i \in 1..Len(set) : set[i] = x) => \E i \in 1..Len(set') : set'[i] = x
      BY <1>3
    <3>2. \E i \in 1..Len(set') : set'[i] = g
      BY <1>3
    <3>3. \A x : (\E i \in 1..Len(set') : set'[i] = x) => (\E i \in 1..Len(set) : set[i] = x) \/ x = g
      BY <1>3
    <3> QED BY <3>1, <3>2, <3>3
  <2> QED BY <1>1, <1>2, <2>1, <2>2, <2>3
<1>9. \A i \in 1..Len(stack) : \A f \in {stack[i]} : FrameFits(f, i)'
  <2> DEFINE q == stack
  <2> SUFFICES ASSUME NEW i \in 1..Len(q), NEW f \in {q[i]} PROVE FrameFits(f, i)'
    OBVIOUS
  <2>1. f \in GroupFrames /\ FrameFits(f, i)
    BY FitsIs
  <2> QED BY <1>1, <2>1, GrownFits DEF GroupsInv
<1> QED BY <1>1, <1>2, <1>3, <1>7, <1>8, <1>9, SetChanges

LEMMA RemoveGroupKeeps ==
  ASSUME GroupsInv, NEW g \in Groups, G!RemoveGroup(g)
  PROVE  GroupsInv'
<1>1. /\ g \in G!ToSet(set) /\ G!Sweeping = {}
      /\ set' = G!RemoveFirst(set, g) /\ attached' = attached \ {g}
      /\ stack' = Append(stack, G!Publication(Set))
      /\ UNCHANGED <<players, index, teams, watched, seen>>
  BY DEF G!RemoveGroup
<1>2. set \in Seq(Groups) /\ G!IsInjective(set) /\ attached = G!ToSet(set) /\ stack \in Seq(GroupFrames)
  BY DEF GroupsInv, GroupTypes
<1>3. \A i, j \in 1..Len(set) : set[i] = set[j] => i = j
  BY <1>2 DEF G!IsInjective
<1>4. PICK k \in 1..Len(set) : set[k] = g
  BY <1>1, <1>2 DEF G!ToSet
<1>5. set' = RemoveAt(set, k)
  <2>1. \A i \in 1..Len(set) : set[i] = set[k] => k <= i
    BY <1>3
  <2> QED BY <1>1, <1>2, <1>4, <2>1, RemoveFirstIs
<1>6. /\ set' \in Seq(Groups) /\ Len(set') = Len(set) - 1 /\ Len(set) \in Nat
      /\ \A i \in 1..Len(set') : set'[i] = IF i < k THEN set[i] ELSE set[i + 1]
  <2> DEFINE q == RemoveAt(set, k)
  <2>1. /\ q \in Seq(Groups) /\ Len(q) = Len(set) - 1
        /\ \A i \in 1..(Len(set) - 1) : q[i] = IF i < k THEN set[i] ELSE set[i + 1]
    BY <1>2, RemoveAtFacts
  <2> HIDE DEF q
  <2>2. Len(set) \in Nat /\ set' = q
    BY <1>2, <1>5 DEF q
  <2> QED BY <2>1, <2>2
<1>7. \A i \in 1..Len(set') :
        \/ i < k /\ i \in 1..Len(set) /\ set'[i] = set[i]
        \/ i >= k /\ i + 1 \in 1..Len(set) /\ set'[i] = set[i + 1]
  BY <1>6
<1>8. G!IsInjective(set)'
  <2>1. \A i, j \in 1..Len(set') : set'[i] = set'[j] => i = j
    BY <1>3, <1>7
  <2> QED BY <1>6, <2>1 DEF G!IsInjective
<1>9. attached' = G!ToSet(set)'
  <2>1. \A x : x \in G!ToSet(set) <=> \E i \in 1..Len(set) : set[i] = x
    BY <1>2 DEF G!ToSet
  <2>2. \A x : x \in G!ToSet(set)' <=> \E i \in 1..Len(set') : set'[i] = x
    BY <1>6 DEF G!ToSet
  <2>3. ASSUME NEW i \in 1..Len(set), set[i] # g
        PROVE  \E j \in 1..Len(set') : set'[j] = set[i]
    <3>1. CASE i < k
      BY <1>6, <3>1
    <3>2. CASE i > k
      <4>1. i - 1 \in 1..Len(set') /\ ~(i - 1 < k) /\ (i - 1) + 1 = i
        BY <1>6, <3>2
      <4>2. set'[i - 1] = set[i]
        BY <1>6, <4>1
      <4> QED BY <4>1, <4>2
    <3>3. i # k
      BY <1>4, <2>3
    <3> QED BY <3>1, <3>2, <3>3
  <2>4. ASSUME NEW j \in 1..Len(set')
        PROVE  set'[j] # g /\ \E i \in 1..Len(set) : set[i] = set'[j]
    BY <1>3, <1>4, <1>7
  <2>5. \A x : x \in attached' <=> x \in G!ToSet(set) /\ x # g
    BY <1>1, <1>2
  <2>6. \A x : x \in G!ToSet(set)' <=> x \in G!ToSet(set) /\ x # g
    BY <2>1, <2>2, <2>3, <2>4
  <2> QED BY <2>5, <2>6
<1>10. \A i \in 1..Len(stack) : \A f \in {stack[i]} : FrameFits(f, i)'
  <2> DEFINE q == stack
  <2> SUFFICES ASSUME NEW i \in 1..Len(q), NEW f \in {q[i]} PROVE FrameFits(f, i)'
    OBVIOUS
  <2>1. f \in GroupFrames /\ FrameFits(f, i)
    BY FitsIs
  <2>2. f.op # "sweep"
    <3> SUFFICES ASSUME f.op = "sweep" PROVE FALSE
      OBVIOUS
    <3>1. f.ids \subseteq {}
      BY <1>1, SweepingIs DEF GroupsInv
    <3>2. \E id \in Ids : f.ids = {id}
      BY <2>1 DEF FrameFits, SweepFits
    <3> QED BY <3>1, <3>2
  <2> QED BY <1>1, <2>1, <2>2 DEF FrameFits, EnterFits
<1> QED BY <1>1, <1>2, <1>6, <1>8, <1>9, <1>10, SetChanges

\* A loop that goes on over the array it had.
LEMMA FrozenFits ==
  ASSUME GroupTypes, UNCHANGED <<players, teams>>, NEW f \in GroupFrames, NEW i, FrameFits(f, i),
         NEW x, x = IF f.op \in {"sweep", "purge"} /\ ~f.frozen
                    THEN [f EXCEPT !.frozen = TRUE, !.list = set] ELSE f
  PROVE  x \in GroupFrames /\ FrameFits(x, i)'
<1>0. set \in Seq(Groups)
  BY DEF GroupTypes
<1>1. CASE f.op = "sweep"
  <2>1. f \in [op : {"sweep"}, ids : SUBSET Ids, at : Nat, frozen : BOOLEAN,
               list : Seq(Groups), runs : BOOLEAN, doubled : SUBSET Groups]
    BY <1>1, FrameKinds
  <2>2. x \in [op : {"sweep"}, ids : SUBSET Ids, at : Nat, frozen : BOOLEAN,
               list : Seq(Groups), runs : BOOLEAN, doubled : SUBSET Groups]
    BY <1>0, <1>1, <2>1
  <2>3. x.op = f.op /\ x.ids = f.ids /\ x.at = f.at /\ x.doubled = f.doubled
    BY <1>1, <2>1
  <2>4. x.frozen /\ x.list = G!Groupwise(f)
    BY <1>1, <2>1 DEF G!Groupwise
  <2>5. G!Groupwise(x)' = G!Groupwise(f)
    BY <2>4 DEF G!Groupwise
  <2>6. SweepFits(f)
    BY <1>1 DEF FrameFits
  <2>7. SweepFits(x)'
    BY <2>3, <2>5, <2>6 DEF SweepFits
  <2> QED BY <1>1, <2>2, <2>3, <2>7 DEF FrameFits, GroupFrames
<1>2. CASE f.op = "purge"
  <2>1. f \in [op : {"purge"}, ids : SUBSET Ids, at : Nat, frozen : BOOLEAN,
               list : Seq(Groups), runs : BOOLEAN]
    BY <1>2, FrameKinds
  <2>2. x \in [op : {"purge"}, ids : SUBSET Ids, at : Nat, frozen : BOOLEAN,
               list : Seq(Groups), runs : BOOLEAN]
    BY <1>0, <1>2, <2>1
  <2>3. x.op = "purge"
    BY <2>2
  <2> QED BY <2>2, <2>3 DEF FrameFits, GroupFrames
<1>3. CASE f.op \notin {"sweep", "purge"}
  <2>1. x = f
    BY <1>3
  <2> QED BY <1>3, <2>1 DEF FrameFits, EnterFits
<1> QED BY <1>1, <1>2, <1>3

LEMMA ClearSetKeeps ==
  ASSUME GroupsInv, G!ClearSet
  PROVE  GroupsInv'
<1>1. PICK rest : rest = G!Frozen(stack)
  OBVIOUS
<1>2. /\ set' = <<>> /\ attached' = {} /\ stack' = Append(rest, G!Publication(Set))
      /\ UNCHANGED <<players, index, teams, watched, seen>>
  BY <1>1 DEF G!ClearSet
<1>3. stack \in Seq(GroupFrames) /\ DOMAIN stack = 1..Len(stack) /\ Len(stack) \in Nat
  BY DEF GroupsInv, GroupTypes
<1>4. \A i \in 1..Len(stack) :
        rest[i] = IF stack[i].op \in {"sweep", "purge"} /\ ~stack[i].frozen
                  THEN [stack[i] EXCEPT !.frozen = TRUE, !.list = set] ELSE stack[i]
  BY <1>1, <1>3 DEF G!Frozen
<1>5. ASSUME NEW i \in 1..Len(stack)
      PROVE  rest[i] \in GroupFrames /\ \A x \in {rest[i]} : FrameFits(x, i)'
  <2>1. PICK f : f = stack[i]
    OBVIOUS
  <2>2. f \in GroupFrames /\ FrameFits(f, i)
    BY <2>1, FitsIs
  <2> SUFFICES ASSUME NEW x, x = rest[i] PROVE x \in GroupFrames /\ FrameFits(x, i)'
    OBVIOUS
  <2>3. x = IF f.op \in {"sweep", "purge"} /\ ~f.frozen
            THEN [f EXCEPT !.frozen = TRUE, !.list = set] ELSE f
    BY <1>4, <2>1
  <2> QED BY <1>2, <2>2, <2>3, FrozenFits DEF GroupsInv
<1>6. rest \in Seq(GroupFrames) /\ Len(rest) = Len(stack)
  <2>1. rest = [i \in 1..Len(stack) |-> rest[i]]
    BY <1>1, <1>3 DEF G!Frozen
  <2>2. \A i \in 1..Len(stack) : rest[i] \in GroupFrames
    BY <1>5
  <2> QED BY <1>3, <2>1, <2>2
<1>7. /\ set' \in Seq(Groups) /\ G!IsInjective(set)' /\ attached' = G!ToSet(set)'
  BY <1>2 DEF G!IsInjective, G!ToSet
<1>8. \A i \in 1..Len(rest) : \A x \in {rest[i]} : FrameFits(x, i)'
  BY <1>5, <1>6
<1> QED BY <1>2, <1>6, <1>7, <1>8, SetChanges

\* Nothing is done.
LEMMA GroupsStutter ==
  ASSUME GroupsInv, UNCHANGED <<players, index, set, attached, teams, watched, seen, stack>>
  PROVE  GroupsInv'
<1>1. /\ watched' \in BOOLEAN /\ seen' \subseteq Ids /\ stack' \in Seq(GroupFrames) /\ stack' = stack
  BY DEF GroupsInv, GroupTypes
<1>2. WatcherIsCalled'
  BY WatcherStays DEF GroupsInv
<1>3. \A i \in 1..Len(stack') : \A f \in {stack'[i]} : FrameFits(f, i)
  BY <1>1, FitsIs
<1> QED BY <1>1, <1>2, <1>3, StillKeeps

LEMMA GroupsNext ==
  ASSUME GroupsInv, G!Next
  PROVE  GroupsInv'
<1>1. ASSUME NEW c \in {"game", "forward", "watcher"}, G!Deliver(c)
      PROVE  GroupsInv'
  BY <1>1, DeliverKeeps DEF Callees
<1>2. ASSUME NEW g \in Groups, NEW id \in Ids, G!Add(g, id) \/ G!Delete(g, id) \/ G!EnterRegion(id, g)
      PROVE  GroupsInv'
  BY <1>2, AddKeeps, DeleteKeeps, EnterRegionKeeps
<1>3. ASSUME NEW g \in Groups, NEW ids \in SUBSET Ids, G!RemoveWhere(g, ids)
      PROVE  GroupsInv'
  BY <1>3, RemoveWhereKeeps
<1>4. ASSUME NEW g \in Groups, G!Clear(g) \/ G!AddGroup(g) \/ G!RemoveGroup(g) \/ G!LeaveOther(g)
      PROVE  GroupsInv'
  BY <1>4, ClearKeeps, AddGroupKeeps, RemoveGroupKeeps, LeaveOtherKeeps
<1> QED
  BY <1>1, <1>2, <1>3, <1>4, CallbackReturnsKeeps, PublishedKeeps, AnnounceNextKeeps, LoopsStartKeep,
     ClearSetKeeps, SweepNextKeeps, PurgeNextKeeps, LoopEndsKeeps, EnterTeamKeeps, EnteredKeeps, WatchKeeps
  DEF G!Next

LEMMA GroupsInit ==
  ASSUME G!Init
  PROVE  GroupsInv
<1>1. /\ players \in [Groups -> Given] /\ index = [g \in Groups |-> G!Indexed(players[g])]
      /\ set = <<>> /\ attached = {} /\ teams \in {{}, Groups}
      /\ (teams # {} => \A g \in Groups : players[g] = <<>>)
      /\ watched = FALSE /\ seen = {} /\ stack = <<>>
  BY DEF G!Init
<1>2. GroupTypes
  <2>1. players \in [Groups -> Seq(G!Entries)]
    BY <1>1, GroupNumbers
  <2>2. <<>> \in Seq(Groups) /\ <<>> \in Seq(GroupFrames)
    OBVIOUS
  <2>3. G!IsInjective(set) /\ attached = G!ToSet(set)
    BY <1>1 DEF G!IsInjective, G!ToSet
  <2>4. watched \in BOOLEAN /\ seen \subseteq Ids
    BY <1>1
  <2> QED BY <1>1, <2>1, <2>2, <2>3, <2>4 DEF GroupTypes
<1>3. WatcherIsCalled /\ GroupFramesFit
  BY <1>1 DEF WatcherIsCalled, GroupFramesFit
<1>4. OneTeam
  <2>1. \A g \in teams : g \in Groups /\ players[g] = <<>>
    BY <1>1
  <2> QED BY <2>1 DEF OneTeam, Lists, Single
<1> QED BY <1>2, <1>3, <1>4 DEF GroupsInv

LEMMA GroupsHold ==
  ASSUME GroupsInv
  PROVE  G!LookupsAgree /\ G!NobodyIsBehind /\ G!TeamsAreExclusive
<1>1. G!LookupsAgree
  <2>1. ASSUME NEW g \in Groups
        PROVE  players[g] \in Seq(G!Entries) /\ index[g] \in [G!IdsOf(players[g]) -> G!Entries]
               /\ index[g] = G!Indexed(players[g])
    <3>1. players[g] \in Seq(G!Entries) /\ index[g] = G!Indexed(players[g])
      BY LookupIs DEF GroupsInv
    <3>2. ASSUME NEW id \in G!IdsOf(players[g])
          PROVE  G!First(players[g], id) \in G!Entries
      <4>1. Lists(players[g], id)
        BY <3>1, IdsAre
      <4>2. PICK m \in 1..Len(players[g]) : G!First(players[g], id) = players[g][m]
        BY <3>1, <4>1, FirstIs
      <4> QED BY <3>1, <4>2
    <3> QED BY <3>1, <3>2 DEF G!Indexed
  <2>2. \A i \in DOMAIN stack : stack[i].op \in {"publish", "announce", "sweep", "purge", "enter"}
    <3>1. stack \in Seq(GroupFrames)
      BY DEF GroupsInv, GroupTypes
    <3> QED BY <3>1, FrameKinds
  <2>3. teams \subseteq Groups /\ attached \subseteq Groups
    BY DEF GroupsInv, GroupTypes, G!ToSet
  <2> QED BY <2>1, <2>2, <2>3 DEF G!LookupsAgree, G!TypeOK, GroupsInv, GroupTypes
<1>2. G!NobodyIsBehind
  BY DEF G!NobodyIsBehind, GroupsInv, WatcherIsCalled
<1>3. G!TeamsAreExclusive
  <2>1. \A id \in Ids : \A g, h \in teams : G!HasId(g, id) /\ G!HasId(h, id) => g = h
    BY LookupIs DEF GroupsInv, GroupTypes, OneTeam
  <2>2. ASSUME G!In("sweep"), NEW t, t = G!Top, t.at >= Len(G!Groupwise(t)),
               NEW g \in G!ToSet(G!Groupwise(t)), NEW id \in t.ids, G!HasId(g, id)
        PROVE  g \in t.doubled
    <3>1. stack # <<>> /\ t.op = "sweep"
      BY <2>2 DEF G!In
    <3>2. t \in GroupFrames /\ FrameFits(t, Len(stack))
      BY <2>2, <3>1, TopIs
    <3> DEFINE over == G!Groupwise(t)
    <3>3. over \in Seq(Groups) /\ t.at \in Nat
      <4>1. t.list \in Seq(Groups) /\ t.at \in Nat
        BY <3>1, <3>2, FrameKinds
      <4> QED BY <4>1 DEF G!Groupwise, GroupsInv, GroupTypes
    <3>4. /\ t.at <= Len(over)
          /\ \A k \in 1..t.at, x \in t.ids : Lists(players[over[k]], x) => over[k] \in t.doubled
      BY <3>1, <3>2 DEF FrameFits, SweepFits
    <3>5. t.at >= Len(over) /\ g \in G!ToSet(over)
      BY <2>2
    <3> HIDE DEF over
    <3>6. PICK k \in 1..Len(over) : over[k] = g
      BY <3>3, <3>5 DEF G!ToSet
    <3>7. k \in 1..t.at /\ g \in Groups
      BY <3>3, <3>4, <3>5, <3>6
    <3>8. Lists(players[g], id)
      BY <2>2, <3>7, LookupIs DEF GroupsInv
    <3> QED BY <2>2, <3>4, <3>6, <3>7, <3>8
  <2> QED BY <2>1, <2>2 DEF G!TeamsAreExclusive
<1> QED BY <1>1, <1>2, <1>3

-----------------------------------------------------------------------------
(* What holds when the groups are explored.                                  *)

Inv == subject = "groups" => GroupsInv

LEMMA InvHolds == Services => []Inv
<1>1. AnyInit => Inv
  BY GroupsInit DEF AnyInit, Inv
<1>2. ASSUME Inv, [AnyNext]_allVars
      PROVE  Inv'
  <2>1. CASE subject = "groups" /\ G!Next /\ UNCHANGED subject
    BY <1>2, <2>1, GroupsNext DEF Inv
  <2>2. CASE subject # "groups" /\ UNCHANGED subject
    BY <1>2, <2>2 DEF Inv
  <2>3. CASE UNCHANGED allVars
    BY <1>2, <2>3, GroupsStutter DEF Inv, allVars, groupsVars
  <2> QED
    BY <1>2, <2>1, <2>2, <2>3 DEF AnyNext, ButParticipation
<1> QED
  BY <1>1, <1>2, PTL DEF Services

(* Lookups by id find what a scan of the arrays finds, duplicates included;  *)
(* whoever looks at the set of groups on each of its changes knows its       *)
(* members once the operations have returned; a player sits in one team at   *)
(* most and removePlayer() leaves none behind (playerGroup.ts, groupSet.ts): *)
(* if nobody adds a player who is being removed everywhere.                  *)
THEOREM GroupsStayInAgreement == Services => []GroupsAgree
<1>1. Inv => GroupsAgree
  BY GroupsHold DEF Inv, GroupsAgree
<1> QED
  BY <1>1, InvHolds, PTL

=============================================================================
