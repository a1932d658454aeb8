-------------------------- MODULE ComponentsProofs --------------------------
(* The signals and the components of a game, for any subscriptions, regions, *)
(* listeners, guests, rooms, blocks, keys and boards, whatever the bounds of *)
(* the clocks and of the nesting are.  Each component has an inductive       *)
(* invariant, its Init and its Next keep it; the last section puts them      *)
(* together.                                                                 *)
EXTENDS MCComponents, SequenceLemmas, FiniteSetTheorems

-----------------------------------------------------------------------------
(* The protection of structures.                                             *)

\* A scan has found what there is among the blocks it has been over.
ScanFound(n) == {b \in template : b < n}

JobFits(r) ==
  \/ jobs[r] \in {None, S!Waiting}
  \/ \E n \in 0..Size : jobs[r] = [at |-> n, found |-> ScanFound(n)]

\* What is owed stands, is the structure's, and the room knows it.
OwedFits(r) ==
  /\ owed[r] \subseteq intact[r] \intersect template
  /\ owed[r] # {} => guarded[r] /\ scanned[r] # None /\ owed[r] \subseteq scanned[r]

ScanTypeOK ==
  /\ template \in SUBSET S!Blocks
  /\ jobs = [r \in Rooms |-> jobs[r]] /\ scanned = [r \in Rooms |-> scanned[r]]
  /\ guarded \in [Rooms -> BOOLEAN]
  /\ intact \in [Rooms -> SUBSET S!Blocks] /\ owed \in [Rooms -> SUBSET S!Blocks]

SInv == ScanTypeOK /\ S!MaskIsWhole /\ \A r \in Rooms : JobFits(r) /\ OwedFits(r)

LEMMA SInvImplies ==
  ASSUME SInv
  PROVE  S!RoomsAreProtected
BY DEF SInv, OwedFits, S!RoomsAreProtected, S!OwedStands

LEMMA SInvInit ==
  ASSUME S!Init
  PROVE  SInv
BY DEF S!Init, SInv, ScanTypeOK, JobFits, OwedFits, S!MaskIsWhole, S!Blocks

LEMMA WholeScan ==
  ASSUME ScanTypeOK
  PROVE  ScanFound(Size) = template /\ ScanFound(0) = {} /\ template \subseteq S!Blocks
BY ComponentsAssumption DEF ScanTypeOK, ScanFound, S!Blocks, S!ScanAssumption

(* A room takes the whole of the mask, if its component is attached.         *)
LEMMA ReadyKeeps ==
  ASSUME SInv, NEW r \in Rooms, S!Ready(r, template),
         mask' \in {mask, template}, jobs' = [jobs EXCEPT ![r] = None],
         UNCHANGED <<template, guarded, intact>>
  PROVE  SInv'
<1>1. ScanTypeOK'
  BY DEF SInv, ScanTypeOK, S!Ready
<1>2. S!MaskIsWhole'
  BY DEF SInv, S!MaskIsWhole
<1>3. ASSUME NEW q \in Rooms PROVE JobFits(q)'
  BY DEF SInv, ScanTypeOK, JobFits, ScanFound
<1>4. template # None
  BY ComponentsAssumption DEF SInv, ScanTypeOK, S!ScanAssumption
<1>5. ASSUME NEW q \in Rooms PROVE OwedFits(q)'
  BY <1>4 DEF SInv, ScanTypeOK, OwedFits, S!Ready
<1> QED
  BY <1>1, <1>2, <1>3, <1>5 DEF SInv

LEMMA SInvNext ==
  ASSUME SInv, S!Next
  PROVE  SInv'
<1>0. ScanTypeOK /\ S!MaskIsWhole
  BY DEF SInv
<1>1. ASSUME NEW r \in Rooms, S!Attach(r) PROVE SInv'
  <2>1. ScanTypeOK' /\ S!MaskIsWhole'
    BY <1>0, <1>1 DEF ScanTypeOK, S!MaskIsWhole, S!Attach
  <2>2. ASSUME NEW q \in Rooms PROVE JobFits(q)' /\ OwedFits(q)'
    BY <1>0, <1>1 DEF SInv, ScanTypeOK, JobFits, OwedFits, ScanFound, S!Attach
  <2> QED
    BY <2>1, <2>2 DEF SInv
<1>2. ASSUME NEW r \in Rooms, S!Detach(r) PROVE SInv'
  <2>1. ScanTypeOK' /\ S!MaskIsWhole'
    BY <1>0, <1>2 DEF ScanTypeOK, S!MaskIsWhole, S!Detach
  <2>2. ASSUME NEW q \in Rooms PROVE JobFits(q)' /\ OwedFits(q)'
    BY <1>0, <1>2 DEF SInv, ScanTypeOK, JobFits, OwedFits, ScanFound, S!Detach
  <2> QED
    BY <2>1, <2>2 DEF SInv
<1>3. ASSUME NEW r \in Rooms, S!ScanBegins(r) PROVE SInv'
  <2>1. CASE mask # None
    BY <1>0, <1>3, <2>1, ReadyKeeps DEF S!ScanBegins, S!MaskIsWhole
  <2>2. CASE mask = None
    <3>1. ScanTypeOK' /\ S!MaskIsWhole'
      BY <1>0, <1>3, <2>2 DEF ScanTypeOK, S!MaskIsWhole, S!ScanBegins
    <3>2. ASSUME NEW q \in Rooms PROVE OwedFits(q)'
      BY <1>0, <1>3, <2>2 DEF SInv, OwedFits, S!ScanBegins
    <3>3. ASSUME NEW q \in Rooms PROVE JobFits(q)'
      <4>1. ScanFound(0)' = {} /\ 0 \in 0..Size
        BY <1>0, <1>3, WholeScan, ComponentsAssumption DEF ScanFound, S!ScanBegins, S!ScanAssumption
      <4> QED
        BY <1>0, <1>3, <2>2, <4>1 DEF SInv, ScanTypeOK, JobFits, ScanFound, S!ScanBegins
    <3> QED
      BY <3>1, <3>2, <3>3 DEF SInv
  <2> QED
    BY <2>1, <2>2
<1>4. ASSUME NEW r \in Rooms, S!ScanBatch(r) PROVE SInv'
  <2>1. PICK n \in 0..Size : jobs[r] = [at |-> n, found |-> ScanFound(n)]
    BY <1>4 DEF SInv, JobFits, S!ScanBatch
  <2>2. /\ n < Size /\ S!UpTo(n) \in 0..Size
        /\ S!Found(r) = ScanFound(S!UpTo(n))
    <3>1. n < Size /\ S!UpTo(n) \in 0..Size /\ n < S!UpTo(n)
      BY <1>4, <2>1, ComponentsAssumption DEF S!ScanBatch, S!UpTo, S!ScanAssumption
    <3>2. template \subseteq Nat
      BY <1>0, WholeScan, ComponentsAssumption DEF S!Blocks, S!ScanAssumption
    <3>3. S!Found(r) = ScanFound(n) \union {b \in template : n <= b /\ b < S!UpTo(n)}
      BY <2>1 DEF S!Found
    <3>4. Size \in Nat
      BY ComponentsAssumption DEF S!ScanAssumption
    <3>5. n \in Nat /\ S!UpTo(n) \in Nat
      BY <3>1, <3>4
    <3>6. ASSUME NEW b \in template
          PROVE  b < n \/ (n <= b /\ b < S!UpTo(n)) <=> b < S!UpTo(n)
      BY <3>1, <3>2, <3>5, <3>6
    <3> QED
      BY <3>1, <3>3, <3>6 DEF ScanFound
  <2>3. jobs' = [jobs EXCEPT ![r] = [at |-> S!UpTo(n), found |-> ScanFound(S!UpTo(n))]]
    BY <1>4, <2>1, <2>2 DEF S!ScanBatch
  <2>4. ScanTypeOK' /\ S!MaskIsWhole'
    BY <1>0, <1>4, <2>3 DEF ScanTypeOK, S!MaskIsWhole, S!ScanBatch
  <2>5. ASSUME NEW q \in Rooms PROVE OwedFits(q)'
    BY <1>0, <1>4 DEF SInv, OwedFits, S!ScanBatch
  <2>6. ASSUME NEW q \in Rooms PROVE JobFits(q)'
    BY <1>0, <1>4, <2>2, <2>3 DEF SInv, ScanTypeOK, JobFits, ScanFound, S!ScanBatch
  <2> QED
    BY <2>4, <2>5, <2>6 DEF SInv
<1>5. ASSUME NEW r \in Rooms, S!ScanEnds(r) PROVE SInv'
  <2>1. PICK n \in 0..Size : jobs[r] = [at |-> n, found |-> ScanFound(n)]
    BY <1>5 DEF SInv, JobFits, S!ScanEnds
  <2>2. jobs[r].found = template
    BY <1>0, <1>5, <2>1, WholeScan DEF S!ScanEnds
  <2> QED
    BY <1>0, <1>5, <2>2, ReadyKeeps DEF S!ScanEnds
<1>6. ASSUME NEW t \in SUBSET S!Blocks, S!SaveAnew(t) PROVE SInv'
  <2>1. ScanTypeOK' /\ S!MaskIsWhole'
    BY <1>0, <1>6 DEF ScanTypeOK, S!MaskIsWhole, S!SaveAnew
  <2>2. ASSUME NEW q \in Rooms PROVE JobFits(q)' /\ OwedFits(q)'
    BY <1>0, <1>6 DEF ScanTypeOK, JobFits, OwedFits, S!SaveAnew
  <2> QED
    BY <2>1, <2>2 DEF SInv
<1>7. ASSUME NEW r \in Rooms, NEW b \in S!Blocks, S!Break(r, b) \/ S!Place(r, b) PROVE SInv'
  <2>1. ScanTypeOK' /\ S!MaskIsWhole'
    BY <1>0, <1>7 DEF ScanTypeOK, S!MaskIsWhole, S!Break, S!Place
  <2>2. ASSUME NEW q \in Rooms PROVE JobFits(q)'
    BY <1>0, <1>7 DEF SInv, JobFits, ScanFound, S!Break, S!Place
  <2>3. ASSUME NEW q \in Rooms PROVE OwedFits(q)'
    <3>1. CASE S!Break(r, b)
      BY <1>0, <3>1 DEF SInv, ScanTypeOK, OwedFits, S!Break, S!Original
    <3>2. CASE S!Place(r, b)
      BY <1>0, <3>2 DEF SInv, ScanTypeOK, OwedFits, S!Place, S!Original
    <3> QED
      BY <1>7, <3>1, <3>2
  <2> QED
    BY <2>1, <2>2, <2>3 DEF SInv
<1>8. ASSUME NEW r \in Rooms, NEW b \in S!Blocks, S!RollbackFails(r, b) PROVE SInv'
  <2>1. ScanTypeOK' /\ S!MaskIsWhole'
    BY <1>0, <1>8 DEF ScanTypeOK, S!MaskIsWhole, S!RollbackFails
  <2>2. ASSUME NEW q \in Rooms PROVE JobFits(q)' /\ OwedFits(q)'
    BY <1>0, <1>8 DEF SInv, ScanTypeOK, JobFits, OwedFits, ScanFound, S!RollbackFails
  <2> QED
    BY <2>1, <2>2 DEF SInv
<1> QED
  BY <1>1, <1>2, <1>3, <1>4, <1>5, <1>6, <1>7, <1>8 DEF S!Next

-----------------------------------------------------------------------------
(* The boundary of a region.                                                 *)

\* What somebody was reported as is what the last scan saw of him.
Remembered(g) == heard[g] # None => B!Known(g) /\ (insideById[g] <=> heard[g] = "in")

ScanOf(c) ==
  c \in [todo : SUBSET Guests, alive : SUBSET Guests,
         calls : Guests \union {None}, event : {None, "enter", "leave"}]

BoundaryTypeOK ==
  /\ source \subseteq Guests /\ bound \in BOOLEAN
  /\ heard \in [Guests -> {None, "in", "out"}]
  /\ insideById \in [DOMAIN insideById -> BOOLEAN]

\* One scan at most is under way, of an attached component.
OneScan == scans = <<>> \/ (scans = <<scans[1]>> /\ ScanOf(scans[1]) /\ bound)

\* Who is in the source and was reported keeps being seen.
SeenAgain ==
  /\ bound => \A g \in source : Remembered(g)
  /\ scans # <<>> =>
       /\ \A g \in scans[1].todo : Remembered(g)
       /\ \A g \in source : heard[g] # None => g \in scans[1].alive \union scans[1].todo

BInv ==
  /\ BoundaryTypeOK /\ OneScan /\ SeenAgain
  /\ \A g \in Guests \ present : heard[g] = None

LEMMA BInvInit ==
  ASSUME B!Init
  PROVE  BInv
BY DEF B!Init, BInv, BoundaryTypeOK, OneScan, SeenAgain, Remembered

LEMMA InnerScan ==
  ASSUME OneScan, scans # <<>>
  PROVE  /\ B!Inner = scans[1] /\ ScanOf(B!Inner) /\ B!Outer = <<>> /\ Len(scans) = 1 /\ bound
         /\ \A c : Append(B!Outer, c) = <<c>>
<1>1. scans = <<scans[1]>> /\ ScanOf(scans[1]) /\ bound
  BY DEF OneScan
<1>2. Len(scans) = 1
  BY <1>1
<1>3. B!Outer = <<>>
  BY <1>1, <1>2 DEF B!Outer
<1> QED
  BY <1>1, <1>2, <1>3 DEF B!Inner

(* Writing down what a scan sees of a player.                                *)
LEMMA SeeKeeps ==
  ASSUME BInv, NEW g \in Guests, B!See(g)
  PROVE  BInv'
<1> DEFINE c == [B!Inner EXCEPT !.todo = @ \ {g}, !.alive = @ \union {g},
                   !.event = B!Report(g), !.calls = IF B!Report(g) = None THEN None ELSE g]
<1>1. /\ scans # <<>> /\ g \in scans[1].todo /\ g \in present
      /\ B!Inner = scans[1] /\ ScanOf(scans[1]) /\ bound
      /\ scans' = <<c>>
  BY InnerScan DEF BInv, B!See
<1>2. /\ c.todo = scans[1].todo \ {g} /\ c.alive = scans[1].alive \union {g}
      /\ ScanOf(c)
  <2>1. B!Report(g) \in {None, "enter", "leave"}
    BY DEF B!Report
  <2> QED
    BY <1>1, <2>1 DEF ScanOf
<1> HIDE DEF c
<1>3. /\ scans' # <<>> /\ scans'[1] = c /\ OneScan'
  <2>1. scans' # <<>> /\ scans'[1] = c /\ bound'
    BY <1>1 DEF B!See
  <2> QED
    BY <1>1, <1>2, <2>1 DEF OneScan, ScanOf
<1>4. /\ insideById' = [h \in DOMAIN insideById \union {g} |->
                         IF h = g THEN g \in within ELSE insideById[h]]
      /\ DOMAIN insideById' = DOMAIN insideById \union {g}
      /\ \A h \in DOMAIN insideById' :
           insideById'[h] = IF h = g THEN g \in within ELSE insideById[h]
  BY DEF B!See
<1>5. BoundaryTypeOK'
  <2>1. heard' \in [Guests -> {None, "in", "out"}]
    BY DEF BInv, BoundaryTypeOK, B!See
  <2>2. insideById' \in [DOMAIN insideById' -> BOOLEAN]
    <3>1. \A h \in DOMAIN insideById' : insideById'[h] \in BOOLEAN
      <4>1. \A h \in DOMAIN insideById : insideById[h] \in BOOLEAN
        BY DEF BInv, BoundaryTypeOK
      <4>2. insideById'[g] \in BOOLEAN
        <5>1. insideById'[g] = (g \in within)
          BY <1>4
        <5> QED
          BY <5>1
      <4>3. ASSUME NEW h \in DOMAIN insideById', h # g PROVE insideById'[h] \in BOOLEAN
        <5>1. h \in DOMAIN insideById /\ insideById'[h] = insideById[h]
          BY <1>4, <4>3
        <5> QED
          BY <4>1, <5>1
      <4> QED
        BY <4>2, <4>3
    <3>2. insideById' = [h \in DOMAIN insideById' |-> insideById'[h]]
      BY <1>4
    <3> QED
      BY <3>1, <3>2
  <2> QED
    BY <2>1, <2>2 DEF BInv, BoundaryTypeOK, B!See
<1>6. ASSUME NEW h \in Guests, Remembered(h) PROVE Remembered(h)'
  <2>1. CASE h # g
    BY <1>4, <1>6, <2>1 DEF BInv, BoundaryTypeOK, Remembered, B!Known, B!See
  <2>2. CASE h = g /\ B!Known(g) /\ B!Report(g) = None
    <3>1. heard' = heard /\ B!Known(g)' /\ insideById'[g] = (g \in within)
      BY <1>4, <2>2 DEF B!See, B!Known
    <3>2. (g \in within) <=> insideById[g]
      BY <2>2, ComponentsAssumption DEF B!Report, B!BoundaryAssumption
    <3> QED
      BY <1>6, <2>2, <3>1, <3>2 DEF Remembered
  <2>3. CASE h = g /\ ~(B!Known(g) /\ B!Report(g) = None)
    <3>1. heard'[g] = (IF g \in within THEN "in" ELSE "out")
      BY <2>3 DEF B!See, BInv, BoundaryTypeOK
    <3>2. B!Known(g)' /\ insideById'[g] = (g \in within)
      BY <1>4 DEF B!Known
    <3> QED
      BY <2>3, <3>1, <3>2 DEF Remembered
  <2> QED
    BY <2>1, <2>2, <2>3
<1>7. SeenAgain'
  <2>1. \A h \in source : Remembered(h)
    BY <1>1 DEF BInv, SeenAgain
  <2>2. \A h \in scans[1].todo : Remembered(h)
    BY <1>1 DEF BInv, SeenAgain
  <2>3. source' = source /\ source \subseteq Guests /\ scans[1].todo \subseteq Guests
    BY <1>1 DEF BInv, BoundaryTypeOK, ScanOf, B!See
  <2>4. ASSUME NEW h \in source, heard'[h] # None PROVE h \in c.alive \union c.todo
    <3>1. CASE h = g
      BY <1>2, <3>1
    <3>2. CASE h # g
      <4>1. heard[h] # None
        BY <2>3, <2>4, <3>2 DEF B!See, BInv, BoundaryTypeOK
      <4> QED
        BY <1>1, <1>2, <2>4, <4>1 DEF BInv, SeenAgain
    <3> QED
      BY <3>1, <3>2
  <2> QED
    BY <1>2, <1>3, <1>6, <2>1, <2>2, <2>3, <2>4 DEF SeenAgain
<1>8. \A h \in Guests \ present' : heard'[h] = None
  BY <1>1 DEF BInv, BoundaryTypeOK, B!See
<1> QED
  BY <1>3, <1>5, <1>7, <1>8 DEF BInv

LEMMA BInvNext ==
  ASSUME BInv, B!Next
  PROVE  BInv'
<1>0. /\ BoundaryTypeOK /\ OneScan /\ SeenAgain
      /\ \A g \in Guests \ present : heard[g] = None
  BY DEF BInv
<1>1. ASSUME B!Detach PROVE BInv'
  <2>1. scans = <<>> /\ scans' = <<>> /\ bound' = FALSE
    BY <1>1 DEF B!Detach
  <2> QED
    BY <1>0, <1>1, <2>1 DEF BInv, BoundaryTypeOK, OneScan, SeenAgain, B!Detach
<1>2. ASSUME B!RefreshBegins PROVE BInv'
  <2>1. scans = <<>> /\ bound /\ scans' = <<B!Scan>>
    BY <1>2 DEF B!RefreshBegins
  <2>2. B!Scan.todo = source /\ ScanOf(B!Scan)
    BY <1>0 DEF B!Scan, ScanOf, BoundaryTypeOK
  <2>3. OneScan'
    BY <1>2, <2>1, <2>2 DEF OneScan, ScanOf, B!RefreshBegins
  <2>4. SeenAgain'
    BY <1>0, <1>2, <2>1, <2>2 DEF SeenAgain, Remembered, B!Known, B!RefreshBegins
  <2> QED
    BY <1>0, <1>2, <2>3, <2>4 DEF BInv, BoundaryTypeOK, B!RefreshBegins
<1>3. ASSUME NEW c, scans # <<>>, scans' = <<c>>,
             c.todo \subseteq scans[1].todo, c.alive = scans[1].alive, ScanOf(c),
             \A g \in scans[1].todo \ c.todo : heard[g] = None,
             UNCHANGED <<source, present, within, bound, insideById, heard>>
      PROVE  BInv'
  <2>1. OneScan'
    BY <1>0, <1>3 DEF OneScan, ScanOf
  <2>2. SeenAgain'
    BY <1>0, <1>3 DEF SeenAgain, Remembered, B!Known
  <2> QED
    BY <1>0, <1>3, <2>1, <2>2 DEF BInv, BoundaryTypeOK
<1>4. ASSUME B!CallbackReturns PROVE BInv'
  <2> DEFINE c == [B!Inner EXCEPT !.calls = None, !.event = None]
  <2>1. scans # <<>> /\ scans' = <<c>> /\ B!Inner = scans[1] /\ ScanOf(scans[1])
    BY <1>0, <1>4, InnerScan DEF B!CallbackReturns
  <2>2. c.todo = scans[1].todo /\ c.alive = scans[1].alive /\ ScanOf(c)
    BY <2>1 DEF ScanOf
  <2> HIDE DEF c
  <2> QED
    BY <1>3, <1>4, <2>1, <2>2 DEF B!CallbackReturns
<1>5. ASSUME NEW g \in Guests, B!Overlook(g) PROVE BInv'
  <2> DEFINE c == [B!Inner EXCEPT !.todo = @ \ {g}]
  <2>1. scans # <<>> /\ scans' = <<c>> /\ B!Inner = scans[1] /\ ScanOf(scans[1])
    BY <1>0, <1>5, InnerScan DEF B!Overlook
  <2>2. c.todo = scans[1].todo \ {g} /\ c.alive = scans[1].alive /\ ScanOf(c)
    BY <2>1 DEF ScanOf
  <2> HIDE DEF c
  <2>3. heard[g] = None
    BY <1>0, <1>5 DEF B!Overlook
  <2> QED
    BY <1>3, <1>5, <2>1, <2>2, <2>3 DEF B!Overlook
<1>6. ASSUME B!RefreshEnds PROVE BInv'
  <2>1. /\ scans # <<>> /\ scans' = <<>> /\ bound
        /\ scans[1].todo = {} /\ B!Inner = scans[1]
    BY <1>0, <1>6, InnerScan DEF B!RefreshEnds
  <2>2. /\ DOMAIN insideById' = DOMAIN insideById \intersect scans[1].alive
        /\ \A g \in DOMAIN insideById' : insideById'[g] = insideById[g]
        /\ insideById' = [g \in DOMAIN insideById' |-> insideById[g]]
    BY <1>6, <2>1 DEF B!RefreshEnds
  <2>3. BoundaryTypeOK'
    BY <1>0, <1>6, <2>2 DEF BoundaryTypeOK, B!RefreshEnds
  <2>4. ASSUME NEW g \in source PROVE Remembered(g)'
    <3>1. Remembered(g) /\ (heard[g] # None => g \in scans[1].alive)
      BY <1>0, <2>1 DEF SeenAgain
    <3> QED
      BY <1>6, <2>2, <3>1 DEF Remembered, B!Known, B!RefreshEnds
  <2>5. SeenAgain'
    BY <1>6, <2>1, <2>4 DEF SeenAgain, B!RefreshEnds
  <2> QED
    BY <1>0, <1>6, <2>1, <2>3, <2>5 DEF BInv, OneScan, B!RefreshEnds
<1>7. ASSUME NEW g \in Guests,
             B!Enlist(g) \/ B!Dismiss(g) \/ B!Moves(g) \/ B!Quits(g) \/ B!Comes(g)
      PROVE  BInv'
  <2>1. /\ heard' \in {heard, [heard EXCEPT ![g] = None]}
        /\ \A h \in source' \ source : heard'[h] = None
        /\ source' \subseteq Guests
        /\ UNCHANGED <<bound, insideById, scans>>
        /\ \A h \in Guests \ present' : heard'[h] = None
    BY <1>0, <1>7 DEF BoundaryTypeOK, B!Enlist, B!Dismiss, B!Moves, B!Quits, B!Comes
  <2> HIDE <1>7
  <2>2. \A h \in Guests : heard'[h] \in {heard[h], None}
    BY <1>0, <2>1 DEF BoundaryTypeOK
  <2>3. BoundaryTypeOK' /\ OneScan'
    BY <1>0, <2>1 DEF BoundaryTypeOK, OneScan, ScanOf
  <2>4. SeenAgain'
    <3>1. \A h \in Guests : Remembered(h) => Remembered(h)'
      BY <2>1, <2>2 DEF Remembered, B!Known
    <3>2. scans # <<>> => scans[1].todo \subseteq Guests
      BY <1>0, InnerScan DEF ScanOf
    <3>3. ASSUME NEW h \in source' PROVE bound => Remembered(h)'
      <4>1. CASE h \in source
        BY <1>0, <3>1, <4>1 DEF SeenAgain, BoundaryTypeOK
      <4>2. CASE h \notin source
        BY <2>1, <4>2 DEF Remembered
      <4> QED
        BY <4>1, <4>2
    <3>4. ASSUME scans # <<>>, NEW h \in scans[1].todo PROVE Remembered(h)'
      BY <1>0, <3>1, <3>2, <3>4 DEF SeenAgain
    <3>5. ASSUME scans # <<>>, NEW h \in source', heard'[h] # None
          PROVE  h \in scans[1].alive \union scans[1].todo
      BY <1>0, <2>1, <2>2, <3>5 DEF SeenAgain, BoundaryTypeOK
    <3> QED
      BY <2>1, <3>3, <3>4, <3>5 DEF SeenAgain
  <2> QED
    BY <2>1, <2>3, <2>4 DEF BInv
<1> QED
  BY <1>1, <1>2, <1>4, <1>5, <1>6, <1>7, SeeKeeps DEF B!Next

(* Reports alternate in every step that makes one.                           *)
LEMMA BInvAlternates ==
  ASSUME BInv, B!Next
  PROVE  B!ReportsAlternate
<1> SUFFICES ASSUME NEW g \in Guests, B!Reported(g)
             PROVE  heard[g] # (IF B!Inner'.event = "leave" THEN "out" ELSE "in")
  BY DEF B!ReportsAlternate
<1>1. /\ scans # <<>> /\ Len(scans') = Len(scans) /\ Len(scans) = 1
      /\ B!Inner.calls = None /\ B!Inner'.calls = g /\ g # None
      /\ B!Inner = scans[1] /\ ScanOf(scans[1]) /\ bound
  BY InnerScan, ComponentsAssumption DEF BInv, B!Reported, B!BoundaryAssumption
<1>2. B!Inner' = scans'[1]
  BY <1>1 DEF B!Inner
<1>3. ASSUME NEW h \in Guests, B!Overlook(h) PROVE FALSE
  <2>1. scans' = <<[scans[1] EXCEPT !.todo = @ \ {h}]>>
    BY <1>1, <1>3, InnerScan DEF BInv, B!Overlook
  <2>2. scans'[1].calls = scans[1].calls
    BY <1>1, <2>1 DEF ScanOf
  <2> QED
    BY <1>1, <1>2, <2>2
<1>4. ~UNCHANGED scans
  BY <1>1, <1>2
<1>5. \E h \in Guests : B!See(h)
  <2>1. ASSUME B!RefreshBegins \/ B!RefreshEnds PROVE FALSE
    <3>1. CASE B!RefreshBegins
      BY <1>1, <3>1, ComponentsAssumption DEF B!RefreshBegins
    <3>2. CASE B!RefreshEnds
      <4>1. scans' = <<>>
        BY <1>1, <3>2, InnerScan DEF BInv, B!RefreshEnds
      <4> QED
        BY <1>1, <4>1
    <3> QED
      BY <2>1, <3>1, <3>2
  <2> QED
    BY <1>1, <1>3, <1>4, <2>1
    DEF B!Next, B!CallbackReturns, B!Detach, B!Enlist, B!Dismiss, B!Moves, B!Quits, B!Comes
<1>6. B!See(g) /\ B!Report(g) # None /\ B!Inner'.event = B!Report(g)
  <2>1. PICK h \in Guests : B!See(h)
    BY <1>5
  <2>2. scans' = <<[scans[1] EXCEPT !.todo = @ \ {h}, !.alive = @ \union {h},
                      !.event = B!Report(h), !.calls = IF B!Report(h) = None THEN None ELSE h]>>
    BY <1>1, <2>1, InnerScan DEF BInv, B!See
  <2>3. /\ scans'[1].event = B!Report(h)
        /\ scans'[1].calls = IF B!Report(h) = None THEN None ELSE h
    BY <1>1, <2>2 DEF ScanOf
  <2> QED
    BY <1>1, <1>2, <2>1, <2>3
<1>7. Remembered(g)
  BY <1>1, <1>6 DEF BInv, SeenAgain, B!See
<1>8. None \notin {"enter", "leave", "in", "out"}
  BY ComponentsAssumption DEF B!BoundaryAssumption
<1> QED
  BY <1>6, <1>7, <1>8 DEF Remembered, B!Report

-----------------------------------------------------------------------------
(* The timer: the stack of its loops and announcements.                      *)

TimerFrame ==
  [at : Nat \union {None}, left : Nat, phase : {"loop", "tick", "reset", "fire"},
   todo : SUBSET Listeners, all : SUBSET Listeners, calls : Listeners \union {None}]

\* A loop announces nothing itself; an announcement takes no steps.
FrameKind(f) ==
  /\ f.phase = "loop" => f.at = None
  /\ f.phase # "loop" => f.at # None /\ f.left = 0
  /\ f.phase # "fire" => f.all = {}
  /\ f.todo \subseteq f.all /\ f.calls \in f.all \union {None}

\* Only the outermost is a loop, no second is announced within itself, and nobody is heard
\* by two announcements.
TimerStack(q) ==
  /\ q \in Seq(TimerFrame)
  /\ \A i \in 1..Len(q) :
       /\ FrameKind(q[i]) /\ (i # 1 => q[i].phase # "loop")
       /\ \A j \in 1..Len(q) :
            i # j => q[i].at # q[j].at /\ q[i].all \intersect q[j].all = {}

LEMMA StackTop ==
  ASSUME NEW q, TimerStack(q), q # <<>>
  PROVE  /\ Len(q) \in 1..Len(q) /\ Len(q) \in Nat
         /\ q[Len(q)] \in TimerFrame /\ FrameKind(q[Len(q)])
         /\ SubSeq(q, 1, Len(q) - 1) \in Seq(TimerFrame)
         /\ Len(SubSeq(q, 1, Len(q) - 1)) = Len(q) - 1
         /\ \A i \in 1..(Len(q) - 1) : SubSeq(q, 1, Len(q) - 1)[i] = q[i] /\ i \in 1..Len(q)
<1>1. q \in Seq(TimerFrame)
  BY DEF TimerStack
<1>2. /\ Front(q) \in Seq(TimerFrame) /\ Len(Front(q)) = Len(q) - 1
      /\ Len(q) \in 1..Len(q)
      /\ Last(q) \in TimerFrame /\ Last(q) = q[Len(q)]
      /\ \A i \in 1..Len(Front(q)) : Front(q)[i] = q[i] /\ i \in 1..Len(q)
  BY <1>1, FrontFacts
<1>3. Front(q) = SubSeq(q, 1, Len(q) - 1)
  BY DEF Front
<1> QED
  BY <1>1, <1>2, <1>3 DEF TimerStack

LEMMA StackPopped ==
  ASSUME NEW q, TimerStack(q), q # <<>>
  PROVE  TimerStack(SubSeq(q, 1, Len(q) - 1))
BY StackTop DEF TimerStack

LEMMA StackPushed ==
  ASSUME NEW q, TimerStack(q), NEW f \in TimerFrame, FrameKind(f),
         f.phase # "loop", f.all = {}, \A i \in 1..Len(q) : q[i].at # f.at
  PROVE  /\ TimerStack(Append(q, f))
         /\ Len(Append(q, f)) = Len(q) + 1 /\ Len(q) \in Nat
         /\ \A i \in 1..Len(q) : Append(q, f)[i] = q[i]
         /\ Append(q, f)[Len(q) + 1] = f
<1>1. /\ Append(q, f) \in Seq(TimerFrame)
      /\ Len(Append(q, f)) = Len(q) + 1 /\ Len(q) \in Nat
      /\ \A i \in 1..Len(q) : Append(q, f)[i] = q[i]
      /\ Append(q, f)[Len(q) + 1] = f
  BY DEF TimerStack
<1> QED
  BY <1>1 DEF TimerStack

LEMMA StackEdited ==
  ASSUME NEW q, TimerStack(q), q # <<>>, NEW f \in TimerFrame, FrameKind(f),
         f.phase # "loop", f.at = q[Len(q)].at,
         \A i \in 1..(Len(q) - 1) : q[i].all \intersect f.all = {}
  PROVE  LET r == Append(SubSeq(q, 1, Len(q) - 1), f)
         IN  /\ TimerStack(r) /\ Len(r) = Len(q) /\ Len(q) \in 1..Len(q)
             /\ r[Len(q)] = f
             /\ \A i \in 1..Len(q) : i # Len(q) => r[i] = q[i]
<1> DEFINE b == SubSeq(q, 1, Len(q) - 1)
           r == Append(b, f)
<1>1. /\ Len(q) \in 1..Len(q) /\ Len(q) \in Nat /\ b \in Seq(TimerFrame)
      /\ Len(b) = Len(q) - 1 /\ \A i \in 1..(Len(q) - 1) : b[i] = q[i]
  BY StackTop
<1> HIDE DEF b
<1>2. /\ r \in Seq(TimerFrame) /\ Len(r) = Len(b) + 1
      /\ \A i \in 1..Len(b) : r[i] = b[i]
      /\ r[Len(b) + 1] = f
  BY <1>1
<1> HIDE DEF r
<1>3. /\ Len(r) = Len(q) /\ r[Len(q)] = f
      /\ \A i \in 1..Len(q) : i # Len(q) => r[i] = q[i]
  BY <1>1, <1>2
<1>4. TimerStack(r)
  <2>1. \A i \in 1..Len(q) : i # Len(q) => i \in 1..(Len(q) - 1)
    BY <1>1
  <2>2. ASSUME NEW i \in 1..Len(q)
        PROVE  FrameKind(r[i]) /\ (i # 1 => r[i].phase # "loop")
    BY <1>3, <2>2 DEF TimerStack
  <2>3. ASSUME NEW i \in 1..Len(q), NEW j \in 1..Len(q), i # j
        PROVE  r[i].at # r[j].at /\ r[i].all \intersect r[j].all = {}
    <3>1. CASE i = Len(q)
      BY <1>1, <1>3, <2>1, <2>3, <3>1 DEF TimerStack
    <3>2. CASE j = Len(q)
      BY <1>1, <1>3, <2>1, <2>3, <3>2 DEF TimerStack
    <3>3. CASE i # Len(q) /\ j # Len(q)
      BY <1>3, <2>3, <3>3 DEF TimerStack
    <3> QED
      BY <3>1, <3>2, <3>3
  <2> QED
    BY <1>2, <1>3, <2>2, <2>3 DEF TimerStack
<1> QED
  BY <1>1, <1>3, <1>4 DEF r, b

-----------------------------------------------------------------------------
(* The timer: the inductive invariant.                                       *)

TimerTypeOK ==
  /\ options \in [watch : BOOLEAN, compensate : BOOLEAN]
  /\ attached \in BOOLEAN /\ running \in BOOLEAN
  /\ time \in Nat /\ lastTime \in Nat /\ now \in Nat
  /\ events \in [Listeners -> Nat \union {None}]
  /\ base # None => base.time \in Nat /\ base.now \in Nat /\ base.owed \in Nat
  /\ spent \subseteq Listeners

\* Whom an announcement has taken waits for it or for nothing, and has not been called.
Waiting ==
  /\ \A i \in 1..Len(frames) :
       /\ \A l \in frames[i].all : events[l] \in {frames[i].at, None}
       /\ frames[i].all \intersect spent = {}
  /\ \A l \in spent : events[l] = None

\* The seconds counted since the base, with those the loop will count, without those that it
\* owed then.
Counted == T!Gone - base.owed + T!Owed

\* They end where the timer was last looked at, or before it by less than what a countdown has
\* no time left for.
Kept ==
  running /\ base # None =>
    /\ base.now + Counted * Second <= lastTime
    /\ options.compensate =>
         lastTime = base.now + Counted * Second \/ (~options.watch /\ time = T!Owed)

TInv ==
  /\ TimerTypeOK /\ TimerStack(frames) /\ Waiting
  /\ T!RunningHasTime /\ lastTime <= now /\ Kept

LEMMA TimerConstants ==
  /\ Second \in Nat \ {0} /\ MaxTime \in Nat /\ None \notin Nat /\ None \notin Listeners
  /\ Once \subseteq Listeners
BY ComponentsAssumption DEF T!TimerAssumption

LEMMA OwedIsNat ==
  ASSUME TInv
  PROVE  T!Owed \in Nat
<1>1. CASE frames = <<>>
  BY <1>1 DEF T!Owed
<1>2. CASE frames # <<>>
  <2>1. 1 \in 1..Len(frames) /\ frames \in Seq(TimerFrame)
    BY <1>2, StackTop DEF TInv, TimerStack
  <2>2. frames[1] \in TimerFrame
    BY <2>1, ElementOfSeq
  <2> QED
    BY <1>2, <2>2 DEF T!Owed, TimerFrame
<1> QED
  BY <1>1, <1>2

LEMMA CountedIsInt ==
  ASSUME TInv, base # None
  PROVE  T!Gone \in Int /\ T!Owed \in Nat /\ Counted \in Int /\ base.now \in Nat /\ base.owed \in Nat
<1>1. T!Gone \in Int /\ base.now \in Nat /\ base.owed \in Nat
  BY DEF TInv, TimerTypeOK, T!Gone
<1> QED
  BY <1>1, OwedIsNat DEF Counted

LEMMA TInvImplies ==
  ASSUME TInv
  PROVE  T!TimerIsSound
<1>1. T!KeepsTime
  <2> SUFFICES ASSUME running, base # None
               PROVE  /\ (T!Gone - base.owed) * Second <= now - base.now
                      /\ options.compensate /\ frames = <<>> =>
                           lastTime = base.now + (T!Gone - base.owed) * Second
    BY DEF T!KeepsTime
  <2> DEFINE gone == T!Gone - base.owed
  <2>1. gone \in Int /\ T!Owed \in Nat /\ Counted = gone + T!Owed /\ base.now \in Nat
        /\ now \in Nat /\ lastTime \in Nat /\ lastTime <= now /\ Second \in Nat
    BY CountedIsInt, TimerConstants DEF Counted, TInv, TimerTypeOK
  <2> HIDE DEF gone
  <2>2. Counted * Second = gone * Second + T!Owed * Second /\ T!Owed * Second >= 0
    BY <2>1
  <2>3. gone * Second <= now - base.now
    BY <2>1, <2>2 DEF TInv, Kept
  <2>4. ASSUME options.compensate, frames = <<>>
        PROVE  lastTime = base.now + gone * Second
    <3>1. T!Owed = 0 /\ Counted * Second = gone * Second
      BY <2>1, <2>2, <2>4 DEF T!Owed
    <3>2. options.watch \/ time # 0
      BY <2>1 DEF TInv, T!RunningHasTime, TimerTypeOK
    <3> QED
      BY <2>4, <3>1, <3>2 DEF TInv, Kept
  <2> QED
    BY <2>3, <2>4 DEF gone
<1>2. T!OnceMeansOnce
  <2> SUFFICES ASSUME NEW i \in 1..Len(frames), frames[i].calls # None
               PROVE  frames[i].calls \notin spent
    BY DEF T!OnceMeansOnce
  <2> QED
    BY DEF TInv, TimerStack, FrameKind, Waiting
<1> QED
  BY <1>1, <1>2 DEF TInv, T!TimerIsSound

LEMMA TInvInit ==
  ASSUME T!Init
  PROVE  TInv
<1>1. TimerStack(<<>>)
  BY DEF TimerStack
<1>2. TimerTypeOK
  <2>1. options \in [watch : BOOLEAN, compensate : BOOLEAN] /\ time \in Nat
    BY TimerConstants DEF T!Init
  <2>2. events \in [Listeners -> Nat \union {None}]
    BY DEF T!Init
  <2> QED
    BY <2>1, <2>2 DEF T!Init, TimerTypeOK
<1> QED
  BY <1>1, <1>2 DEF T!Init, TInv, Waiting, T!RunningHasTime, Kept


-----------------------------------------------------------------------------
(* The timer: the steps.                                                     *)

LEMMA AnnouncementFits ==
  ASSUME NEW t \in Nat, NEW stage \in {"tick", "reset"}
  PROVE  LET f == T!Announcement(t, stage)
         IN  /\ f \in TimerFrame /\ FrameKind(f) /\ f.phase # "loop" /\ f.all = {}
             /\ f.at = t /\ f.left = 0
BY TimerConstants DEF T!Announcement, TimerFrame, FrameKind

(* An announcement is made within those under way.                           *)
LEMMA Announces ==
  ASSUME TInv, NEW t \in Nat, NEW stage \in {"tick", "reset"}, T!MayAnnounce(t),
         frames' = Append(frames, T!Announcement(t, stage)),
         UNCHANGED <<events, spent>>
  PROVE  TimerStack(frames') /\ Waiting' /\ T!Owed' = T!Owed
<1> DEFINE f == T!Announcement(t, stage)
<1>1. f \in TimerFrame /\ FrameKind(f) /\ f.phase # "loop" /\ f.all = {} /\ f.at = t /\ f.left = 0
  BY AnnouncementFits
<1> HIDE DEF f
<1>2. TimerStack(frames) /\ \A i \in 1..Len(frames) : frames[i].at # f.at
  BY <1>1 DEF TInv, T!MayAnnounce
<1>3. /\ TimerStack(frames') /\ Len(frames') = Len(frames) + 1 /\ Len(frames) \in Nat
      /\ \A i \in 1..Len(frames) : frames'[i] = frames[i]
      /\ frames'[Len(frames) + 1] = f
  <2>1. frames' = Append(frames, f)
    BY DEF f
  <2> QED
    BY <1>1, <1>2, <2>1, StackPushed
<1>4. Waiting'
  <2>1. ASSUME NEW i \in 1..Len(frames')
        PROVE  /\ \A l \in frames'[i].all : events'[l] \in {frames'[i].at, None}
               /\ frames'[i].all \intersect spent' = {}
    <3>1. CASE i \in 1..Len(frames)
      BY <1>3, <3>1 DEF TInv, Waiting
    <3>2. CASE i = Len(frames) + 1
      BY <1>1, <1>3, <3>2
    <3> QED
      BY <1>3, <3>1, <3>2
  <2> QED
    BY <2>1 DEF TInv, Waiting
<1>5. T!Owed' = T!Owed
  <2>1. CASE frames = <<>>
    BY <1>1, <1>3, <2>1 DEF T!Owed
  <2>2. CASE frames # <<>>
    <3>1. frames' # <<>> /\ frames'[1] = frames[1]
      BY <1>2, <1>3, <2>2, StackTop
    <3> QED
      BY <2>2, <3>1 DEF T!Owed
  <2> QED
    BY <2>1, <2>2
<1> QED
  BY <1>3, <1>4, <1>5

(* The time is set or the timer started: it counts from here.                *)
LEMMA CountsAnew ==
  ASSUME TInv, NEW t \in Nat, time' = t, lastTime' = now, T!Rebased(t),
         T!Owed' = T!Owed, UNCHANGED <<options, now>>
  PROVE  /\ Kept' /\ lastTime' <= now'
         /\ base' # None => base'.time \in Nat /\ base'.now \in Nat /\ base'.owed \in Nat
<1>1. now \in Nat /\ T!Owed \in Nat
  BY OwedIsNat DEF TInv, TimerTypeOK
<1>2. base' = [time |-> t, now |-> now, owed |-> T!Owed]
  BY DEF T!Rebased
<1>3. T!Gone' = 0
  BY <1>2 DEF T!Gone
<1>4. Counted' = 0 /\ Counted' * Second = 0 /\ base'.now = now
  BY <1>1, <1>2, <1>3, TimerConstants DEF Counted
<1> QED
  BY <1>1, <1>2, <1>4 DEF Kept

LEMMA SetTimeKeeps ==
  ASSUME TInv, NEW t \in 0..MaxTime, T!SetTime(t)
  PROVE  TInv'
<1>1. t \in Nat
  BY TimerConstants
<1>2. TimerStack(frames') /\ Waiting' /\ T!Owed' = T!Owed
  <2>1. CASE UNCHANGED frames
    BY <2>1 DEF TInv, Waiting, T!Owed, T!SetTime
  <2>2. CASE ~UNCHANGED frames
    <3>1. \E stage \in {"tick", "reset"} :
            T!MayAnnounce(t) /\ frames' = Append(frames, T!Announcement(t, stage))
      BY <2>2 DEF T!SetTime
    <3> QED
      BY <1>1, <3>1, Announces DEF T!SetTime
  <2> QED
    BY <2>1, <2>2
<1>3. Kept' /\ lastTime' <= now' /\ (base' # None => base'.time \in Nat /\ base'.now \in Nat /\ base'.owed \in Nat)
  BY <1>1, <1>2, CountsAnew DEF T!SetTime
<1>4. TimerTypeOK' /\ T!RunningHasTime'
  BY <1>1, <1>3 DEF TInv, TimerTypeOK, T!RunningHasTime, T!SetTime
<1> QED
  BY <1>2, <1>3, <1>4 DEF TInv

LEMMA StartKeeps ==
  ASSUME TInv, T!Start
  PROVE  TInv'
<1>1. time \in Nat
  BY DEF TInv, TimerTypeOK
<1>2. TimerStack(frames') /\ Waiting' /\ T!Owed' = T!Owed
  BY <1>1, Announces DEF T!Start
<1>3. Kept' /\ lastTime' <= now' /\ (base' # None => base'.time \in Nat /\ base'.now \in Nat /\ base'.owed \in Nat)
  BY <1>1, <1>2, CountsAnew DEF T!Start
<1>4. TimerTypeOK' /\ T!RunningHasTime'
  BY <1>1, <1>3 DEF TInv, TimerTypeOK, T!RunningHasTime, T!Start
<1> QED
  BY <1>2, <1>3, <1>4 DEF TInv

LEMMA HeardAreListeners ==
  ASSUME TInv
  PROVE  \A i \in 1..Len(frames) :
           frames[i] \in TimerFrame /\ frames[i].all \subseteq Listeners
<1>1. \A i \in 1..Len(frames) : frames[i] \in TimerFrame
  BY ElementOfSeq DEF TInv, TimerStack
<1> QED
  BY <1>1 DEF TimerFrame

(* Subscribing, stopping and the clock, which moves between the ticks.       *)
LEMMA CallsKeep ==
  ASSUME TInv,
         \/ T!Stop \/ T!Detach \/ T!ClockAdvances
         \/ \E l \in Listeners : T!Unsubscribe(l) \/ \E t \in 0..MaxTime : T!SubscribeAt(l, t)
  PROVE  TInv'
<1>0. /\ TimerTypeOK /\ UNCHANGED <<options, time, lastTime, frames, base>>
      /\ TimerStack(frames')
  BY DEF TInv, T!Stop, T!Detach, T!ClockAdvances, T!Unsubscribe, T!SubscribeAt
<1>1. TimerTypeOK' /\ now <= now' /\ (running' => running)
  <2>1. CASE T!Stop
    <3>1. running' = FALSE /\ attached' \in BOOLEAN /\ now' = now /\ now \in Nat /\ spent' = spent
      BY <1>0, <2>1 DEF TimerTypeOK, T!Stop
    <3>2. events' \in [Listeners -> Nat \union {None}]
      BY <1>0, <2>1 DEF TimerTypeOK, T!Stop
    <3>3. TimerTypeOK'
      BY <1>0, <3>1, <3>2 DEF TimerTypeOK
    <3>4. now <= now'
      BY <3>1
    <3>5. running' => running
      BY <3>1
    <3> QED
      BY <3>3, <3>4, <3>5
  <2>2. CASE T!Detach
    <3>1. running' = FALSE /\ attached' \in BOOLEAN /\ now' = now /\ now \in Nat /\ spent' = spent
      BY <1>0, <2>2 DEF TimerTypeOK, T!Detach
    <3>2. events' \in [Listeners -> Nat \union {None}]
      BY <1>0, <2>2 DEF TimerTypeOK, T!Detach
    <3>3. TimerTypeOK'
      BY <1>0, <3>1, <3>2 DEF TimerTypeOK
    <3>4. now <= now'
      BY <3>1
    <3>5. running' => running
      BY <3>1
    <3> QED
      BY <3>3, <3>4, <3>5
  <2>3. CASE T!ClockAdvances
    BY <1>0, <2>3 DEF TimerTypeOK, T!ClockAdvances
  <2>4. ASSUME NEW l \in Listeners, T!Unsubscribe(l)
        PROVE  TimerTypeOK' /\ now <= now' /\ (running' => running)
    BY <1>0, <2>4 DEF TimerTypeOK, T!Unsubscribe
  <2>5. ASSUME NEW l \in Listeners, NEW t \in 0..MaxTime, T!SubscribeAt(l, t)
        PROVE  TimerTypeOK' /\ now <= now' /\ (running' => running)
    BY <1>0, <2>5, TimerConstants DEF TimerTypeOK, T!SubscribeAt
  <2> QED
    BY <2>1, <2>2, <2>3, <2>4, <2>5
<1>2. Waiting'
  <2>1. CASE T!Stop \/ T!ClockAdvances
    BY <1>0, <2>1 DEF TInv, Waiting, T!Stop, T!ClockAdvances
  <2>2. CASE T!Detach
    <3>1. \A l \in Listeners : events'[l] = None
      BY <2>2 DEF T!Detach
    <3>2. \A i \in 1..Len(frames) : frames[i].all \subseteq Listeners
      BY HeardAreListeners
    <3> QED
      BY <1>0, <2>2, <3>1, <3>2 DEF TInv, Waiting, TimerTypeOK, T!Detach
  <2>3. ASSUME NEW l \in Listeners, T!Unsubscribe(l) PROVE Waiting'
    <3>1. UNCHANGED spent /\ \A k \in Listeners : events'[k] \in {events[k], None}
      BY <1>0, <2>3 DEF TimerTypeOK, T!Unsubscribe
    <3>2. \A i \in 1..Len(frames) : frames[i].all \subseteq Listeners
      BY HeardAreListeners
    <3> QED
      BY <1>0, <3>1, <3>2 DEF TInv, Waiting, TimerTypeOK
  <2>4. ASSUME NEW l \in Listeners, NEW t \in 0..MaxTime, T!SubscribeAt(l, t) PROVE Waiting'
    <3>1. /\ spent' = spent \ {l} /\ \A k \in Listeners : k # l => events'[k] = events[k]
          /\ \A i \in 1..Len(frames) : l \notin frames[i].all
      BY <1>0, <2>4 DEF TimerTypeOK, T!SubscribeAt
    <3>2. \A i \in 1..Len(frames) : frames[i].all \subseteq Listeners
      BY HeardAreListeners
    <3> QED
      BY <1>0, <3>1, <3>2 DEF TInv, Waiting, TimerTypeOK
  <2> QED
    BY <2>1, <2>2, <2>3, <2>4
<1>3. T!RunningHasTime' /\ lastTime' <= now'
  BY <1>0, <1>1 DEF TInv, T!RunningHasTime, TimerTypeOK
<1>4. Kept'
  BY <1>0, <1>1 DEF TInv, Kept, Counted, T!Owed, T!Gone
<1> QED
  BY <1>0, <1>1, <1>2, <1>3, <1>4 DEF TInv

LEMMA IntervalKeeps ==
  ASSUME TInv, T!IntervalTick
  PROVE  TInv'
<1> DEFINE n == IF options.watch \/ T!Steps < time THEN T!Steps ELSE time
           f == T!Loop(n)
<1>0. /\ TimerTypeOK /\ frames = <<>> /\ running /\ now - lastTime >= Second
      /\ frames' = <<f>> /\ Second \in Nat \ {0}
      /\ UNCHANGED <<options, attached, running, time, now, events, base, spent>>
  BY TimerConstants DEF TInv, T!IntervalTick
<1>1. T!Steps \in Nat /\ T!Steps * Second <= now - lastTime
  <2>1. now - lastTime \in Nat
    BY <1>0 DEF TimerTypeOK
  <2> QED
    BY <1>0, <2>1 DEF T!Steps
<1>2. n \in Nat /\ n <= T!Steps /\ (n = T!Steps \/ (~options.watch /\ n = time))
  BY <1>0, <1>1 DEF TimerTypeOK
<1>3. /\ f \in TimerFrame /\ FrameKind(f) /\ f.left = n /\ f.all = {}
  BY <1>2 DEF T!Loop, TimerFrame, FrameKind
<1>4. /\ Len(frames') = 1 /\ frames'[1] = f /\ T!Owed' = n
  BY <1>0, <1>3 DEF T!Owed
<1> HIDE DEF n, f
<1>5. TimerStack(frames')
  BY <1>0, <1>3, <1>4 DEF TimerStack
<1>6. Waiting'
  BY <1>0, <1>3, <1>4 DEF TInv, Waiting
<1>7. /\ lastTime' \in Nat /\ lastTime' <= now /\ lastTime + T!Steps * Second <= lastTime'
      /\ options.compensate => lastTime' = lastTime + T!Steps * Second
  BY <1>0, <1>1 DEF TimerTypeOK, T!IntervalTick
<1>8. Kept'
  <2> SUFFICES ASSUME base # None
               PROVE  /\ base.now + Counted' * Second <= lastTime'
                      /\ options.compensate =>
                           \/ lastTime' = base.now + Counted' * Second
                           \/ ~options.watch /\ time = n
    BY <1>0, <1>4 DEF Kept
  <2>1. base.now \in Nat /\ Counted' = Counted + n /\ Counted \in Int
    <3>1. T!Gone' = T!Gone /\ base' = base
      BY <1>0 DEF T!Gone
    <3>2. T!Owed = 0 /\ T!Owed' = n
      BY <1>0, <1>4 DEF T!Owed
    <3>3. T!Gone \in Int /\ base.owed \in Nat /\ base.now \in Nat
      BY CountedIsInt
    <3> QED
      BY <1>2, <3>1, <3>2, <3>3 DEF Counted
  <2>2. Counted' * Second = Counted * Second + n * Second /\ n * Second <= T!Steps * Second
    BY <1>0, <1>1, <1>2, <2>1
  <2>3. /\ base.now + Counted * Second <= lastTime
        /\ options.compensate => lastTime = base.now + Counted * Second
    <3>1. T!Owed = 0 /\ (options.watch \/ time # 0)
      BY <1>0 DEF TInv, T!RunningHasTime, TimerTypeOK, T!Owed
    <3> QED
      BY <1>0, <3>1 DEF TInv, Kept
  <2>4. Counted * Second \in Int /\ n * Second \in Int /\ T!Steps * Second \in Int
    BY <1>0, <1>1, <1>2, <2>1
  <2>5. lastTime \in Nat /\ lastTime' \in Nat
    BY <1>0, <1>7 DEF TimerTypeOK
  <2>6. base.now + Counted' * Second <= lastTime'
    BY <1>7, <2>1, <2>2, <2>3, <2>4, <2>5
  <2>7. ASSUME options.compensate, n = T!Steps PROVE lastTime' = base.now + Counted' * Second
    BY <1>7, <2>1, <2>2, <2>3, <2>4, <2>5, <2>7
  <2> QED
    BY <1>2, <2>6, <2>7
<1>9. TimerTypeOK' /\ T!RunningHasTime'
  BY <1>0, <1>7 DEF TInv, TimerTypeOK, T!RunningHasTime
<1> QED
  BY <1>0, <1>5, <1>6, <1>7, <1>8, <1>9 DEF TInv

LEMMA TopFits ==
  ASSUME TInv, frames # <<>>
  PROVE  /\ T!Top \in TimerFrame /\ FrameKind(T!Top) /\ T!Top = frames[Len(frames)]
         /\ Len(frames) \in 1..Len(frames) /\ Len(frames) \in Nat
         /\ T!Below = SubSeq(frames, 1, Len(frames) - 1)
         /\ T!Top.phase = "loop" => Len(frames) = 1
BY StackTop DEF TInv, TimerStack, T!Top, T!Below

(* What is done is taken off the stack.                                      *)
LEMMA Pops ==
  ASSUME TInv, frames # <<>>, frames' = T!Below
  PROVE  /\ TimerStack(frames') /\ Len(frames') = Len(frames) - 1
         /\ \A i \in 1..Len(frames') :
              frames'[i] = frames[i] /\ i \in 1..Len(frames) /\ i # Len(frames)
         /\ T!Top.left = 0 => T!Owed' = T!Owed
<1>1. TimerStack(frames)
  BY DEF TInv
<1>2. /\ TimerStack(frames') /\ Len(frames') = Len(frames) - 1
      /\ Len(frames) \in Nat /\ Len(frames) \in 1..Len(frames)
      /\ \A i \in 1..(Len(frames) - 1) : frames'[i] = frames[i] /\ i \in 1..Len(frames)
  BY <1>1, TopFits, StackTop, StackPopped
<1>3. ASSUME T!Top.left = 0 PROVE T!Owed' = T!Owed
  <2>1. CASE Len(frames) = 1
    <3>1. frames' = <<>>
      BY <1>2, <2>1, StackTop
    <3> QED
      BY <1>3, <2>1, <3>1, TopFits DEF T!Owed
  <2>2. CASE Len(frames) # 1
    <3>1. frames' # <<>> /\ frames'[1] = frames[1]
      BY <1>2, <2>2
    <3> QED
      BY <3>1 DEF T!Owed
  <2> QED
    BY <2>1, <2>2
<1> QED
  BY <1>2, <1>3

(* An announcement goes on.                                                  *)
LEMMA Edits ==
  ASSUME TInv, frames # <<>>, T!Top.phase # "loop",
         NEW f \in TimerFrame, FrameKind(f), f.phase # "loop", f.at = T!Top.at,
         \A i \in 1..Len(frames) : i # Len(frames) => frames[i].all \intersect f.all = {},
         frames' = Append(T!Below, f),
         f.all \intersect spent = {}, \A l \in f.all : events[l] \in {f.at, None},
         UNCHANGED <<options, attached, running, time, lastTime, now, events, base, spent>>
  PROVE  TInv'
<1>1. TimerStack(frames) /\ T!Top = frames[Len(frames)] /\ Len(frames) \in 1..Len(frames)
      /\ Len(frames) \in Nat
  BY TopFits DEF TInv
<1>2. /\ TimerStack(frames') /\ Len(frames') = Len(frames)
      /\ frames'[Len(frames)] = f
      /\ \A i \in 1..Len(frames) : i # Len(frames) => frames'[i] = frames[i]
  <2>1. frames' = Append(SubSeq(frames, 1, Len(frames) - 1), f)
    BY TopFits
  <2>2. \A i \in 1..(Len(frames) - 1) : frames[i].all \intersect f.all = {}
    BY <1>1
  <2> QED
    BY <1>1, <2>1, <2>2, StackEdited
<1>3. Waiting'
  <2>1. ASSUME NEW i \in 1..Len(frames')
        PROVE  /\ \A l \in frames'[i].all : events'[l] \in {frames'[i].at, None}
               /\ frames'[i].all \intersect spent' = {}
    <3>1. CASE i = Len(frames)
      BY <1>2, <3>1
    <3>2. CASE i # Len(frames)
      BY <1>2, <3>2 DEF TInv, Waiting
    <3> QED
      BY <3>1, <3>2
  <2> QED
    BY <2>1 DEF TInv, Waiting
<1>4. T!Owed' = T!Owed
  <2>1. frames' # <<>>
    BY <1>1, <1>2
  <2>2. CASE Len(frames) = 1
    <3>1. T!Top.left = 0 /\ f.left = 0
      BY TopFits DEF FrameKind
    <3> QED
      BY <1>1, <1>2, <2>1, <2>2, <3>1 DEF T!Owed
  <2>3. CASE Len(frames) # 1
    <3>1. frames'[1] = frames[1]
      BY <1>1, <1>2, <2>3
    <3> QED
      BY <2>1, <3>1 DEF T!Owed
  <2> QED
    BY <2>2, <2>3
<1>5. Kept'
  BY <1>4 DEF TInv, Kept, Counted, T!Gone
<1> QED
  BY <1>2, <1>3, <1>5 DEF TInv, TimerTypeOK, T!RunningHasTime

LEMMA AdvanceStepKeeps ==
  ASSUME TInv, T!AdvanceStep
  PROVE  TInv'
<1> DEFINE current == IF options.watch THEN time + 1 ELSE IF time = 0 THEN 0 ELSE time - 1
           f == [T!Top EXCEPT !.left = @ - 1]
           g == T!Announcement(current, "tick")
<1>1. /\ frames # <<>> /\ T!Top.phase = "loop" /\ T!Top.left > 0 /\ running
      /\ time' = current /\ running' = (options.watch \/ current > 0)
      /\ frames' = Append(Append(T!Below, f), g)
      /\ UNCHANGED <<options, attached, lastTime, now, events, base, spent>>
  BY DEF T!AdvanceStep
<1>2. /\ current \in Nat /\ time \in Nat
      /\ ~options.watch => time > 0 /\ current = time - 1
      /\ options.watch => current = time + 1
  BY <1>1 DEF TInv, TimerTypeOK, T!RunningHasTime
<1>3. /\ g \in TimerFrame /\ FrameKind(g) /\ g.phase # "loop" /\ g.all = {} /\ g.left = 0
      /\ g.at = current
  BY <1>2, AnnouncementFits
<1>4. /\ Len(frames) = 1 /\ T!Top = frames[1] /\ T!Below = <<>>
      /\ T!Top \in TimerFrame /\ FrameKind(T!Top)
  <2>1. T!Below = SubSeq(frames, 1, Len(frames) - 1) /\ Len(frames) = 1
    BY <1>1, TopFits
  <2>2. /\ Len(SubSeq(frames, 1, Len(frames) - 1)) = Len(frames) - 1
        /\ SubSeq(frames, 1, Len(frames) - 1) \in Seq(TimerFrame)
    BY <1>1, StackTop DEF TInv
  <2>3. T!Below = <<>>
    BY <2>1, <2>2
  <2> QED
    BY <1>1, <2>1, <2>3, TopFits
<1>5. /\ f \in TimerFrame /\ FrameKind(f) /\ f.left = T!Top.left - 1 /\ f.left \in Nat
      /\ f.all = {} /\ f.at = None
  BY <1>1, <1>4 DEF TimerFrame, FrameKind
<1> HIDE DEF f, g, current
<1>6. /\ frames' \in Seq(TimerFrame) /\ Len(frames') = 2 /\ frames'[1] = f /\ frames'[2] = g
      /\ frames' # <<>>
  <2> DEFINE a == Append(<<>>, f)
  <2>1. frames' = Append(a, g)
    BY <1>1, <1>4
  <2>2. a \in Seq(TimerFrame) /\ Len(a) = 1 /\ a[1] = f
    BY <1>5
  <2> HIDE DEF a
  <2>3. /\ Append(a, g) \in Seq(TimerFrame) /\ Len(Append(a, g)) = 2
        /\ Append(a, g)[1] = f /\ Append(a, g)[2] = g
    <3>1. \A q \in Seq(TimerFrame), e \in TimerFrame :
            /\ Append(q, e) \in Seq(TimerFrame) /\ Len(Append(q, e)) = Len(q) + 1
            /\ \A i \in 1..Len(q) : Append(q, e)[i] = q[i]
            /\ Append(q, e)[Len(q) + 1] = e
      BY PushFacts
    <3>2. g \in TimerFrame /\ a \in Seq(TimerFrame)
      BY <1>3, <2>2
    <3>3. /\ Append(a, g) \in Seq(TimerFrame) /\ Len(Append(a, g)) = Len(a) + 1
          /\ \A i \in 1..Len(a) : Append(a, g)[i] = a[i]
          /\ Append(a, g)[Len(a) + 1] = g
      BY <3>1, <3>2
    <3> QED
      BY <2>2, <3>3
  <2> QED
    BY <2>1, <2>3
<1>7. TimerStack(frames')
  <2>1. frames' \in Seq(TimerFrame)
    BY <1>6
  <2>2. f.at # g.at
    BY <1>2, <1>3, <1>5, TimerConstants
  <2> QED
    BY <1>3, <1>5, <1>6, <2>1, <2>2 DEF TimerStack
<1>8. Waiting'
  BY <1>1, <1>3, <1>5, <1>6 DEF TInv, Waiting
<1>9. T!Owed = T!Top.left /\ T!Owed' = T!Owed - 1 /\ T!Owed \in Nat
  BY <1>1, <1>4, <1>5, <1>6 DEF T!Owed, TimerFrame
<1>10. Kept'
  <2> SUFFICES ASSUME base # None
               PROVE  /\ Counted' = Counted
                      /\ ~options.watch /\ time = T!Owed => ~options.watch /\ time' = T!Owed'
    BY <1>1 DEF TInv, Kept
  <2>1. Counted' = Counted
    <3>1. base.time \in Nat
      BY DEF TInv, TimerTypeOK
    <3>2. T!Gone' = T!Gone + 1
      <4>1. CASE options.watch
        BY <1>1, <1>2, <3>1, <4>1 DEF T!Gone
      <4>2. CASE ~options.watch
        BY <1>1, <1>2, <3>1, <4>2 DEF T!Gone
      <4> QED
        BY <4>1, <4>2
    <3>3. T!Gone \in Int /\ base.owed \in Nat /\ base' = base
      BY <1>1, CountedIsInt
    <3> QED
      BY <1>9, <3>2, <3>3 DEF Counted
  <2>2. ~options.watch /\ time = T!Owed => ~options.watch /\ time' = T!Owed'
    BY <1>1, <1>2, <1>9
  <2> QED
    BY <2>1, <2>2
<1>11. running' \in BOOLEAN /\ T!RunningHasTime'
  BY <1>1, <1>2 DEF T!RunningHasTime
<1> QED
  BY <1>1, <1>2, <1>7, <1>8, <1>10, <1>11 DEF TInv, TimerTypeOK

LEMMA AdvanceEndsKeeps ==
  ASSUME TInv, T!AdvanceEnds
  PROVE  TInv'
<1>1. /\ frames # <<>> /\ frames' = T!Below /\ (T!Top.left = 0 \/ ~running)
      /\ UNCHANGED <<options, attached, running, time, lastTime, now, events, base, spent>>
  BY DEF T!AdvanceEnds
<1>2. /\ TimerStack(frames')
      /\ \A i \in 1..Len(frames') : frames'[i] = frames[i] /\ i \in 1..Len(frames)
      /\ T!Top.left = 0 => T!Owed' = T!Owed
  BY <1>1, Pops
<1>3. Waiting'
  BY <1>1, <1>2 DEF TInv, Waiting
<1>4. Kept'
  BY <1>1, <1>2 DEF TInv, Kept, Counted, T!Gone
<1> QED
  BY <1>1, <1>2, <1>3, <1>4 DEF TInv, TimerTypeOK, T!RunningHasTime

LEMMA TickReturnsKeeps ==
  ASSUME TInv, T!TickReturns
  PROVE  TInv'
<1>0. /\ frames # <<>> /\ T!Top.phase \in {"tick", "reset"}
      /\ UNCHANGED <<options, attached, running, time, lastTime, now, events, base, spent>>
      /\ T!Top \in TimerFrame /\ FrameKind(T!Top) /\ T!Top = frames[Len(frames)]
      /\ Len(frames) \in 1..Len(frames)
  BY TopFits DEF T!TickReturns
<1>1. CASE T!Top.phase = "reset"
  <2>1. frames' = T!Below /\ T!Top.left = 0
    BY <1>0, <1>1 DEF T!TickReturns, FrameKind
  <2>2. /\ TimerStack(frames') /\ T!Owed' = T!Owed
        /\ \A i \in 1..Len(frames') : frames'[i] = frames[i] /\ i \in 1..Len(frames)
    BY <1>0, <2>1, Pops
  <2>3. Waiting'
    BY <1>0, <2>2 DEF TInv, Waiting
  <2>4. Kept'
    BY <1>0, <2>2 DEF TInv, Kept, Counted, T!Gone
  <2> QED
    BY <1>0, <2>2, <2>3, <2>4 DEF TInv, TimerTypeOK, T!RunningHasTime
<1>2. CASE T!Top.phase = "tick"
  <2> DEFINE due == {l \in Listeners : events[l] = T!Top.at}
             f == [T!Top EXCEPT !.phase = "fire", !.todo = due, !.all = due]
  <2>1. frames' = Append(T!Below, f)
    BY <1>2 DEF T!TickReturns
  <2>2. due \subseteq Listeners /\ \A l \in due : events[l] = T!Top.at
    OBVIOUS
  <2>3. T!Top.at # None
    BY <1>0, <1>2 DEF FrameKind
  <2>4. \A i \in 1..Len(frames) : i # Len(frames) => frames[i].all \intersect due = {}
    <3>1. \A i \in 1..Len(frames) : i # Len(frames) => frames[i].at # T!Top.at
      BY <1>0 DEF TInv, TimerStack
    <3> QED
      BY <2>2, <2>3, <3>1 DEF TInv, Waiting
  <2>5. due \intersect spent = {}
    BY <2>2, <2>3 DEF TInv, Waiting
  <2> HIDE DEF due
  <2>6. /\ f \in TimerFrame /\ f.phase = "fire" /\ f.at = T!Top.at /\ f.all = due
        /\ FrameKind(f)
    <3>1. T!Top.left = 0 /\ T!Top.all = {} /\ T!Top.calls = None
      BY <1>0, <1>2, TimerConstants DEF FrameKind, TimerFrame
    <3> QED
      BY <1>0, <2>2, <2>3, <3>1 DEF TimerFrame, FrameKind
  <2> HIDE DEF f
  <2> QED
    BY <1>0, <1>2, <2>1, <2>2, <2>4, <2>5, <2>6, Edits
<1> QED
  BY <1>0, <1>1, <1>2

LEMMA FireKeeps ==
  ASSUME TInv, T!FireReturns \/ \E l \in Listeners : T!Fire(l)
  PROVE  TInv'
<1>0. /\ frames # <<>>
      /\ UNCHANGED <<options, attached, running, time, lastTime, now, events, base, spent>>
      /\ T!Top \in TimerFrame /\ FrameKind(T!Top) /\ T!Top = frames[Len(frames)]
      /\ Len(frames) \in 1..Len(frames)
  BY TopFits DEF T!Fire, T!FireReturns
<1>1. \E f \in TimerFrame :
        /\ frames' = Append(T!Below, f) /\ FrameKind(f)
        /\ f.phase = T!Top.phase /\ f.at = T!Top.at /\ f.all = T!Top.all
  <2>1. ASSUME NEW l \in Listeners, T!Fire(l)
        PROVE  LET f == [T!Top EXCEPT !.todo = @ \ {l}, !.calls = l]
               IN  /\ f \in TimerFrame /\ frames' = Append(T!Below, f) /\ FrameKind(f)
                   /\ f.phase = T!Top.phase /\ f.at = T!Top.at /\ f.all = T!Top.all
    BY <1>0, <2>1 DEF T!Fire, TimerFrame, FrameKind
  <2>2. ASSUME T!FireReturns
        PROVE  LET f == [T!Top EXCEPT !.calls = None]
               IN  /\ f \in TimerFrame /\ frames' = Append(T!Below, f) /\ FrameKind(f)
                   /\ f.phase = T!Top.phase /\ f.at = T!Top.at /\ f.all = T!Top.all
    BY <1>0, <2>2 DEF T!FireReturns, TimerFrame, FrameKind
  <2> QED
    BY <2>1, <2>2
<1>2. T!Top.phase = "fire"
  <2>1. CASE T!FireReturns
    BY <1>0, <2>1 DEF T!FireReturns, FrameKind
  <2>2. CASE \E l \in Listeners : T!Fire(l)
    BY <2>2 DEF T!Fire
  <2> QED
    BY <2>1, <2>2
<1>3. /\ \A i \in 1..Len(frames) : i # Len(frames) => frames[i].all \intersect T!Top.all = {}
      /\ T!Top.all \intersect spent = {}
      /\ \A l \in T!Top.all : events[l] \in {T!Top.at, None}
  BY <1>0 DEF TInv, TimerStack, Waiting
<1> QED
  BY <1>0, <1>1, <1>2, <1>3, Edits

LEMMA AnnouncedKeeps ==
  ASSUME TInv, T!Announced
  PROVE  TInv'
<1>0. /\ frames # <<>> /\ T!Top.phase = "fire" /\ frames' = T!Below
      /\ UNCHANGED <<options, attached, running, time, lastTime, now, base>>
      /\ T!Top \in TimerFrame /\ FrameKind(T!Top) /\ T!Top = frames[Len(frames)]
      /\ Len(frames) \in 1..Len(frames)
  BY TopFits DEF T!Announced
<1>1. /\ TimerStack(frames') /\ T!Owed' = T!Owed
      /\ \A i \in 1..Len(frames') :
           frames'[i] = frames[i] /\ i \in 1..Len(frames) /\ i # Len(frames)
  BY <1>0, Pops DEF FrameKind
<1>2. /\ spent' = spent \union (T!Top.all \intersect Once) /\ spent' \subseteq Listeners
      /\ \A l \in Listeners : events'[l] = IF l \in T!Top.all \intersect Once THEN None ELSE events[l]
      /\ events' \in [Listeners -> Nat \union {None}]
  BY TimerConstants DEF TInv, TimerTypeOK, T!Announced
<1>3. Waiting'
  <2>1. ASSUME NEW i \in 1..Len(frames')
        PROVE  /\ \A l \in frames'[i].all : events'[l] \in {frames'[i].at, None}
               /\ frames'[i].all \intersect spent' = {}
    <3>1. /\ frames'[i] = frames[i] /\ i \in 1..Len(frames)
          /\ frames[i].all \intersect T!Top.all = {}
          /\ frames[i].all \subseteq Listeners
      BY <1>0, <1>1, HeardAreListeners DEF TInv, TimerStack
    <3> QED
      BY <1>2, <3>1 DEF TInv, Waiting
  <2>2. \A l \in spent' : events'[l] = None
    BY <1>2 DEF TInv, Waiting
  <2> QED
    BY <2>1, <2>2 DEF Waiting
<1>4. Kept'
  BY <1>0, <1>1 DEF TInv, Kept, Counted, T!Gone
<1> QED
  BY <1>0, <1>1, <1>2, <1>3, <1>4 DEF TInv, TimerTypeOK, T!RunningHasTime

LEMMA TInvNext ==
  ASSUME TInv, T!Next
  PROVE  TInv'
BY CallsKeep, SetTimeKeeps, StartKeeps, IntervalKeeps, AdvanceStepKeeps, AdvanceEndsKeeps,
   TickReturnsKeeps, FireKeeps, AnnouncedKeeps DEF T!Next


-----------------------------------------------------------------------------
(* The components of a chunk.                                                *)

ScopeTypeOK ==
  /\ scoped \in BOOLEAN /\ active \in BOOLEAN /\ components \in Seq(Keys)
  /\ held \in [Keys -> {"none", "scope", "game"}]
  /\ callbacks \in Seq({"load", "reload", "rest"})

\* What is registered is the scope's, once each: also while a callback runs.
Registered ==
  /\ \A k \in Keys : held[k] = "scope" <=> \E i \in 1..Len(components) : components[i] = k
  /\ \A i, j \in 1..Len(components) : components[i] = components[j] => i = j

Leaving == callbacks # <<>> /\ C!Top # "load"

\* Only what is being loaded, or has been, has components; callbacks nest in loading only.
ScopeFits ==
  /\ (callbacks = <<>> \/ Leaving) /\ ~active => components = <<>>
  /\ Leaving => ~active
  /\ active => scoped
  /\ ~scoped => callbacks = <<>> \/ callbacks = <<"rest">>
  /\ \A i \in 1..Len(callbacks) : i # Len(callbacks) => callbacks[i] = "load"

CInv == ScopeTypeOK /\ Registered /\ ScopeFits

LEMMA CInvImplies ==
  ASSUME CInv
  PROVE  C!ScopeHasItsOwn
<1>1. C!ToSet(components) = {k \in Keys : held[k] = "scope"}
  <2>1. DOMAIN components = 1..Len(components) /\ \A i \in 1..Len(components) : components[i] \in Keys
    BY ElementOfSeq DEF CInv, ScopeTypeOK
  <2> QED
    BY <2>1 DEF CInv, Registered, C!ToSet
<1>2. C!IsInjective(components)
  <2>1. DOMAIN components = 1..Len(components)
    BY DEF CInv, ScopeTypeOK
  <2> QED
    BY <2>1 DEF CInv, Registered, C!IsInjective
<1> QED
  BY <1>1, <1>2 DEF CInv, ScopeFits, C!ScopeHasItsOwn, C!Idle

LEMMA CInvInit ==
  ASSUME C!Init
  PROVE  CInv
<1>1. ScopeTypeOK
  <2>1. scoped = TRUE /\ active = FALSE /\ components = <<>> /\ callbacks = <<>>
    BY DEF C!Init
  <2>2. held \in [Keys -> {"none", "scope", "game"}]
    BY DEF C!Init
  <2>3. scoped \in BOOLEAN /\ active \in BOOLEAN
    BY <2>1
  <2>4. components \in Seq(Keys) /\ callbacks \in Seq({"load", "reload", "rest"})
    BY <2>1
  <2> QED
    BY <2>2, <2>3, <2>4 DEF ScopeTypeOK
<1>2. Registered
  BY DEF C!Init, Registered
<1>3. ScopeFits
  BY DEF C!Init, ScopeFits, Leaving
<1> QED
  BY <1>1, <1>2, <1>3 DEF CInv

LEMMA ScopeStack ==
  ASSUME CInv
  PROVE  /\ callbacks \in Seq({"load", "reload", "rest"}) /\ Len(callbacks) \in Nat
         /\ callbacks # <<>> =>
              /\ C!Top = callbacks[Len(callbacks)] /\ C!Top \in {"load", "reload", "rest"}
              /\ C!Front(callbacks) = Front(callbacks)
              /\ Front(callbacks) \in Seq({"load", "reload", "rest"})
              /\ Len(Front(callbacks)) = Len(callbacks) - 1
              /\ Len(callbacks) \in 1..Len(callbacks)
              /\ \A i \in 1..Len(Front(callbacks)) :
                   /\ Front(callbacks)[i] = callbacks[i] /\ i \in 1..Len(callbacks)
                   /\ callbacks[i] = "load"
              /\ ~scoped => C!Top = "rest"
<1>1. callbacks \in Seq({"load", "reload", "rest"}) /\ Len(callbacks) \in Nat
  BY DEF CInv, ScopeTypeOK
<1> SUFFICES ASSUME callbacks # <<>>
             PROVE  /\ C!Top = callbacks[Len(callbacks)] /\ C!Top \in {"load", "reload", "rest"}
                    /\ C!Front(callbacks) = Front(callbacks)
                    /\ Front(callbacks) \in Seq({"load", "reload", "rest"})
                    /\ Len(Front(callbacks)) = Len(callbacks) - 1
                    /\ Len(callbacks) \in 1..Len(callbacks)
                    /\ \A i \in 1..Len(Front(callbacks)) :
                         /\ Front(callbacks)[i] = callbacks[i] /\ i \in 1..Len(callbacks)
                         /\ callbacks[i] = "load"
                    /\ ~scoped => C!Top = "rest"
  BY <1>1
<1>2. /\ Front(callbacks) \in Seq({"load", "reload", "rest"})
      /\ Len(Front(callbacks)) = Len(callbacks) - 1
      /\ Len(callbacks) \in 1..Len(callbacks)
      /\ Last(callbacks) \in {"load", "reload", "rest"}
      /\ Last(callbacks) = callbacks[Len(callbacks)]
      /\ \A i \in 1..Len(Front(callbacks)) :
           Front(callbacks)[i] = callbacks[i] /\ i \in 1..Len(callbacks)
  BY <1>1, FrontFacts
<1>3. C!Top = Last(callbacks) /\ C!Front(callbacks) = Front(callbacks)
  BY DEF C!Top, C!Last, C!Front, Last, Front
<1>4. \A i \in 1..Len(Front(callbacks)) : callbacks[i] = "load"
  BY <1>1, <1>2 DEF CInv, ScopeFits
<1>5. ~scoped => C!Top = "rest"
  BY <1>2, <1>3 DEF CInv, ScopeFits
<1> QED
  BY <1>1, <1>2, <1>3, <1>4, <1>5

(* clearComponents() takes exactly what is the scope's.                      *)
LEMMA ClearKeeps ==
  ASSUME CInv, C!Clear
  PROVE  Registered' /\ components' = <<>> /\ held' \in [Keys -> {"none", "scope", "game"}]
<1>1. \A k \in Keys : C!Contains(components, k) <=> held[k] = "scope"
  BY DEF CInv, Registered, C!Contains
<1>2. held' = [k \in Keys |-> IF held[k] = "scope" THEN "none" ELSE held[k]]
  BY <1>1 DEF C!Clear
<1> QED
  BY <1>2 DEF CInv, ScopeTypeOK, Registered, C!Clear

(* A callback begins, over loading ones.                                     *)
LEMMA CallbackBegins ==
  ASSUME CInv, callbacks = <<>> \/ C!Top = "load", NEW f \in {"load", "reload", "rest"},
         callbacks' = Append(callbacks, f)
  PROVE  /\ callbacks' \in Seq({"load", "reload", "rest"})
         /\ callbacks' # <<>> /\ C!Top' = f
         /\ \A i \in 1..Len(callbacks') : i # Len(callbacks') => callbacks'[i] = "load"
<1>1. callbacks \in Seq({"load", "reload", "rest"}) /\ Len(callbacks) \in Nat
  BY ScopeStack
<1>2. /\ callbacks' \in Seq({"load", "reload", "rest"}) /\ Len(callbacks') = Len(callbacks) + 1
      /\ \A i \in 1..Len(callbacks) : callbacks'[i] = callbacks[i]
      /\ callbacks'[Len(callbacks) + 1] = f
  BY <1>1
<1>3. \A i \in 1..Len(callbacks) : callbacks[i] = "load"
  BY <1>1, ScopeStack DEF CInv, ScopeFits
<1>4. callbacks' # <<>> /\ C!Top' = callbacks'[Len(callbacks')]
  BY <1>1, <1>2 DEF C!Top, C!Last
<1> QED
  BY <1>1, <1>2, <1>3, <1>4

(* A callback returns, to one that is loading if to any.                     *)
LEMMA CallbackEnds ==
  ASSUME CInv, callbacks # <<>>, callbacks' = Front(callbacks)
  PROVE  /\ callbacks' \in Seq({"load", "reload", "rest"})
         /\ callbacks' = <<>> \/ C!Top' = "load"
         /\ \A i \in 1..Len(callbacks') : i # Len(callbacks') => callbacks'[i] = "load"
         /\ ~scoped => callbacks' = <<>>
<1>1. /\ callbacks' \in Seq({"load", "reload", "rest"}) /\ Len(callbacks') = Len(callbacks) - 1
      /\ Len(callbacks) \in Nat
      /\ \A i \in 1..Len(callbacks') : callbacks'[i] = "load"
  BY ScopeStack
<1>2. callbacks' = <<>> \/ C!Top' = "load"
  <2> SUFFICES ASSUME callbacks' # <<>> PROVE C!Top' = "load"
    OBVIOUS
  <2>1. Len(callbacks') \in 1..Len(callbacks')
    BY <1>1
  <2> QED
    BY <1>1, <2>1 DEF C!Top, C!Last
<1>3. ASSUME ~scoped PROVE callbacks' = <<>>
  <2>1. Len(callbacks) = 1
    BY <1>3 DEF CInv, ScopeFits
  <2> QED
    BY <1>1, <2>1
<1> QED
  BY <1>1, <1>2, <1>3

(* deactivate(), where the scope is idle or loading.                         *)
LEMMA DeactivateKeeps ==
  ASSUME CInv, callbacks = <<>> \/ C!Top = "load", NEW next \in {"load", "reload", "rest"},
         C!Deactivate(next), scoped' \in BOOLEAN,
         scoped' \/ (callbacks = <<>> /\ next = "rest")
  PROVE  CInv'
<1>1. active' = FALSE /\ active' \in BOOLEAN /\ C!Clear
  BY DEF C!Deactivate
<1>2. Registered' /\ components' = <<>> /\ held' \in [Keys -> {"none", "scope", "game"}]
  BY <1>1, ClearKeeps
<1>3. CASE UNCHANGED callbacks
  <2>1. ScopeTypeOK'
    <3>1. components' \in Seq(Keys) /\ callbacks' \in Seq({"load", "reload", "rest"})
      BY <1>2, <1>3 DEF CInv, ScopeTypeOK
    <3> QED
      BY <1>1, <1>2, <3>1 DEF ScopeTypeOK
  <2>2. ScopeFits'
    BY <1>1, <1>2, <1>3, ScopeStack DEF CInv, ScopeFits, Leaving, C!Top, C!Last
  <2> QED
    BY <1>2, <2>1, <2>2 DEF CInv
<1>4. CASE callbacks' = Append(callbacks, next)
  <2>1. /\ callbacks' \in Seq({"load", "reload", "rest"})
        /\ callbacks' # <<>> /\ C!Top' = next
        /\ \A i \in 1..Len(callbacks') : i # Len(callbacks') => callbacks'[i] = "load"
    BY <1>4, CallbackBegins
  <2>2. ~scoped' => callbacks' = <<"rest">>
    <3>1. ~scoped' => callbacks = <<>> /\ next = "rest"
      OBVIOUS
    <3>2. Append(<<>>, "rest") = <<"rest">>
      OBVIOUS
    <3> QED
      BY <1>4, <3>1, <3>2
  <2>3. ScopeTypeOK'
    <3>1. components' \in Seq(Keys)
      BY <1>2
    <3> QED
      BY <1>1, <1>2, <2>1, <3>1 DEF ScopeTypeOK
  <2>4. ScopeFits'
    BY <1>1, <1>2, <2>1, <2>2 DEF ScopeFits, Leaving
  <2> QED
    BY <1>2, <2>3, <2>4 DEF CInv
<1> QED
  BY <1>3, <1>4 DEF C!Deactivate, C!Calls

LEMMA CInvNext ==
  ASSUME CInv, C!Next
  PROVE  CInv'
<1>0. ScopeTypeOK /\ Registered /\ ScopeFits
  BY DEF CInv
<1>1. ASSUME C!Sync PROVE CInv'
  <2>1. callbacks = <<>> /\ scoped /\ scoped' = scoped
    BY <1>1 DEF C!Sync, C!Idle
  <2>2. CASE C!Deactivate("rest")
    BY <1>0, <2>1, <2>2, DeactivateKeeps DEF ScopeTypeOK
  <2>3. CASE callbacks' = Append(callbacks, "load") /\ UNCHANGED <<active, components, held>>
    <3>1. /\ callbacks' \in Seq({"load", "reload", "rest"})
          /\ callbacks' # <<>> /\ C!Top' = "load"
          /\ \A i \in 1..Len(callbacks') : i # Len(callbacks') => callbacks'[i] = "load"
      BY <2>1, <2>3, CallbackBegins
    <3> QED
      BY <1>0, <2>1, <2>3, <3>1 DEF CInv, ScopeTypeOK, Registered, ScopeFits, Leaving
  <2> QED
    BY <1>1, <2>2, <2>3 DEF C!Sync, C!Calls
<1>2. ASSUME C!LoadReturns \/ C!LoadThrows PROVE CInv'
  <2>1. /\ callbacks # <<>> /\ C!Top = "load" /\ callbacks' = Front(callbacks)
        /\ scoped' = scoped /\ scoped
    BY <1>2, ScopeStack DEF C!LoadReturns, C!LoadThrows, C!Idle
  <2>2. /\ callbacks' \in Seq({"load", "reload", "rest"})
        /\ callbacks' = <<>> \/ C!Top' = "load"
        /\ \A i \in 1..Len(callbacks') : i # Len(callbacks') => callbacks'[i] = "load"
    BY <2>1, CallbackEnds
  <2>3. CASE C!LoadReturns
    <3>1. active' = TRUE /\ UNCHANGED <<components, held>>
      BY <2>3 DEF C!LoadReturns
    <3> QED
      BY <1>0, <2>1, <2>2, <3>1 DEF CInv, ScopeTypeOK, Registered, ScopeFits, Leaving
  <2>4. CASE C!LoadThrows
    <3>1. /\ active' = FALSE /\ components' = <<>> /\ Registered'
          /\ held' \in [Keys -> {"none", "scope", "game"}]
      BY <2>4, ClearKeeps DEF C!LoadThrows
    <3>2. active' \in BOOLEAN /\ scoped' \in BOOLEAN
      BY <1>0, <2>1, <3>1 DEF ScopeTypeOK
    <3>3. components' \in Seq(Keys)
      BY <3>1
    <3>4. ScopeTypeOK'
      BY <2>2, <3>1, <3>2, <3>3 DEF ScopeTypeOK
    <3>5. ScopeFits'
      BY <2>1, <2>2, <3>1 DEF ScopeFits, Leaving
    <3> QED
      BY <3>1, <3>4, <3>5 DEF CInv
  <2> QED
    BY <1>2, <2>3, <2>4
<1>3. ASSUME C!UnloadEnds PROVE CInv'
  <2>1. /\ callbacks # <<>> /\ Leaving /\ ~active /\ components = <<>>
        /\ UNCHANGED <<scoped, active, components, held>>
    BY <1>0, <1>3 DEF C!UnloadEnds, C!Idle, ScopeFits, Leaving
  <2>2. CASE callbacks' = Front(callbacks)
    <3>1. /\ callbacks' \in Seq({"load", "reload", "rest"})
          /\ callbacks' = <<>> \/ C!Top' = "load"
          /\ \A i \in 1..Len(callbacks') : i # Len(callbacks') => callbacks'[i] = "load"
          /\ ~scoped => callbacks' = <<>>
      BY <2>1, <2>2, CallbackEnds
    <3> QED
      BY <1>0, <2>1, <3>1 DEF CInv, ScopeTypeOK, Registered, ScopeFits, Leaving
  <2>3. CASE C!Top = "reload" /\ callbacks' = Append(Front(callbacks), "load")
    <3>1. scoped
      BY <2>1, <2>3, ScopeStack
    <3>2. /\ Front(callbacks) \in Seq({"load", "reload", "rest"})
          /\ Len(Front(callbacks)) \in Nat
          /\ \A i \in 1..Len(Front(callbacks)) : Front(callbacks)[i] = "load"
      BY <2>1, ScopeStack
    <3>3. /\ callbacks' \in Seq({"load", "reload", "rest"})
          /\ Len(callbacks') = Len(Front(callbacks)) + 1
          /\ \A i \in 1..Len(callbacks') : callbacks'[i] = "load"
      BY <2>3, <3>2
    <3>4. callbacks' # <<>> /\ C!Top' = "load"
      BY <3>2, <3>3 DEF C!Top, C!Last
    <3> QED
      BY <1>0, <2>1, <3>1, <3>3, <3>4 DEF CInv, ScopeTypeOK, Registered, ScopeFits, Leaving
  <2> QED
    BY <1>3, <2>1, <2>2, <2>3, ScopeStack DEF C!UnloadEnds
<1>4. ASSUME C!Reload PROVE CInv'
  <2>1. scoped /\ scoped' = scoped /\ (callbacks = <<>> \/ C!Top = "load")
    BY <1>4 DEF C!Reload, C!Idle
  <2> QED
    BY <1>0, <1>4, <2>1, DeactivateKeeps DEF C!Reload, ScopeTypeOK
<1>5. ASSUME C!Detach PROVE CInv'
  BY <1>5, DeactivateKeeps DEF C!Detach, C!Idle
<1>6. ASSUME C!Attach \/ C!ChunkChanges PROVE CInv'
  <2>1. /\ UNCHANGED <<active, components, held, callbacks>> /\ callbacks = <<>>
        /\ scoped' = scoped \/ scoped' = TRUE
    BY <1>6 DEF C!Attach, C!ChunkChanges, C!Idle
  <2>2. scoped' \in BOOLEAN /\ (scoped => scoped')
    BY <1>0, <2>1 DEF ScopeTypeOK
  <2>3. ScopeTypeOK' /\ Registered'
    BY <1>0, <2>1, <2>2 DEF ScopeTypeOK, Registered
  <2>4. ScopeFits'
    BY <1>0, <2>1, <2>2 DEF ScopeFits, Leaving
  <2> QED
    BY <2>3, <2>4 DEF CInv
<1>7. ASSUME NEW k \in Keys, C!Add(k) PROVE CInv'
  <2>1. /\ callbacks # <<>> /\ ~Leaving /\ held[k] = "none"
        /\ UNCHANGED <<scoped, active, callbacks>>
    BY <1>7 DEF C!Add, C!Idle, Leaving
  <2>2. /\ components' \in Seq(Keys) /\ Len(components') = Len(components) + 1
        /\ Len(components) \in Nat
        /\ \A i \in 1..Len(components) : components'[i] = components[i]
        /\ components'[Len(components) + 1] = k
    BY <1>0, <1>7, PushFacts DEF C!Add, ScopeTypeOK
  <2>3. held' = [held EXCEPT ![k] = "scope"] /\ held' \in [Keys -> {"none", "scope", "game"}]
    BY <1>0, <1>7 DEF C!Add, ScopeTypeOK
  <2>4. Registered'
    <3>1. \A i \in 1..Len(components) : components[i] # k
      BY <1>0, <2>1 DEF Registered
    <3>2. ASSUME NEW j \in Keys
          PROVE  held'[j] = "scope" <=> \E i \in 1..Len(components') : components'[i] = j
      <4>1. CASE j = k
        BY <1>0, <2>2, <2>3, <4>1 DEF ScopeTypeOK
      <4>2. CASE j # k
        BY <1>0, <2>2, <2>3, <4>2 DEF ScopeTypeOK, Registered
      <4> QED
        BY <4>1, <4>2
    <3>3. \A i, j \in 1..Len(components') : components'[i] = components'[j] => i = j
      BY <1>0, <2>2, <3>1 DEF Registered
    <3> QED
      BY <3>2, <3>3 DEF Registered
  <2>5. ScopeFits'
    BY <1>0, <2>1 DEF ScopeFits, Leaving, C!Top, C!Last
  <2> QED
    BY <1>0, <2>1, <2>2, <2>3, <2>4, <2>5 DEF CInv, ScopeTypeOK
<1>8. ASSUME NEW k \in Keys, C!GameAdds(k) \/ C!GameDeletes(k) PROVE CInv'
  <2>1. /\ UNCHANGED <<scoped, active, components, callbacks>>
        /\ \E o \in {"none", "game"} : held' = [held EXCEPT ![k] = o]
        /\ held[k] # "scope"
    BY <1>8 DEF C!GameAdds, C!GameDeletes
  <2> QED
    BY <1>0, <2>1 DEF CInv, ScopeTypeOK, Registered, ScopeFits, Leaving, C!Top, C!Last
<1> QED
  BY <1>1, <1>2, <1>3, <1>4, <1>5, <1>6, <1>7, <1>8 DEF C!Next


-----------------------------------------------------------------------------
(* The texts over players.                                                   *)

Text == [text : Words \union {""}, viewers : SUBSET Named]

TextsInv == P!TypeOK /\ P!TextsAreSound

LEMMA TextConstants ==
  /\ None \notin Text /\ Words # {} /\ Words \subseteq STRING \ {""}
BY ComponentsAssumption DEF P!TextsAssumption, Text

LEMMA RunsAreBounded ==
  MaxRuns \in Nat
BY ComponentsAssumption DEF P!TextsAssumption

LEMMA TextsInvInit ==
  ASSUME P!Init
  PROVE  TextsInv
<1>1. P!TypeOK
  <2>1. visible \in BOOLEAN
    BY DEF P!Init
  <2>2. runs \in 0..MaxRuns
    <3>1. runs = 0
      BY DEF P!Init
    <3> QED
      BY <3>1, RunsAreBounded
  <2>3. team \in [Named -> {1, 2}] /\ says \in [Named -> Words \union {None}]
    BY DEF P!Init
  <2> QED
    BY <2>1, <2>2, <2>3 DEF P!Init, P!TypeOK
<1>2. P!TextsAreSound
  BY DEF P!Init, P!TextsAreSound
<1> QED
  BY <1>1, <1>2 DEF TextsInv

LEMMA ClearTexts ==
  ASSUME TextsInv, P!Clear
  PROVE  primitives' = {} /\ \A p \in Named : world'[p] = None
BY DEF TextsInv, P!TextsAreSound, P!Clear, P!Has

(* What a turn leaves over a player is read by whom it is for.               *)
LEMMA TurnFits ==
  ASSUME TextsInv, NEW added \in SUBSET Named, NEW lost \in SUBSET Named, NEW p \in Named
  PROVE  LET t == P!Turn(p, added, lost)
         IN  t # None =>
               /\ t \in Text
               /\ visibleTo \in {"self", "mates"} /\ t.text # "" => t.viewers # {}
<1> DEFINE t == P!Turn(p, added, lost)
<1>1. CASE t = world[p] /\ P!Has(p)
  <2>1. world[p] # None /\ world[p] \in Text
    BY <1>1 DEF TextsInv, P!TextsAreSound, P!TypeOK, P!Has, Text
  <2> QED
    BY <1>1, <2>1 DEF TextsInv, P!TextsAreSound, P!Has
<1>2. CASE t = [text |-> "", viewers |-> {}]
  <2> HIDE DEF t
  <2>1. t \in Text /\ t.text = ""
    BY <1>2 DEF Text
  <2> QED
    BY <2>1 DEF t
<1>3. CASE t = P!Viewed(p, says[p]) /\ says[p] # None
  <2>1. says[p] \in Words
    BY <1>3 DEF TextsInv, P!TypeOK
  <2> DEFINE viewers == CASE visibleTo = "mates" -> P!Mates(p)
                          [] visibleTo = "self" -> {p}
                          [] visibleTo = "others" -> joined \ {p}
                          [] OTHER -> {}
  <2>2. viewers \subseteq Named /\ (visibleTo = "self" => viewers # {})
    <3>1. joined \subseteq Named /\ P!Mates(p) \subseteq Named
      BY DEF TextsInv, P!TypeOK, P!Mates
    <3>2. visibleTo \in {"all", "self", "others", "mates"}
      BY DEF TextsInv, P!TypeOK
    <3> QED
      BY <3>1, <3>2
  <2>3. t = IF visibleTo = "mates" /\ viewers = {} THEN None
            ELSE [text |-> says[p], viewers |-> viewers]
    BY <1>3 DEF P!Viewed
  <2> HIDE DEF viewers, t
  <2>4. CASE t # None
    <3>1. t = [text |-> says[p], viewers |-> viewers] /\ (visibleTo = "mates" => viewers # {})
      BY <2>3, <2>4
    <3>2. t \in Text /\ t.viewers = viewers
      BY <2>1, <2>2, <3>1 DEF Text
    <3> QED
      BY <2>2, <3>1, <3>2 DEF t
  <2> QED
    BY <2>4 DEF t
<1>4. CASE t = None
  BY <1>4
<1> QED
  BY <1>1, <1>2, <1>3, <1>4 DEF P!Turn

LEMMA RefreshKeeps ==
  ASSUME TextsInv, NEW added \in SUBSET Named, NEW lost \in SUBSET Named,
         P!Refresh(added, lost), runs' \in 0..MaxRuns,
         UNCHANGED <<phase, visible, visibleTo, members, joined, team, says>>
  PROVE  TextsInv'
<1>1. CASE ~visible \/ phase # "attached"
  <2>1. P!Clear
    BY <1>1 DEF P!Refresh
  <2>2. primitives' = {} /\ \A p \in Named : world'[p] = None
    BY <2>1, ClearTexts
  <2>3. P!TypeOK'
    BY <2>2 DEF TextsInv, P!TypeOK
  <2> QED
    BY <2>2, <2>3 DEF TextsInv, P!TextsAreSound
<1>2. CASE visible /\ phase = "attached"
  <2> DEFINE turn == [p \in P!Present |-> P!Turn(p, added, lost)]
  <2>0. P!Present \subseteq Named
    BY DEF TextsInv, P!TypeOK, P!Present
  <2>1. /\ primitives' = {p \in P!Present : turn[p] # None}
        /\ world' = [p \in Named |-> IF p \in P!Present THEN turn[p]
                                     ELSE IF P!Has(p) THEN None ELSE world[p]]
    BY <1>2 DEF P!Refresh
  <2>2. ASSUME NEW p \in Named
        PROVE  world'[p] = IF p \in P!Present THEN P!Turn(p, added, lost) ELSE None
    <3>1. p \notin primitives => world[p] = None
      BY DEF TextsInv, P!TextsAreSound
    <3> QED
      BY <2>1, <3>1 DEF P!Has
  <2>3. primitives' = {p \in Named : world'[p] # None}
    <3>1. \A p \in P!Present : turn[p] = P!Turn(p, added, lost)
      OBVIOUS
    <3> HIDE DEF turn
    <3> QED
      BY <2>0, <2>1, <2>2, <3>1
  <2>4. ASSUME NEW p \in Named, world'[p] # None
        PROVE  /\ world'[p] \in Text
               /\ visibleTo \in {"self", "mates"} /\ world'[p].text # "" => world'[p].viewers # {}
    BY <2>2, <2>4, TurnFits
  <2>5. P!TypeOK'
    BY <2>3, <2>4 DEF TextsInv, P!TypeOK, Text
  <2>6. P!TextsAreSound'
    BY <1>2, <2>3, <2>4 DEF P!TextsAreSound
  <2> QED
    BY <2>5, <2>6 DEF TextsInv
<1>3. visible \in BOOLEAN
  BY DEF TextsInv, P!TypeOK
<1> QED
  BY <1>1, <1>2, <1>3

LEMMA TextsInvNext ==
  ASSUME TextsInv, P!Next
  PROVE  TextsInv'
<1>0. /\ P!TypeOK /\ P!TextsAreSound /\ runs \in 0..MaxRuns
  BY DEF TextsInv, P!TypeOK
<1>a. runs < MaxRuns => runs + 1 \in 0..MaxRuns
  BY <1>0, RunsAreBounded
<1>b. runs > 0 => runs - 1 \in 0..MaxRuns
  BY <1>0, RunsAreBounded
<1>1. ASSUME P!Attach \/ P!Show PROVE TextsInv'
  <2>1. /\ runs' \in 0..MaxRuns
        /\ UNCHANGED <<primitives, world, visibleTo, members, joined, team, says>>
        /\ phase' \in {"new", "attached", "detached"} /\ visible' \in BOOLEAN
        /\ (~visible' \/ phase' # "attached") => (~visible \/ phase # "attached")
    <3>1. CASE P!Attach
      BY <1>0, <1>a, <3>1 DEF P!Attach, P!TypeOK, P!givenVars
    <3>2. CASE P!Show
      BY <1>0, <1>a, <3>2 DEF P!Show, P!TypeOK, P!givenVars
    <3> QED
      BY <1>1, <3>1, <3>2
  <2> QED
    BY <1>0, <2>1 DEF TextsInv, P!TypeOK, P!TextsAreSound
<1>2. ASSUME P!Detach \/ P!Hide PROVE TextsInv'
  <2>1. /\ P!Clear /\ UNCHANGED <<runs, visibleTo, members, joined, team, says>>
        /\ phase' \in {"new", "attached", "detached"} /\ visible' \in BOOLEAN
    <3>1. CASE P!Detach
      BY <1>0, <3>1 DEF P!Detach, P!TypeOK, P!givenVars
    <3>2. CASE P!Hide
      BY <1>0, <3>2 DEF P!Hide, P!TypeOK, P!givenVars
    <3> QED
      BY <1>2, <3>1, <3>2
  <2>2. primitives' = {} /\ \A p \in Named : world'[p] = None
    BY <1>0, <2>1, ClearTexts DEF TextsInv
  <2>3. P!TypeOK'
    BY <1>0, <2>1, <2>2 DEF P!TypeOK
  <2> QED
    BY <2>2, <2>3 DEF TextsInv, P!TextsAreSound
<1>3. ASSUME P!Run \/ P!Interval PROVE TextsInv'
  <2>1. /\ runs' \in 0..MaxRuns
        /\ UNCHANGED <<phase, visible, visibleTo, members, joined, team, says>>
        /\ \E o \in P!Outcomes : P!Refresh(o[1], o[2])
    <3>1. CASE P!Run
      BY <1>0, <1>b, <3>1 DEF P!Run, P!TypeOK, P!givenVars
    <3>2. CASE P!Interval
      BY <1>0, <3>2 DEF P!Interval, P!TypeOK, P!givenVars
    <3> QED
      BY <1>3, <3>1, <3>2
  <2>2. PICK o \in P!Outcomes : P!Refresh(o[1], o[2])
    BY <2>1
  <2>3. o[1] \in SUBSET Named /\ o[2] \in SUBSET Named
    BY DEF P!Outcomes
  <2> QED
    BY <1>0, <2>1, <2>2, <2>3, RefreshKeeps DEF TextsInv
<1>4. ASSUME P!Changes PROVE TextsInv'
  <2>1. UNCHANGED <<phase, visible, runs, visibleTo, primitives, world>>
    BY <1>4 DEF P!Changes
  <2>2. members' \in SUBSET Named /\ joined' \in SUBSET Named
    BY <1>0, <1>4 DEF P!Changes, P!TypeOK
  <2>3. team' \in [Named -> {1, 2}] /\ says' \in [Named -> Words \union {None}]
    BY <1>0, <1>4 DEF P!Changes, P!TypeOK
  <2> QED
    BY <1>0, <2>1, <2>2, <2>3 DEF TextsInv, P!TypeOK, P!TextsAreSound
<1> QED
  BY <1>1, <1>2, <1>3, <1>4 DEF P!Next


-----------------------------------------------------------------------------
(* The sidebar: what a view writes.                                          *)

LEMMA SidebarCounts ==
  /\ \A s : D!Cardinality(s) = Cardinality(s)
  /\ \A s : D!IsFiniteSet(s) <=> IsFiniteSet(s)
<1>1. ASSUME NEW s PROVE D!Cardinality(s) = Cardinality(s)
  BY DEF D!Cardinality, Cardinality
<1>2. ASSUME NEW s PROVE D!IsFiniteSet(s) <=> IsFiniteSet(s)
  BY DEF D!IsFiniteSet, IsFiniteSet
<1> QED
  BY <1>1, <1>2

\* No two entries are of the same line and number.
Distinct(es) == \A e, f \in es : e.line = f.line /\ e.nth = f.nth => e = f

EntrySet(es) == es \in SUBSET D!Entry /\ Distinct(es)

LEMMA EntriesFacts ==
  ASSUME NEW c \in Seq(STRING)
  PROVE  EntrySet(D!Entries(c))
<1> DEFINE Same(i) == {j \in 1..i : c[j] = c[i]}
           e(i) == [line |-> c[i], nth |-> Cardinality(Same(i)), score |-> Len(c) - i]
<1>1. DOMAIN c = 1..Len(c) /\ Len(c) \in Nat /\ \A i \in 1..Len(c) : c[i] \in STRING
  OBVIOUS
<1>2. D!Entries(c) = {e(i) : i \in 1..Len(c)}
  BY <1>1, SidebarCounts DEF D!Entries
<1>3. ASSUME NEW i \in 1..Len(c) PROVE IsFiniteSet(Same(i)) /\ Cardinality(Same(i)) \in Nat
  <2>1. IsFiniteSet(1..i) /\ Same(i) \subseteq 1..i
    BY <1>1, FS_Interval
  <2> QED
    BY <2>1, FS_Subset, FS_CardinalityType
<1>4. ASSUME NEW i \in 1..Len(c), NEW k \in 1..Len(c), i < k, c[i] = c[k]
      PROVE  Cardinality(Same(i)) < Cardinality(Same(k))
  <2>1. Same(i) \subseteq Same(k) /\ k \in Same(k) /\ k \notin Same(i)
    BY <1>1, <1>4
  <2>2. Cardinality(Same(i)) <= Cardinality(Same(k)) /\ Cardinality(Same(i)) # Cardinality(Same(k))
    <3> HIDE DEF Same
    <3> QED
      BY <1>3, <2>1, FS_Subset
  <2>3. Cardinality(Same(i)) \in Nat /\ Cardinality(Same(k)) \in Nat
    BY <1>3
  <2> HIDE DEF Same
  <2> QED
    BY <2>2, <2>3
<1>5. ASSUME NEW i \in 1..Len(c), NEW k \in 1..Len(c),
             c[i] = c[k], Cardinality(Same(i)) = Cardinality(Same(k))
      PROVE  i = k
  <2> HIDE DEF Same
  <2> QED
    BY <1>1, <1>3, <1>4, <1>5
<1>6. ASSUME NEW i \in 1..Len(c) PROVE e(i) \in D!Entry
  <2>1. Cardinality(Same(i)) \in Nat
    BY <1>3
  <2> HIDE DEF Same
  <2> QED
    BY <1>1, <2>1 DEF D!Entry
<1>7. Distinct({e(i) : i \in 1..Len(c)})
  <2> HIDE DEF Same
  <2> QED
    BY <1>5 DEF Distinct
<1> QED
  BY <1>2, <1>6, <1>7 DEF EntrySet

-----------------------------------------------------------------------------
(* The sidebar: the inductive invariant and the steps.                       *)

SidebarTypeOK ==
  /\ owner \in Boards \union {None}
  /\ view = [b \in Boards |-> view[b]]
  /\ \A b \in Boards : view[b] # None => view[b] \in D!View
  /\ objective # None => objective \in D!Objective
  /\ lines \in [Boards -> Seq(STRING)] /\ shows \in Seq(STRING)

\* What a view has written is told apart.
DInv ==
  /\ SidebarTypeOK /\ D!SidebarIsSound
  /\ \A b \in Boards : view[b] # None => Distinct(view[b].entries)

LEMMA SidebarConstants ==
  /\ IsFiniteSet(Boards) /\ Cardinality(Boards) \in Nat
  /\ None \notin Boards /\ None \notin Nat
  /\ None \notin D!View /\ None \notin D!Objective
BY SidebarCounts, FS_CardinalityType, ComponentsAssumption DEF D!SidebarAssumption

(* An objective that is added is not the one the view has: there is one at   *)
(* most.                                                                     *)
LEMMA FreshIds ==
  ASSUME DInv, objective = None
  PROVE  D!FreshId \in Nat /\ \A b \in D!Attached : view[b].objective # D!FreshId
<1>1. D!Ids = 1..(Cardinality(Boards) + 2)
  BY SidebarCounts DEF D!Ids
<1>2. 1 \in D!Ids /\ 2 \in D!Ids /\ D!Ids \subseteq Nat
  BY <1>1, SidebarConstants
<1>3. \E i \in D!Ids : \A b \in D!Attached : view[b].objective # i
  <2>1. D!Attached = {} \/ D!Attached = {owner}
    BY DEF DInv, D!SidebarIsSound
  <2>2. CASE D!Attached = {}
    BY <1>2, <2>2
  <2>3. CASE D!Attached = {owner}
    <3>1. CASE view[owner].objective = 1
      BY <1>2, <2>3, <3>1
    <3>2. CASE view[owner].objective # 1
      BY <1>2, <2>3, <3>2
    <3> QED
      BY <3>1, <3>2
  <2> QED
    BY <2>1, <2>2, <2>3
<1> QED
  BY <1>2, <1>3 DEF D!FreshId

LEMMA DInvInit ==
  ASSUME D!Init
  PROVE  DInv
<1>1. SidebarTypeOK
  BY ComponentsAssumption DEF D!Init, SidebarTypeOK, D!SidebarAssumption
<1>2. D!Attached = {}
  BY DEF D!Init, D!Attached
<1> QED
  BY <1>1, <1>2 DEF D!Init, DInv, D!SidebarIsSound

(* The objective a view gets: its own, or one without scores.                *)
LEMMA ObtainedFits ==
  ASSUME DInv, NEW v \in D!View, Distinct(v.entries),
         D!IsValid(v) => objective.scores = v.entries
  PROVE  LET got == D!Obtained(v)
         IN  /\ got.v \in D!View /\ got.o \in D!Objective
             /\ got.v.objective = got.o.id /\ got.o.scores = got.v.entries
             /\ Distinct(got.v.entries)
<1>1. CASE D!IsValid(v)
  <2>1. D!Obtained(v) = [v |-> v, o |-> objective]
    BY <1>1 DEF D!Obtained
  <2>2. objective \in D!Objective /\ objective.id = v.objective /\ objective.scores = v.entries
    BY <1>1 DEF D!IsValid, DInv, SidebarTypeOK
  <2> QED
    BY <2>1, <2>2
<1>2. CASE ~D!IsValid(v)
  <2> DEFINE i == IF objective # None THEN objective.id ELSE D!FreshId
             o == [id |-> i, scores |-> {}, stray |-> FALSE]
             w == [objective |-> o.id, entries |-> {}]
  <2>1. D!Obtained(v) = [v |-> w, o |-> o]
    BY <1>2 DEF D!Obtained
  <2>2. i \in Nat
    BY FreshIds DEF DInv, SidebarTypeOK, D!Objective
  <2> HIDE DEF i
  <2>3. o \in D!Objective /\ w \in D!View /\ w.objective = o.id /\ o.scores = w.entries
        /\ w.entries = {}
    BY <2>2 DEF D!Objective, D!View
  <2> HIDE DEF o, w
  <2> QED
    BY <2>1, <2>3 DEF Distinct
<1> QED
  BY <1>1, <1>2

(* What is written is what the world shows, and is of the lines.             *)
LEMMA UpdatedFits ==
  ASSUME DInv, NEW v \in D!View, Distinct(v.entries),
         D!IsValid(v) => objective.scores = v.entries,
         NEW c \in Seq(STRING)
  PROVE  LET new == D!Updated(v, c)
         IN  /\ new.v \in D!View /\ new.o \in D!Objective
             /\ new.v.objective = new.o.id /\ new.o.scores = new.v.entries
             /\ new.v.entries = D!Entries(c) /\ Distinct(new.v.entries)
<1> DEFINE got == D!Obtained(v)
           next == D!Entries(c)
           gone == {e \in got.v.entries : \A n \in next : n.line # e.line \/ n.nth # e.nth}
           kept == {e \in got.o.scores \ gone : \A n \in next \ got.v.entries :
                      n.line # e.line \/ n.nth # e.nth}
           nv == [got.v EXCEPT !.entries = next]
           no == [got.o EXCEPT !.scores = kept \union (next \ got.v.entries)]
<1>1. D!Updated(v, c) = [v |-> nv, o |-> no]
  BY DEF D!Updated
<1>2. /\ got.v \in D!View /\ got.o \in D!Objective
      /\ got.v.objective = got.o.id /\ got.o.scores = got.v.entries
      /\ Distinct(got.v.entries)
  BY ObtainedFits
<1>3. EntrySet(got.v.entries) /\ EntrySet(next)
  BY <1>2, EntriesFacts DEF EntrySet, D!View
<1> HIDE DEF got, next
<1>4. kept \union (next \ got.v.entries) = next    \* the differences written leave `next`
  <2>1. \A e : e \in kept <=>
          /\ e \in got.v.entries
          /\ \E n \in next : n.line = e.line /\ n.nth = e.nth
          /\ \A n \in next \ got.v.entries : n.line # e.line \/ n.nth # e.nth
    BY <1>2
  <2> DEFINE old == got.v.entries
             new == kept
  <2>2. EntrySet(old) /\ EntrySet(next)
    BY <1>3
  <2>3. \A e : e \in new <=>
          /\ e \in old
          /\ \E n \in next : n.line = e.line /\ n.nth = e.nth
          /\ \A n \in next \ old : n.line # e.line \/ n.nth # e.nth
    BY <2>1
  <2> HIDE DEF new, old
  <2>4. new \union (next \ old) = next
    <3>1. ASSUME NEW e \in new PROVE e \in next
      <4>1. e \in old /\ \E n \in next : n.line = e.line /\ n.nth = e.nth
        BY <2>3
      <4>2. PICK n \in next : n.line = e.line /\ n.nth = e.nth
        BY <4>1
      <4>3. n \in old
        BY <2>3, <4>2
      <4> QED
        BY <2>2, <4>1, <4>2, <4>3 DEF EntrySet, Distinct
    <3>2. ASSUME NEW e \in next, e \in old PROVE e \in new
      <4>1. \A n \in next \ old : n.line # e.line \/ n.nth # e.nth
        BY <2>2, <3>2 DEF EntrySet, Distinct
      <4> QED
        BY <2>3, <3>2, <4>1
    <3> QED
      BY <3>1, <3>2
  <2> QED
    BY <2>4 DEF new, old
<1> HIDE DEF kept
<1>5. /\ nv \in D!View /\ no \in D!Objective /\ nv.objective = no.id
      /\ no.scores = next /\ nv.entries = next
  BY <1>2, <1>3, <1>4 DEF D!View, D!Objective, EntrySet
<1> HIDE DEF nv, no
<1>6. /\ D!Updated(v, c).v = nv /\ D!Updated(v, c).o = no
  BY <1>1
<1> QED
  BY <1>3, <1>5, <1>6 DEF next, EntrySet


(* Who is attached is the owner, and nobody else has a view.                 *)
LEMMA OneBoard ==
  ASSUME DInv
  PROVE  /\ owner \in Boards \union {None}
         /\ owner # None => view[owner] # None /\ view[owner] \in D!View
         /\ \A b \in Boards : b # owner => view[b] = None
         /\ D!Attached = {b \in Boards : view[b] # None}
         /\ D!Attached = IF owner = None THEN {} ELSE {owner}
<1>1. /\ D!Attached = {b \in Boards : view[b] # None}
      /\ D!Attached = IF owner = None THEN {} ELSE {owner}
      /\ owner \in Boards \union {None}
  BY DEF DInv, SidebarTypeOK, D!Attached, D!SidebarIsSound
<1> QED
  BY <1>1 DEF DInv, SidebarTypeOK

(* A view of the owner's, whose objective shows what it has written.         *)
LEMMA OwnerKeeps ==
  ASSUME DInv, NEW b \in Boards, owner' = b, \A a \in Boards : a # b => view[a] = None,
         NEW v \in D!View, Distinct(v.entries), view' = [view EXCEPT ![b] = v],
         objective' = None \/ objective' \in D!Objective,
         lines' \in [Boards -> Seq(STRING)], shows' \in Seq(STRING),
         pending' \subseteq {b},
         objective' # None => objective'.stray \/ objective'.id = v.objective,
         objective' # None /\ objective'.id = v.objective => objective'.scores = v.entries,
         b \notin outdated' =>
           objective' # None /\ objective'.id = v.objective /\ v.entries = D!Entries(lines'[b]),
         b \in Providers \ (outdated' \union pending') => lines'[b] = shows'
  PROVE  DInv'
<1>1. view'[b] = v /\ v # None /\ \A a \in Boards : a # b => view'[a] = None
  BY SidebarConstants DEF DInv, SidebarTypeOK
<1>2. SidebarTypeOK'
  BY <1>1 DEF DInv, SidebarTypeOK
<1>3. D!Attached' = {b}
  BY <1>1 DEF D!Attached
<1>4. b # None
  BY SidebarConstants
<1>5. D!IsValid(v)' <=> objective' # None /\ objective'.id = v.objective
  <2>1. objective' # None => objective'.id \in Nat
    BY DEF D!Objective
  <2> QED
    BY <2>1, SidebarConstants DEF D!IsValid
<1>6. D!IsValid(view[b])' <=> objective' # None /\ objective'.id = v.objective
  BY <1>1, <1>5 DEF D!IsValid
<1>7. /\ objective' # None => objective'.stray \/ \E a \in D!Attached' : D!IsValid(view[a])'
      /\ pending' \subseteq D!Attached'
      /\ D!IsValid(view[b])' => objective'.scores = view'[b].entries
      /\ b \notin outdated' => D!IsValid(view[b])' /\ view'[b].entries = D!Entries(lines'[b])
  BY <1>1, <1>3, <1>6
<1>8. D!SidebarIsSound'
  BY <1>1, <1>3, <1>4, <1>6 DEF D!SidebarIsSound, D!IsValid
<1> QED
  BY <1>1, <1>2, <1>8 DEF DInv

(* Rendering the lines, by the owner or by whom has just become it.          *)
LEMMA RendersKeeps ==
  ASSUME DInv, NEW b \in Boards, owner' = b, \A a \in Boards : a # b => view[a] = None,
         NEW v \in D!View, Distinct(v.entries),
         D!IsValid(v) => objective.scores = v.entries,
         NEW c \in Seq(STRING), D!Renders(b, v, c),
         shows' = shows, pending' \subseteq {b}, b \in Providers \ pending' => c = shows
  PROVE  DInv'
<1> DEFINE new == D!Updated(v, c)
<1>1. /\ new.v \in D!View /\ new.o \in D!Objective
      /\ new.v.objective = new.o.id /\ new.o.scores = new.v.entries
      /\ new.v.entries = D!Entries(c) /\ Distinct(new.v.entries)
  BY UpdatedFits
<1>2. /\ view' = [view EXCEPT ![b] = new.v] /\ objective' = new.o
      /\ lines' = [lines EXCEPT ![b] = c] /\ outdated' = outdated \ {b}
  BY DEF D!Renders, D!Uses
<1> HIDE DEF new
<1>3. lines' \in [Boards -> Seq(STRING)] /\ lines'[b] = c /\ shows' \in Seq(STRING)
  BY <1>2 DEF DInv, SidebarTypeOK
<1>4. objective' # None
  BY <1>1, <1>2, SidebarConstants
<1> QED
  BY <1>1, <1>2, <1>3, <1>4, OwnerKeeps

(* Nobody has a view.                                                        *)
LEMMA NobodyKeeps ==
  ASSUME owner' = None, view' = [b \in Boards |-> view'[b]],
         \A b \in Boards : view'[b] = None,
         objective' = None \/ (objective' \in D!Objective /\ objective'.stray),
         lines' \in [Boards -> Seq(STRING)], shows' \in Seq(STRING), pending' = {}
  PROVE  DInv'
<1>1. D!Attached' = {}
  BY DEF D!Attached
<1>2. SidebarTypeOK'
  BY DEF SidebarTypeOK
<1> QED
  BY <1>1, <1>2 DEF DInv, D!SidebarIsSound

LEMMA DInvNext ==
  ASSUME DInv, D!Next
  PROVE  DInv'
<1>0. SidebarTypeOK /\ D!SidebarIsSound /\ \A b \in Boards : view[b] # None => Distinct(view[b].entries)
  BY DEF DInv
<1>1. /\ owner \in Boards \union {None}
      /\ owner # None => view[owner] # None /\ view[owner] \in D!View
      /\ \A b \in Boards : b # owner => view[b] = None
      /\ D!Attached = {b \in Boards : view[b] # None}
      /\ D!Attached = IF owner = None THEN {} ELSE {owner}
      /\ pending \subseteq D!Attached
  BY OneBoard DEF DInv, D!SidebarIsSound
<1>2. /\ objective # None => objective \in D!Objective
      /\ lines \in [Boards -> Seq(STRING)] /\ shows \in Seq(STRING)
      /\ None \notin Boards /\ (\A c \in {<<>>, <<"x", "x">>, <<"y", "x">>} : c \in Seq(STRING))
  <2>1. None \notin Boards /\ \A c \in {<<>>, <<"x", "x">>, <<"y", "x">>} : c \in Seq(STRING)
    BY ComponentsAssumption DEF D!SidebarAssumption
  <2>2. /\ objective # None => objective \in D!Objective
        /\ lines \in [Boards -> Seq(STRING)] /\ shows \in Seq(STRING)
    BY <1>0 DEF SidebarTypeOK
  <2> QED
    BY <2>1, <2>2
<1>3. ASSUME NEW b \in D!Attached
      PROVE  /\ b \in Boards /\ owner = b /\ b # None
             /\ \A a \in Boards : a # b => view[a] = None
             /\ view[b] \in D!View /\ Distinct(view[b].entries)
             /\ D!IsValid(view[b]) => objective.scores = view[b].entries
             /\ b \notin outdated => D!IsValid(view[b]) /\ view[b].entries = D!Entries(lines[b])
             /\ b \in Providers \ (outdated \union pending) => lines[b] = shows
             /\ objective # None => objective.stray \/ D!IsValid(view[b])
             /\ pending \subseteq {b}
             /\ view = [view EXCEPT ![b] = view[b]]
  <2>1. b = owner /\ owner # None /\ D!Attached = {b}
    BY <1>1
  <2>2. /\ D!IsValid(view[b]) => objective.scores = view[b].entries
        /\ b \notin outdated => D!IsValid(view[b]) /\ view[b].entries = D!Entries(lines[b])
        /\ b \in Providers \ (outdated \union pending) => lines[b] = shows
        /\ objective # None => objective.stray \/ D!IsValid(view[b])
    BY <1>0, <2>1 DEF D!SidebarIsSound
  <2> QED
    BY <1>0, <1>1, <2>1, <2>2 DEF SidebarTypeOK
<1>4. ASSUME NEW b \in Boards, D!Attach(b, TRUE) \/ D!Attach(b, FALSE) PROVE DInv'
  <2> DEFINE v == [objective |-> None, entries |-> {}]
             c == IF b \in Providers THEN shows ELSE <<>>
  <2>1. /\ D!Attached = {} /\ owner' = b /\ shows' = shows /\ pending' = {}
        /\ D!Renders(b, v, c)
    BY <1>1, <1>4 DEF D!Attach
  <2>2. v \in D!View /\ Distinct(v.entries) /\ ~D!IsValid(v)
    BY DEF D!View, Distinct, D!IsValid
  <2>3. c \in Seq(STRING) /\ (b \in Providers => c = shows)
    BY <1>2
  <2>4. \A a \in Boards : a # b => view[a] = None
    BY <1>1, <2>1
  <2> HIDE DEF v, c
  <2> QED
    BY <2>1, <2>2, <2>3, <2>4, RendersKeeps
<1>5. ASSUME NEW b \in Boards, D!AttachThrows(b) PROVE DInv'
  <2>1. /\ owner = None /\ owner' = None /\ view' = view /\ pending' = {} /\ lines' = lines
        /\ shows' = shows /\ objective' = None
    BY <1>1, <1>5 DEF D!AttachThrows
  <2> QED
    BY <1>0, <1>1, <1>2, <2>1, NobodyKeeps DEF SidebarTypeOK
<1>6. ASSUME NEW b \in Boards, D!Detach(b) PROVE DInv'
  <2>1. b \in D!Attached /\ D!Disposes(b) /\ pending' = pending \ {b} /\ shows' = shows
        /\ lines' = [lines EXCEPT ![b] = <<>>]
    BY <1>6 DEF D!Detach
  <2>2. /\ owner' = None /\ view' = [view EXCEPT ![b] = None] /\ pending' = {}
        /\ objective' = IF D!IsValid(view[b]) THEN None ELSE objective
    BY <1>1, <1>3, <2>1 DEF D!Disposes
  <2>3. view' = [a \in Boards |-> view'[a]] /\ \A a \in Boards : view'[a] = None
    BY <1>0, <1>3, <2>1, <2>2 DEF SidebarTypeOK
  <2>4. objective' = None \/ (objective' \in D!Objective /\ objective'.stray)
    BY <1>2, <1>3, <2>1, <2>2
  <2>5. lines' \in [Boards -> Seq(STRING)]
    BY <1>2, <2>1
  <2> QED
    BY <1>2, <2>1, <2>2, <2>3, <2>4, <2>5, NobodyKeeps
<1>7. ASSUME NEW b \in D!Attached,
             owner' = owner, view' = view, lines' = lines, shows' \in Seq(STRING),
             pending' \subseteq {b}, outdated \subseteq outdated',
             objective' = None \/ objective' \in D!Objective,
             objective' # None => objective'.stray \/ objective'.id = view[b].objective,
             objective' # None /\ objective'.id = view[b].objective => objective' = objective,
             objective' # objective => b \in outdated',
             b \in Providers \ (outdated' \union pending') => lines[b] = shows'
      PROVE  DInv'
  <2> DEFINE v == view[b]
  <2>1. /\ v \in D!View /\ Distinct(v.entries) /\ view' = [view EXCEPT ![b] = v]
        /\ lines' \in [Boards -> Seq(STRING)] /\ owner' = b /\ b \in Boards
        /\ \A a \in Boards : a # b => view[a] = None
    BY <1>2, <1>3, <1>7
  <2>2. objective' # None /\ objective'.id = v.objective => objective'.scores = v.entries
    <3> SUFFICES ASSUME objective' # None, objective'.id = v.objective
                 PROVE  objective'.scores = v.entries
      OBVIOUS
    <3>1. objective' = objective /\ objective.id \in Nat
      BY <1>2, <1>7 DEF D!Objective
    <3>2. D!IsValid(view[b])
      BY <3>1, SidebarConstants DEF D!IsValid
    <3> QED
      BY <1>3, <3>1, <3>2
  <2>3. b \notin outdated' =>
          objective' # None /\ objective'.id = v.objective /\ v.entries = D!Entries(lines'[b])
    BY <1>3, <1>7 DEF D!IsValid
  <2>4. objective' # None => objective'.stray \/ objective'.id = v.objective
    BY <1>7
  <2>5. b \in Providers \ (outdated' \union pending') => lines'[b] = shows'
    BY <1>7
  <2> HIDE DEF v
  <2> QED
    BY <1>7, <2>1, <2>2, <2>3, <2>4, <2>5, OwnerKeeps
<1>8. ASSUME owner = None, owner' = None, view' = view, lines' = lines, pending' = {},
             shows' \in Seq(STRING),
             objective' = None \/ (objective' \in D!Objective /\ objective'.stray)
      PROVE  DInv'
  <2>1. view' = [b \in Boards |-> view'[b]] /\ \A b \in Boards : view'[b] = None
    BY <1>0, <1>1, <1>2, <1>8 DEF SidebarTypeOK
  <2> QED
    BY <1>2, <1>8, <2>1, NobodyKeeps
<1>9. objective # None /\ owner = None => objective.stray
  BY <1>0, <1>1 DEF D!SidebarIsSound
<1>10. ASSUME NEW b \in D!Attached, D!IsValid(view[b])
       PROVE  objective # None /\ objective.id = view[b].objective
  BY <1>10 DEF D!IsValid
<1>11. ASSUME NEW c \in {<<>>, <<"x", "x">>, <<"y", "x">>}, D!Changes(c) PROVE DInv'
  <2>1. /\ shows' = c /\ c \in Seq(STRING)
        /\ pending' = pending \union (D!Attached \intersect Providers)
        /\ UNCHANGED <<owner, view, lines, outdated, objective, shown>>
    BY <1>2, <1>11 DEF D!Changes
  <2>2. CASE owner = None
    BY <1>1, <1>2, <1>8, <1>9, <2>1, <2>2
  <2>3. CASE owner # None
    <3>1. owner \in D!Attached /\ D!Attached = {owner}
      BY <1>1, <2>3
    <3>2. objective # None => objective.stray \/ objective.id = view[owner].objective
      BY <1>3, <1>10, <3>1
    <3>3. pending' \subseteq {owner} /\ (owner \in Providers => owner \in pending')
      BY <1>1, <2>1, <3>1
    <3> QED
      BY <1>2, <1>7, <2>1, <3>1, <3>2, <3>3
  <2> QED
    BY <2>2, <2>3
<1>12. ASSUME NEW b \in Boards, D!Refresh(b) PROVE DInv'
  <2>1. /\ b \in pending /\ b \in D!Attached /\ pending' = pending \ {b}
        /\ UNCHANGED <<owner, shows, shown>>
    BY <1>1, <1>12 DEF D!Refresh
  <2>2. CASE D!Renders(b, view[b], shows)
    BY <1>2, <1>3, <2>1, <2>2, RendersKeeps
  <2>3. CASE outdated' = outdated \union {b} /\ UNCHANGED <<view, objective, lines>>
    <3>1. objective # None => objective.stray \/ objective.id = view[b].objective
      BY <1>3, <1>10, <2>1
    <3>2. pending' \subseteq {b}
      BY <1>3, <2>1
    <3> QED
      BY <1>2, <1>7, <2>1, <2>3, <3>1, <3>2
  <2> QED
    BY <1>12, <2>2, <2>3 DEF D!Refresh
<1>13. ASSUME NEW b \in Boards, NEW c \in {<<>>, <<"x", "x">>, <<"y", "x">>}, D!Told(b, c)
       PROVE  DInv'
  BY <1>2, <1>3, <1>13, RendersKeeps DEF D!Told
<1>14. ASSUME NEW b \in Boards, D!Show(b) PROVE DInv'
  <2>1. b \in D!Attached /\ UNCHANGED <<owner, pending, shows>>
    BY <1>14 DEF D!Show
  <2>2. CASE b \in Providers
    BY <1>2, <1>3, <1>14, <2>1, <2>2, RendersKeeps DEF D!Show
  <2>3. CASE b \notin Providers
    <3> DEFINE got == D!Obtained(view[b])
    <3>1. view' = [view EXCEPT ![b] = got.v] /\ objective' = got.o /\ UNCHANGED <<lines, outdated>>
      BY <1>14, <2>3 DEF D!Show, D!Uses
    <3>2. /\ got.v \in D!View /\ got.o \in D!Objective
          /\ got.v.objective = got.o.id /\ got.o.scores = got.v.entries
          /\ Distinct(got.v.entries)
      BY <1>3, <2>1, ObtainedFits
    <3>3. b \notin outdated => got.v = view[b]
      BY <1>3, <2>1 DEF D!Obtained
    <3> HIDE DEF got
    <3>4. objective' # None
      BY <3>1, <3>2, SidebarConstants
    <3>5. b \notin outdated' => got.v.entries = D!Entries(lines'[b])
      BY <1>3, <2>1, <3>1, <3>3
    <3>6. b \in Boards /\ owner' = b /\ (\A a \in Boards : a # b => view[a] = None)
          /\ pending' \subseteq {b} /\ lines' \in [Boards -> Seq(STRING)] /\ shows' \in Seq(STRING)
      BY <1>2, <1>3, <2>1, <3>1
    <3> QED
      BY <2>3, <3>1, <3>2, <3>4, <3>5, <3>6, OwnerKeeps
  <2> QED
    BY <2>2, <2>3
<1>15. ASSUME NEW b \in Boards, D!Hide(b) PROVE DInv'
  <2>1. UNCHANGED <<owner, view, lines, pending, shows, outdated, objective>>
    BY <1>15 DEF D!Hide
  <2> QED
    BY <1>0, <2>1 DEF DInv, SidebarTypeOK, D!SidebarIsSound, D!Attached, D!IsValid
<1>16. ASSUME D!Removed PROVE DInv'
  <2>1. /\ objective' = None /\ outdated' = outdated \union D!Attached
        /\ UNCHANGED <<owner, view, lines, pending, shows>>
    BY <1>16 DEF D!Removed
  <2>2. CASE owner = None
    BY <1>1, <1>2, <1>8, <2>1, <2>2
  <2>3. CASE owner # None
    <3>1. owner \in D!Attached /\ D!Attached = {owner}
      BY <1>1, <2>3
    <3> QED
      BY <1>1, <1>2, <1>7, <2>1, <3>1
  <2> QED
    BY <2>2, <2>3
<1>17. ASSUME D!Added PROVE DInv'
  <2> DEFINE o == [id |-> D!FreshId, scores |-> {[line |-> "other", nth |-> 1, score |-> 0]},
                   stray |-> TRUE]
  <2>1. objective = None /\ objective' = o /\ UNCHANGED <<owner, view, lines, pending, shows, outdated>>
    BY <1>17 DEF D!Added
  <2>2. D!FreshId \in Nat /\ \A b \in D!Attached : view[b].objective # D!FreshId
    BY <2>1, FreshIds
  <2>3. o \in D!Objective /\ o.stray /\ o.id = D!FreshId
    <3>1. [line |-> "other", nth |-> 1, score |-> 0] \in D!Entry
      <4>1. "other" \in STRING
        BY ComponentsAssumption DEF D!SidebarAssumption
      <4>2. 1 \in Nat /\ 0 \in Nat
        OBVIOUS
      <4>3. [line : STRING, nth : Nat, score : Nat] = D!Entry
        BY Zenon DEF D!Entry
      <4>4. \A l \in STRING, n, m \in Nat :
              [line |-> l, nth |-> n, score |-> m] \in [line : STRING, nth : Nat, score : Nat]
        OBVIOUS
      <4> QED
        BY <4>1, <4>2, <4>3, <4>4, Zenon
    <3>2. {[line |-> "other", nth |-> 1, score |-> 0]} \in SUBSET D!Entry
      BY <3>1
    <3> QED
      BY <2>2, <3>2 DEF D!Objective
  <2> HIDE DEF o
  <2>4. CASE owner = None
    BY <1>1, <1>2, <1>8, <2>1, <2>3, <2>4
  <2>5. CASE owner # None
    <3>1. owner \in D!Attached /\ D!Attached = {owner}
      BY <1>1, <2>5
    <3>2. owner \in outdated
      BY <1>3, <2>1, <3>1 DEF D!IsValid
    <3> QED
      BY <1>1, <1>2, <1>7, <2>1, <2>2, <2>3, <3>1, <3>2
  <2> QED
    BY <2>4, <2>5
<1>18. ASSUME D!Reloaded PROVE DInv'
  <2>1. /\ owner' = None /\ view' = [b \in Boards |-> None] /\ pending' = {}
        /\ lines' = [b \in Boards |-> <<>>] /\ shows' = shows
        /\ objective' = IF objective = None THEN None ELSE [objective EXCEPT !.stray = TRUE]
    BY <1>18 DEF D!Reloaded
  <2>2. objective' = None \/ (objective' \in D!Objective /\ objective'.stray)
    BY <1>2, <2>1 DEF D!Objective
  <2>3. lines' \in [Boards -> Seq(STRING)]
    BY <2>1
  <2>4. view' = [b \in Boards |-> view'[b]] /\ \A b \in Boards : view'[b] = None
    BY <2>1
  <2> QED
    BY <1>2, <2>1, <2>2, <2>3, <2>4, NobodyKeeps
<1> QED
  BY <1>4, <1>5, <1>6, <1>11, <1>12, <1>13, <1>14, <1>15, <1>16, <1>17, <1>18 DEF D!Next



-----------------------------------------------------------------------------
(* The signals of the events.                                                *)

\* Whom a delivery still has to tell what.
Call == ({"enter", "leave"} \X Visitors \X Subs) \union ({"event"} \X {None} \X Subs)

Tick ==
  [loop : {"idle", "tick", "regions", "slots", "map"}, todo : SUBSET (Subs \union {"regions", "slots"}),
   regions : SUBSET Regions, region : Regions \union {None}, now : SUBSET Visitors,
   calls : SUBSET Call, done : SUBSET Subs, runs : Subs \union {None}]

SignalsTypeOK ==
  /\ E!TypeOK /\ tick \in Tick
  /\ online \subseteq Visitors /\ inside \in [Regions -> SUBSET online]

\* The game listens to Minecraft as long as somebody listens to the game.
Hears(s) == s \in items \/ \E k \in E!Kinds : s \in listeners[k]

NativeInv ==
  /\ timer <=> items # {}
  /\ watching <=> \E r \in Regions : listeners[r] # {}
  /\ watching <=> "regions" \in items
  /\ looking <=> listeners["slot"] # {}
  /\ looking <=> "slots" \in items
  /\ hooked <=> listeners["map"] # {}
  /\ \A s \in Subs : Hears(s) <=> \E o \in Owners : s \in records[o]

\* A subscription is to one signal.
Apart == \A k1, k2 \in E!Kinds : k1 # k2 => listeners[k1] \intersect listeners[k2] = {}

\* What a delivery has on its way.
TickInv ==
  /\ tick.loop \notin {"regions", "map"} => tick.calls = {}
  /\ tick.loop # "regions" => tick.region = None /\ tick.regions = {}
  /\ tick.loop = "regions" => tick.calls \subseteq {"enter", "leave"} \X Visitors \X Subs
  /\ tick.loop = "regions" /\ tick.region = None => tick.calls = {}
  /\ \A p \in Visitors, s \in Subs : <<"enter", p, s>> \in tick.calls => <<"leave", p, s>> \notin tick.calls
  /\ tick.region # None => tick.now = inside[tick.region]

\* The regions that have a state are those that somebody follows, and no other than the
\* followers of the region that is looked at will hear of it.
Followed ==
  /\ \A r \in Regions : r \in DOMAIN states <=> listeners[r] # {}
  /\ \A r \in tick.regions : listeners[r] # {}
  /\ tick.region # None => listeners[tick.region] # {}
  /\ tick.loop = "regions" => \A c \in tick.calls : \A r \in Regions \ {tick.region} : c[3] \notin listeners[r]

\* Whom a subscription will take to be in its region once it has heard all.
Due(s) ==
  (told[s] \union {p \in Visitors : <<"enter", p, s>> \in tick.calls})
    \ {p \in Visitors : <<"leave", p, s>> \in tick.calls}

Tells ==
  \A r \in Regions : \A s \in listeners[r] \intersect first :
    IF tick.region = r THEN Due(s) = tick.now ELSE told[s] = states[r] \intersect online

EInv == SignalsTypeOK /\ NativeInv /\ Apart /\ TickInv /\ Followed /\ Tells

LEMMA SignalConstants ==
  /\ E!Kinds = {"map", "slot"} \union Regions
  /\ "interval" \notin Regions /\ "map" \notin Regions /\ "slot" \notin Regions
  /\ "regions" \notin Subs /\ "slots" \notin Subs
  /\ None \notin Subs /\ None \notin Regions
BY ComponentsAssumption DEF E!SignalsAssumption, E!Kinds

LEMMA EInvImplies ==
  ASSUME EInv
  PROVE  E!NativeIsHeld /\ E!TellsWhoIsInside
<1>1. tick.loop = "idle" => \A r \in DOMAIN states : listeners[r] # {}
  BY DEF EInv, Followed, SignalsTypeOK, E!TypeOK
<1>2. ASSUME tick.loop = "idle", NEW r \in Regions, NEW s \in listeners[r] \intersect first
      PROVE  told[s] = states[r] \intersect online
  <2>1. tick.region # r
    BY <1>2, SignalConstants DEF EInv, TickInv
  <2> QED
    BY <2>1 DEF EInv, Tells
<1>3. E!NativeIsHeld
  <2>0. SignalsTypeOK /\ E!TypeOK /\ NativeInv
    BY DEF EInv, SignalsTypeOK
  <2>1. E!RegionSubs # {} <=> \E r \in Regions : listeners[r] # {}
    BY DEF E!RegionSubs
  <2>2. /\ timer = (items # {}) /\ looking = (listeners["slot"] # {})
        /\ hooked = (listeners["map"] # {}) /\ watching = (E!RegionSubs # {})
    BY <2>0, <2>1 DEF NativeInv, E!TypeOK
  <2>3. looking = ("slots" \in items) /\ watching = ("regions" \in items)
    BY <2>0 DEF NativeInv, E!TypeOK
  <2>4. /\ E!Held \subseteq Subs /\ UNION {listeners[k] : k \in E!Kinds} \subseteq Subs
        /\ \A s \in Subs : s \in E!Held <=> \E o \in Owners : s \in records[o]
        /\ \A s \in Subs : s \in (items \intersect Subs) \union UNION {listeners[k] : k \in E!Kinds}
                            <=> Hears(s)
    BY <2>0 DEF E!TypeOK, E!Held, Hears
  <2>5. E!Held = (items \intersect Subs) \union UNION {listeners[k] : k \in E!Kinds}
    BY <2>0, <2>4 DEF NativeInv
  <2> QED
    BY <2>0, <2>2, <2>3, <2>5 DEF E!NativeIsHeld
<1> QED
  BY <1>1, <1>2, <1>3 DEF EInv, E!TellsWhoIsInside, E!StatesHaveSubscribers

LEMMA EInvInit ==
  ASSUME E!Init
  PROVE  EInv
<1>1. tick = E!Idle /\ tick \in Tick /\ tick.loop = "idle" /\ tick.calls = {}
      /\ tick.region = None /\ tick.regions = {}
  BY DEF E!Init, E!Idle, Tick
<1>2. E!TypeOK
  BY <1>1 DEF E!Init, E!TypeOK
<1>3. \A k \in E!Kinds : listeners[k] = {}
  BY DEF E!Init
<1>4. SignalsTypeOK
  BY <1>1, <1>2 DEF E!Init, SignalsTypeOK
<1>5. /\ items = {} /\ ~timer /\ ~watching /\ ~looking /\ ~hooked
      /\ \A o \in Owners : records[o] = {}
  BY DEF E!Init
<1>6. NativeInv
  BY <1>3, <1>5, SignalConstants DEF NativeInv, Hears
<1>7. Apart
  BY <1>3 DEF Apart
<1>8. TickInv
  BY <1>1 DEF TickInv
<1>9. Followed /\ Tells
  BY <1>1, <1>3, SignalConstants DEF E!Init, Followed, Tells
<1> QED
  BY <1>4, <1>6, <1>7, <1>8, <1>9 DEF EInv


(* Who subscribes is new to everything a delivery refers to.                 *)
LEMMA SubscribeKeeps ==
  ASSUME EInv, NEW o \in Owners, NEW k \in E!Kinds \union {"interval"}, E!Subscribe(o, k)
  PROVE  EInv'
<1>0. /\ SignalsTypeOK /\ E!TypeOK /\ NativeInv /\ Apart /\ TickInv /\ Followed /\ Tells
      /\ tick \in Tick
  BY DEF EInv, SignalsTypeOK
<1>1. PICK s \in Subs \ E!InUse :
        /\ records' = [records EXCEPT ![o] = @ \union {s}]
        /\ signal' = [signal EXCEPT ![s] = k]
        /\ \/ k = "interval" /\ E!SubscribeInterval(s)
           \/ k = "map" /\ E!SubscribeMap(s)
           \/ k = "slot" /\ E!SubscribeSlot(s)
           \/ k \in Regions /\ E!SubscribeRegion(s, k)
        /\ tick' = [tick EXCEPT !.done = @ \ {s}]
        /\ UNCHANGED <<enabled, inside, online>>
  <2>1. (CHOOSE s \in Subs \ E!InUse : TRUE) \in Subs \ E!InUse
    BY DEF E!Subscribe
  <2> QED
    BY <2>1 DEF E!Subscribe, E!worldVars
<1>2. /\ ~Hears(s) /\ s \notin items /\ \A j \in E!Kinds : s \notin listeners[j]
      /\ \A q \in Owners : s \notin records[q]
      /\ \A c \in tick.calls : c[3] # s
  <2>1. s \notin E!Held /\ \A c \in tick.calls : c[3] # s
    BY <1>1 DEF E!InUse
  <2> QED
    BY <1>0, <1>1, <2>1 DEF E!Held, NativeInv, Hears, SignalsTypeOK, E!TypeOK
<1>3. /\ tick' \in Tick /\ tick'.loop = tick.loop /\ tick'.region = tick.region
      /\ tick'.regions = tick.regions /\ tick'.calls = tick.calls /\ tick'.now = tick.now
  BY <1>0, <1>1 DEF Tick
<1>4. listeners' = [j \in E!Kinds |-> IF j = k THEN listeners[j] \union {s} ELSE listeners[j]]
  BY <1>0, <1>1, SignalConstants
     DEF E!TypeOK, E!SubscribeInterval, E!SubscribeMap, E!SubscribeSlot, E!SubscribeRegion, E!Listen
<1>5. /\ records' = [q \in Owners |-> IF q = o THEN records[q] \union {s} ELSE records[q]]
      /\ records' \in [Owners -> SUBSET Subs] /\ signal' \in [Subs -> E!Kinds \union {"interval", None}]
  BY <1>0, <1>1 DEF E!TypeOK
<1>6. NativeInv' /\ {timer', hooked', watching', looking'} \subseteq BOOLEAN
                 /\ items' \subseteq Subs \union {"regions", "slots"}
  <2>1. CASE k = "interval" /\ E!SubscribeInterval(s)
    <3>1. /\ items' = items \union {s} /\ timer' = (items' # {}) /\ UNCHANGED <<hooked, watching, looking>>
          /\ \A j \in E!Kinds : listeners'[j] = listeners[j]
      BY <1>4, <2>1, SignalConstants DEF E!SubscribeInterval, E!AddItems
    <3>2. ASSUME NEW t \in Subs PROVE Hears(t)' <=> (Hears(t) \/ t = s)
      BY <3>1 DEF Hears
    <3> QED
      BY <1>0, <1>2, <1>5, <3>1, <3>2, SignalConstants DEF NativeInv, E!TypeOK
  <2>2. CASE k \in E!Kinds
    <3>1. ASSUME NEW t \in Subs, \A u \in Subs : u \in items' <=> u \in items
          PROVE  Hears(t)' <=> (Hears(t) \/ t = s)
      BY <1>4, <2>2, <3>1 DEF Hears
    <3>2. \A j \in E!Kinds : listeners'[j] # {} <=> j = k \/ listeners[j] # {}
      BY <1>4
    <3>3. CASE k = "map" /\ E!SubscribeMap(s)
      <4>1. hooked' = TRUE /\ UNCHANGED <<items, timer, watching, looking>>
        BY <3>3 DEF E!SubscribeMap
      <4> QED
        BY <1>0, <1>5, <3>1, <3>2, <3>3, <4>1, SignalConstants DEF NativeInv, E!TypeOK
    <3>4. CASE k = "slot" /\ E!SubscribeSlot(s)
      <4>1. /\ looking' = TRUE /\ items' = items \union {"slots"} /\ timer' = (items' # {})
            /\ UNCHANGED <<hooked, watching>>
        BY <3>4 DEF E!SubscribeSlot, E!AddItems
      <4>2. /\ {timer', hooked', watching', looking'} \subseteq BOOLEAN
            /\ items' \subseteq Subs \union {"regions", "slots"}
        BY <1>0, <4>1 DEF E!TypeOK
      <4>3. (timer' <=> items' # {}) /\ (hooked' <=> listeners'["map"] # {})
        BY <1>0, <3>2, <3>4, <4>1, SignalConstants DEF NativeInv
      <4>4. /\ watching' <=> \E r \in Regions : listeners'[r] # {}
            /\ looking' <=> listeners'["slot"] # {}
        BY <1>0, <3>2, <3>4, <4>1, SignalConstants DEF NativeInv
      <4>5. (watching' <=> "regions" \in items') /\ (looking' <=> "slots" \in items')
        BY <1>0, <4>1 DEF NativeInv
      <4>6. \A t \in Subs : Hears(t)' <=> \E q \in Owners : t \in records'[q]
        BY <1>0, <1>5, <3>1, <4>1, SignalConstants DEF NativeInv
      <4> QED
        BY <4>2, <4>3, <4>4, <4>5, <4>6 DEF NativeInv
    <3>5. CASE k \in Regions /\ E!SubscribeRegion(s, k)
      <4>1. /\ watching' = TRUE /\ items' = items \union {"regions"} /\ timer' = (items' # {})
            /\ UNCHANGED <<hooked, looking>>
        BY <3>5 DEF E!SubscribeRegion, E!AddItems
      <4>2. /\ {timer', hooked', watching', looking'} \subseteq BOOLEAN
            /\ items' \subseteq Subs \union {"regions", "slots"}
        BY <1>0, <4>1 DEF E!TypeOK
      <4>3. (timer' <=> items' # {}) /\ (hooked' <=> listeners'["map"] # {})
        BY <1>0, <3>2, <3>5, <4>1, SignalConstants DEF NativeInv
      <4>4. /\ watching' <=> \E r \in Regions : listeners'[r] # {}
            /\ looking' <=> listeners'["slot"] # {}
        BY <1>0, <3>2, <3>5, <4>1, SignalConstants DEF NativeInv
      <4>5. (watching' <=> "regions" \in items') /\ (looking' <=> "slots" \in items')
        BY <1>0, <4>1 DEF NativeInv
      <4>6. \A t \in Subs : Hears(t)' <=> \E q \in Owners : t \in records'[q]
        BY <1>0, <1>5, <3>1, <4>1, SignalConstants DEF NativeInv
      <4> QED
        BY <4>2, <4>3, <4>4, <4>5, <4>6 DEF NativeInv
    <3> QED
      BY <1>1, <2>2, <3>3, <3>4, <3>5, SignalConstants
  <2> QED
    BY <1>1, <2>1, <2>2, SignalConstants
<1>7. Apart'
  BY <1>0, <1>2, <1>4 DEF Apart
<1>8. TickInv'
  BY <1>0, <1>1, <1>3 DEF TickInv
<1>9. \/ k \notin Regions /\ UNCHANGED <<states, told, first>>
      \/ /\ k \in Regions
         /\ told' = [told EXCEPT ![s] = {}]
         /\ first' = IF listeners[k] = {} /\ tick.loop # "regions" THEN first \union {s} ELSE first \ {s}
         /\ states' = [q \in DOMAIN states \union {k} |-> IF q \in DOMAIN states THEN states[q] ELSE {}]
  BY <1>1, SignalConstants
     DEF E!SubscribeInterval, E!SubscribeMap, E!SubscribeSlot, E!SubscribeRegion, E!Newcomer, E!regionVars
<1>10. E!TypeOK'
  <2>1. listeners' \in [E!Kinds -> SUBSET Subs]
    BY <1>0, <1>4 DEF E!TypeOK
  <2>2. /\ DOMAIN states' \subseteq Regions /\ \A r \in DOMAIN states' : states'[r] \subseteq Visitors
        /\ told' \in [Subs -> SUBSET Visitors] /\ first' \subseteq Subs
    BY <1>0, <1>1, <1>9 DEF E!TypeOK
  <2>3. enabled' \in BOOLEAN /\ tick'.loop \in {"idle", "tick", "regions", "slots", "map"}
    BY <1>0, <1>1, <1>3 DEF E!TypeOK
  <2> QED
    BY <1>5, <1>6, <2>1, <2>2, <2>3 DEF E!TypeOK
<1>11. SignalsTypeOK'
  BY <1>0, <1>1, <1>3, <1>10 DEF SignalsTypeOK
<1>12. Followed'
  <2>1. \A r \in Regions : r \in DOMAIN states' <=> listeners'[r] # {}
    BY <1>0, <1>4, <1>9, SignalConstants DEF Followed
  <2>2. \A r \in Regions : listeners[r] # {} => listeners'[r] # {}
    BY <1>4, SignalConstants
  <2>3. tick.loop = "regions" =>
          \A c \in tick.calls : \A r \in Regions \ {tick.region} : c[3] \notin listeners'[r]
    BY <1>0, <1>2, <1>4, SignalConstants DEF Followed
  <2> QED
    BY <1>0, <1>3, <2>1, <2>2, <2>3 DEF Followed, Tick
<1>13. Tells'
  <2> SUFFICES ASSUME NEW r \in Regions, NEW t \in listeners'[r] \intersect first'
               PROVE  IF tick'.region = r THEN Due(t)' = tick'.now ELSE told'[t] = states'[r] \intersect online'
    BY DEF Tells
  <2>1. t \in Subs
    BY <1>10, SignalConstants DEF E!TypeOK
  <2>2. CASE t # s
    <3>1. t \in listeners[r] \intersect first /\ told'[t] = told[t]
      BY <1>0, <1>4, <1>9, <2>1, <2>2, SignalConstants DEF E!TypeOK
    <3>2. r \in DOMAIN states /\ states'[r] = states[r]
      BY <1>0, <1>9, <3>1 DEF Followed
    <3>3. Due(t)' = Due(t)
      BY <1>3, <3>1 DEF Due
    <3> QED
      BY <1>0, <1>1, <1>3, <3>1, <3>2, <3>3 DEF Tells
  <2>3. CASE t = s
    <3>1. k = r /\ k \in Regions
      BY <1>2, <1>4, <2>3, SignalConstants
    <3>2. listeners[r] = {} /\ tick.loop # "regions" /\ told'[s] = {}
      BY <1>0, <1>1, <1>9, <2>3, <3>1 DEF E!TypeOK
    <3>3. states'[r] = {} /\ tick.region # r
      BY <1>0, <1>9, <3>1, <3>2, SignalConstants DEF Followed, TickInv
    <3> QED
      BY <1>3, <2>3, <3>2, <3>3
  <2> QED
    BY <2>2, <2>3
<1> QED
  BY <1>6, <1>7, <1>8, <1>11, <1>12, <1>13 DEF EInv


(* Subscriptions are dropped: those of one, of an event or of an owner.      *)
LEMMA ForgetKeeps ==
  ASSUME EInv, NEW gone \in SUBSET Subs, E!Forget(gone), enabled' \in BOOLEAN
  PROVE  EInv'
<1> DEFINE idle == (IF watching' THEN {} ELSE {"regions"}) \union (IF looking' THEN {} ELSE {"slots"})
           followed == \E r \in Regions : listeners'[r] # {}
<1>0. /\ SignalsTypeOK /\ E!TypeOK /\ NativeInv /\ Apart /\ TickInv /\ Followed /\ Tells
      /\ tick \in Tick
  BY DEF EInv, SignalsTypeOK
<1>1. /\ records' = [o \in Owners |-> records[o] \ gone]
      /\ signal' = [s \in Subs |-> IF s \in gone THEN None ELSE signal[s]]
      /\ listeners' = [k \in E!Kinds |-> listeners[k] \ gone]
      /\ hooked' = (hooked /\ listeners'["map"] # {})
      /\ looking' = (looking /\ listeners'["slot"] # {})
      /\ watching' = (watching /\ followed)
      /\ states' = IF watching /\ ~followed THEN [r \in {} |-> {}]
                   ELSE [r \in {q \in DOMAIN states : listeners[q] \intersect gone = {}
                                                      \/ listeners'[q] # {}} |-> states[r]]
      /\ items' = items \ (gone \union idle) /\ timer' = (items' # {})
      /\ tick' = [tick EXCEPT !.todo = @ \ idle]
      /\ UNCHANGED <<told, first, inside, online>>
  BY DEF E!Forget, E!Drop, E!LeaveMap, E!LeaveSlots, E!LeaveRegions, E!LeaveInterval, E!worldVars
<1>2. tick.loop = "regions" => \A r \in Regions : listeners[r] # {} => listeners[r] \ gone # {}
  BY DEF E!Forget, E!MayDrop
<1> HIDE DEF idle, followed
<1>3. /\ tick' \in Tick /\ tick'.loop = tick.loop /\ tick'.region = tick.region
      /\ tick'.regions = tick.regions /\ tick'.calls = tick.calls /\ tick'.now = tick.now
  BY <1>0, <1>1 DEF Tick
<1>4. /\ \A k \in E!Kinds : listeners'[k] = listeners[k] \ gone
      /\ \A r \in Regions : listeners'[r] = listeners[r] \ gone
      /\ listeners'["map"] = listeners["map"] \ gone /\ listeners'["slot"] = listeners["slot"] \ gone
  BY <1>1, SignalConstants
<1>5. /\ {timer', hooked', watching', looking'} \subseteq BOOLEAN
      /\ items' \subseteq Subs \union {"regions", "slots"}
  BY <1>0, <1>1 DEF E!TypeOK
<1>6. NativeInv'
  <2>1. (timer' <=> items' # {}) /\ (hooked' <=> listeners'["map"] # {})
    BY <1>0, <1>1, <1>4 DEF NativeInv
  <2>2. /\ watching' <=> followed
        /\ looking' <=> listeners'["slot"] # {}
    BY <1>0, <1>1, <1>4 DEF NativeInv, followed
  <2>3. /\ "regions" \in items' <=> "regions" \in items /\ watching'
        /\ "slots" \in items' <=> "slots" \in items /\ looking'
    BY <1>1, SignalConstants DEF idle
  <2>4. (watching' => watching) /\ (looking' => looking)
    BY <1>1
  <2>5. ASSUME NEW s \in Subs PROVE Hears(s)' <=> \E o \in Owners : s \in records'[o]
    <3>1. s \in items' <=> s \in items /\ s \notin gone
      BY <1>1, SignalConstants DEF idle
    <3>2. Hears(s)' <=> Hears(s) /\ s \notin gone
      BY <1>4, <3>1 DEF Hears
    <3> QED
      BY <1>0, <1>1, <3>2 DEF NativeInv
  <2>6. (watching' <=> "regions" \in items') /\ (looking' <=> "slots" \in items')
    BY <1>0, <2>3, <2>4 DEF NativeInv
  <2> QED
    BY <2>1, <2>2, <2>5, <2>6 DEF NativeInv, followed
<1>7. Apart'
  BY <1>0, <1>4 DEF Apart
<1>8. TickInv'
  BY <1>0, <1>1, <1>3 DEF TickInv
<1>9. /\ DOMAIN states' \subseteq DOMAIN states /\ \A r \in DOMAIN states' : states'[r] = states[r]
      /\ \A r \in Regions : r \in DOMAIN states' <=> listeners'[r] # {}
  <2>1. CASE watching /\ ~followed
    BY <1>1, <2>1 DEF followed
  <2>2. CASE ~(watching /\ ~followed)
    BY <1>0, <1>1, <1>4, <2>2 DEF followed, Followed
  <2> QED
    BY <2>1, <2>2
<1>10. SignalsTypeOK'
  <2>1. records' \in [Owners -> SUBSET Subs] /\ signal' \in [Subs -> E!Kinds \union {"interval", None}]
    BY <1>0, <1>1 DEF E!TypeOK
  <2>2. listeners' \in [E!Kinds -> SUBSET Subs]
    BY <1>0, <1>1 DEF E!TypeOK
  <2>3. /\ DOMAIN states' \subseteq Regions /\ \A r \in DOMAIN states' : states'[r] \subseteq Visitors
        /\ told' \in [Subs -> SUBSET Visitors] /\ first' \subseteq Subs
    BY <1>0, <1>1, <1>9 DEF E!TypeOK
  <2>4. tick'.loop \in {"idle", "tick", "regions", "slots", "map"}
    BY <1>0, <1>3 DEF E!TypeOK
  <2>5. E!TypeOK'
    BY <1>5, <2>1, <2>2, <2>3, <2>4 DEF E!TypeOK
  <2> QED
    BY <1>0, <1>1, <1>3, <2>5 DEF SignalsTypeOK
<1>11. Followed'
  <2>1. (\A r \in tick.regions : listeners'[r] # {}) /\ (tick.region # None => listeners'[tick.region] # {})
    BY <1>0, <1>2, <1>4 DEF Followed, TickInv, Tick
  <2>2. tick.loop = "regions" =>
          \A c \in tick.calls : \A r \in Regions \ {tick.region} : c[3] \notin listeners'[r]
    BY <1>0, <1>4 DEF Followed
  <2> QED
    BY <1>3, <1>9, <2>1, <2>2 DEF Followed
<1>12. Tells'
  <2> SUFFICES ASSUME NEW r \in Regions, NEW t \in listeners'[r] \intersect first'
               PROVE  IF tick'.region = r THEN Due(t)' = tick'.now ELSE told'[t] = states'[r] \intersect online'
    BY DEF Tells
  <2>1. t \in listeners[r] \intersect first /\ told'[t] = told[t]
    BY <1>1, <1>4
  <2>2. states'[r] = states[r]
    BY <1>9
  <2>3. Due(t)' = Due(t)
    BY <1>3, <2>1 DEF Due
  <2>4. tick'.region = tick.region /\ tick'.now = tick.now /\ online' = online
    BY <1>0, <1>1, <1>3
  <2>5. IF tick.region = r THEN Due(t) = tick.now ELSE told[t] = states[r] \intersect online
    BY <1>0, <2>1 DEF Tells
  <2> QED
    BY <2>1, <2>2, <2>3, <2>4, <2>5
<1> QED
  BY <1>6, <1>7, <1>8, <1>10, <1>11, <1>12 DEF EInv

(* A delivery leaves the subscriptions alone.                                *)
LEMMA DeliveryKeeps ==
  ASSUME EInv, E!Delivers, tick' \in Tick, TickInv', UNCHANGED <<states, told, first>>,
         \A r \in tick'.regions : listeners[r] # {},
         tick'.region = tick.region, tick.region # None => tick'.calls = tick.calls /\ tick'.now = tick.now,
         tick'.loop = "regions" => tick'.calls = {} \/ (tick.loop = "regions" /\ tick'.calls = tick.calls)
  PROVE  EInv'
<1>1. /\ UNCHANGED <<enabled, records, signal, items, timer, listeners, hooked, watching, looking>>
      /\ UNCHANGED <<inside, online, states, told, first>>
  BY DEF E!Delivers, E!managerVars, E!signalVars, E!worldVars
<1>2. SignalsTypeOK'
  BY <1>1 DEF EInv, SignalsTypeOK, E!TypeOK, Tick
<1>3. NativeInv' /\ Apart'
  <2>1. \A s : Hears(s)' <=> Hears(s)
    BY <1>1 DEF Hears
  <2> QED
    BY <1>1, <2>1 DEF EInv, NativeInv, Apart
<1>4. Followed'
  BY <1>1 DEF EInv, Followed
<1>5. Tells'
  <2> SUFFICES ASSUME NEW r \in Regions, NEW t \in listeners[r] \intersect first
               PROVE  IF tick.region = r THEN Due(t)' = tick'.now ELSE told[t] = states[r] \intersect online
    BY <1>1 DEF Tells
  <2>1. CASE tick.region = r
    <3>1. tick'.calls = tick.calls /\ tick'.now = tick.now
      BY <2>1, SignalConstants
    <3>2. Due(t)' = Due(t)
      BY <1>1, <3>1 DEF Due
    <3> QED
      BY <2>1, <3>1, <3>2 DEF EInv, Tells
  <2>2. CASE tick.region # r
    BY <2>2 DEF EInv, Tells
  <2> QED
    BY <2>1, <2>2
<1> QED
  BY <1>2, <1>3, <1>4, <1>5 DEF EInv


LEMMA RegionBeginsKeeps ==
  ASSUME EInv, NEW r \in Regions, E!RegionBegins(r)
  PROVE  EInv'
<1> DEFINE before == IF r \in DOMAIN states THEN states[r] ELSE {}
           comes == inside[r] \ before
           goes == (before \ inside[r]) \intersect online
<1>0. /\ SignalsTypeOK /\ E!TypeOK /\ NativeInv /\ Apart /\ TickInv /\ Followed /\ Tells
      /\ tick \in Tick
  BY DEF EInv, SignalsTypeOK
<1>1. /\ tick.loop = "regions" /\ tick.region = None /\ r \in tick.regions
      /\ tick' = [tick EXCEPT !.region = r, !.regions = @ \ {r}, !.now = inside[r],
                    !.calls = ({"enter"} \X comes \X listeners[r]) \union
                              ({"leave"} \X goes \X listeners[r])]
      /\ UNCHANGED <<enabled, records, signal, items, timer, listeners, hooked, watching, looking>>
      /\ UNCHANGED <<inside, online, states, told, first>>
  BY DEF E!RegionBegins, E!Delivers, E!managerVars, E!signalVars, E!worldVars, E!regionVars
<1>2. /\ before \subseteq Visitors /\ inside[r] \subseteq online /\ online \subseteq Visitors
      /\ listeners[r] \subseteq Subs /\ r # None
  BY <1>0, SignalConstants DEF SignalsTypeOK, E!TypeOK
<1>3. comes \subseteq Visitors /\ goes \subseteq Visitors /\ comes \intersect goes = {}
  BY <1>2
<1>4. r \in DOMAIN states /\ before = states[r]
  BY <1>0, <1>1 DEF Followed
<1> HIDE DEF before
<1>5. comes = inside[r] \ states[r] /\ goes = (states[r] \ inside[r]) \intersect online
  BY <1>4
<1> HIDE DEF comes, goes
<1>6. /\ tick'.loop = "regions" /\ tick'.region = r /\ tick'.regions = tick.regions \ {r}
      /\ tick'.now = inside[r] /\ tick'.todo = tick.todo /\ tick'.done = tick.done /\ tick'.runs = tick.runs
      /\ tick'.calls = ({"enter"} \X comes \X listeners[r]) \union ({"leave"} \X goes \X listeners[r])
  BY <1>0, <1>1 DEF Tick
<1>7. /\ \A c \in tick'.calls : c[3] \in listeners[r]
      /\ \A p \in Visitors, s \in Subs : <<"enter", p, s>> \in tick'.calls <=> p \in comes /\ s \in listeners[r]
      /\ \A p \in Visitors, s \in Subs : <<"leave", p, s>> \in tick'.calls <=> p \in goes /\ s \in listeners[r]
      /\ tick'.calls \subseteq {"enter", "leave"} \X Visitors \X Subs
  BY <1>2, <1>3, <1>6
<1>8. tick' \in Tick
  <2>1. tick'.calls \in SUBSET Call /\ tick'.now \in SUBSET Visitors /\ tick'.regions \in SUBSET Regions
    BY <1>0, <1>2, <1>6, <1>7 DEF Call, Tick
  <2>2. tick' = [tick EXCEPT !.region = r, !.regions = tick'.regions, !.now = tick'.now, !.calls = tick'.calls]
    BY <1>0, <1>1, <1>6
  <2> QED
    BY <1>0, <2>1, <2>2 DEF Tick
<1>9. SignalsTypeOK'
  BY <1>0, <1>1, <1>6, <1>8 DEF SignalsTypeOK, E!TypeOK
<1>10. NativeInv' /\ Apart'
  <2>1. \A s : Hears(s)' <=> Hears(s)
    BY <1>1 DEF Hears
  <2> QED
    BY <1>0, <1>1, <2>1 DEF NativeInv, Apart
<1>11. TickInv'
  BY <1>1, <1>2, <1>3, <1>6, <1>7 DEF TickInv
<1>12. Followed'
  <2>1. \A q \in Regions \ {r} : listeners[q] \intersect listeners[r] = {}
    BY <1>0, SignalConstants DEF Apart
  <2> QED
    BY <1>0, <1>1, <1>6, <1>7, <2>1 DEF Followed
<1>13. Tells'
  <2> SUFFICES ASSUME NEW q \in Regions, NEW t \in listeners[q] \intersect first
               PROVE  IF r = q THEN Due(t)' = inside[r] ELSE told[t] = states[q] \intersect online
    BY <1>1, <1>6 DEF Tells
  <2>1. told[t] = states[q] \intersect online /\ t \in Subs
    BY <1>0, <1>1, SignalConstants DEF Tells, SignalsTypeOK, E!TypeOK
  <2>2. CASE r = q
    <3>1. {p \in Visitors : <<"enter", p, t>> \in tick'.calls} = comes
      BY <1>3, <1>7, <2>1, <2>2
    <3>2. {p \in Visitors : <<"leave", p, t>> \in tick'.calls} = goes
      BY <1>3, <1>7, <2>1, <2>2
    <3>3. Due(t)' = (told[t] \union comes) \ goes
      BY <1>1, <3>1, <3>2 DEF Due
    <3> QED
      BY <1>2, <1>5, <2>1, <2>2, <3>3
  <2> QED
    BY <2>1, <2>2
<1> QED
  BY <1>9, <1>10, <1>11, <1>12, <1>13 DEF EInv

LEMMA TellRegionKeeps ==
  ASSUME EInv, NEW c \in tick.calls, E!TellRegion(c)
  PROVE  EInv'
<1>0. /\ SignalsTypeOK /\ E!TypeOK /\ NativeInv /\ Apart /\ TickInv /\ Followed /\ Tells
      /\ tick \in Tick
  BY DEF EInv, SignalsTypeOK
<1>1. /\ tick.loop = "regions" /\ tick.runs = None
      /\ tick' = [tick EXCEPT !.calls = @ \ {c}, !.runs = c[3]]
      /\ told' = [told EXCEPT ![c[3]] = IF c[1] = "enter" THEN @ \union {c[2]} ELSE @ \ {c[2]}]
      /\ UNCHANGED <<enabled, records, signal, items, timer, listeners, hooked, watching, looking>>
      /\ UNCHANGED <<inside, online, states, first>>
  BY DEF E!TellRegion, E!Delivers, E!managerVars, E!signalVars, E!worldVars
<1>2. c \in {"enter", "leave"} \X Visitors \X Subs
  BY <1>0, <1>1 DEF TickInv
<1>3. PICK e \in {"enter", "leave"}, v \in Visitors, s \in Subs : c = <<e, v, s>>
  BY <1>2
<1>4. /\ tick'.loop = "regions" /\ tick'.region = tick.region /\ tick'.regions = tick.regions
      /\ tick'.now = tick.now /\ tick'.calls = tick.calls \ {c} /\ tick' \in Tick
  BY <1>0, <1>1, <1>3 DEF Tick
<1>5. told' = [told EXCEPT ![s] = IF e = "enter" THEN @ \union {v} ELSE @ \ {v}]
      /\ told' \in [Subs -> SUBSET Visitors]
  <2>1. told' = [told EXCEPT ![s] = IF e = "enter" THEN @ \union {v} ELSE @ \ {v}]
    BY <1>1, <1>3
  <2> QED
    BY <1>0, <2>1 DEF E!TypeOK
<1>6. SignalsTypeOK'
  BY <1>0, <1>1, <1>4, <1>5 DEF SignalsTypeOK, E!TypeOK
<1>7. NativeInv' /\ Apart'
  <2>1. \A t : Hears(t)' <=> Hears(t)
    BY <1>1 DEF Hears
  <2> QED
    BY <1>0, <1>1, <2>1 DEF NativeInv, Apart
<1>8. TickInv'
  BY <1>0, <1>1, <1>4 DEF TickInv
<1>9. Followed'
  BY <1>0, <1>1, <1>4 DEF Followed
<1>10. Tells'
  <2> SUFFICES ASSUME NEW r \in Regions, NEW t \in listeners[r] \intersect first
               PROVE  IF tick.region = r THEN Due(t)' = tick.now ELSE told'[t] = states[r] \intersect online
    BY <1>1, <1>4 DEF Tells
  <2>1. t \in Subs
    BY <1>0, SignalConstants DEF E!TypeOK
  <2>2. CASE tick.region = r
    <3>1. CASE t # s
      <4>1. told'[t] = told[t]
        BY <1>0, <1>5, <2>1, <3>1 DEF E!TypeOK
      <4>2. \A p \in Visitors, w \in {"enter", "leave"} : <<w, p, t>> \in tick'.calls <=> <<w, p, t>> \in tick.calls
        BY <1>3, <1>4, <3>1
      <4>3. Due(t)' = Due(t)
        BY <4>1, <4>2 DEF Due
      <4> QED
        BY <1>0, <2>2, <4>3 DEF Tells
    <3>2. CASE t = s
      <4>1. told'[s] = IF e = "enter" THEN told[s] \union {v} ELSE told[s] \ {v}
        BY <1>0, <1>5 DEF E!TypeOK
      <4>2. \A p \in Visitors, w \in {"enter", "leave"} :
              <<w, p, s>> \in tick'.calls <=> <<w, p, s>> \in tick.calls /\ ~(w = e /\ p = v)
        BY <1>3, <1>4
      <4>3. <<e, v, s>> \in tick.calls /\ (e = "enter" => <<"leave", v, s>> \notin tick.calls)
            /\ (e = "leave" => <<"enter", v, s>> \notin tick.calls)
        BY <1>0, <1>3 DEF TickInv
      <4>4. Due(s)' = Due(s)
        <5>1. CASE e = "enter"
          BY <4>1, <4>2, <4>3, <5>1 DEF Due
        <5>2. CASE e = "leave"
          BY <4>1, <4>2, <4>3, <5>2 DEF Due
        <5> QED
          BY <5>1, <5>2
      <4> QED
        BY <1>0, <2>2, <3>2, <4>4 DEF Tells
    <3> QED
      BY <3>1, <3>2
  <2>3. CASE tick.region # r
    <3>1. s # t
      BY <1>0, <1>1, <1>3, <2>3 DEF Followed
    <3>2. told'[t] = told[t]
      BY <1>0, <1>5, <2>1, <3>1 DEF E!TypeOK
    <3> QED
      BY <1>0, <2>3, <3>2 DEF Tells
  <2> QED
    BY <2>2, <2>3
<1> QED
  BY <1>6, <1>7, <1>8, <1>9, <1>10 DEF EInv

LEMMA RegionEndsKeeps ==
  ASSUME EInv, E!RegionEnds
  PROVE  EInv'
<1>0. /\ SignalsTypeOK /\ E!TypeOK /\ NativeInv /\ Apart /\ TickInv /\ Followed /\ Tells
      /\ tick \in Tick
  BY DEF EInv, SignalsTypeOK
<1>1. /\ tick.loop = "regions" /\ tick.region # None /\ tick.calls = {}
      /\ states' = [r \in DOMAIN states \union {tick.region} |->
                      IF r = tick.region THEN tick.now ELSE states[r]]
      /\ tick' = [tick EXCEPT !.region = None, !.now = {}]
      /\ UNCHANGED <<enabled, records, signal, items, timer, listeners, hooked, watching, looking>>
      /\ UNCHANGED <<inside, online, told, first>>
  BY DEF E!RegionEnds, E!Delivers, E!managerVars, E!signalVars, E!worldVars
<1>2. /\ tick.region \in Regions /\ tick.region \in DOMAIN states
      /\ tick.now = inside[tick.region] /\ tick.now \subseteq online /\ online \subseteq Visitors
  BY <1>0, <1>1 DEF Tick, Followed, TickInv, SignalsTypeOK
<1>3. /\ tick'.loop = "regions" /\ tick'.region = None /\ tick'.regions = tick.regions
      /\ tick'.calls = {} /\ tick' \in Tick
  BY <1>0, <1>1 DEF Tick
<1>4. /\ DOMAIN states' = DOMAIN states /\ DOMAIN states \subseteq Regions
      /\ \A r \in DOMAIN states : states'[r] = IF r = tick.region THEN tick.now ELSE states[r]
      /\ \A r \in DOMAIN states : states[r] \subseteq Visitors
  BY <1>0, <1>1, <1>2 DEF E!TypeOK
<1>5. SignalsTypeOK'
  BY <1>0, <1>1, <1>2, <1>3, <1>4 DEF SignalsTypeOK, E!TypeOK
<1>6. NativeInv' /\ Apart'
  <2>1. \A t : Hears(t)' <=> Hears(t)
    BY <1>1 DEF Hears
  <2> QED
    BY <1>0, <1>1, <2>1 DEF NativeInv, Apart
<1>7. TickInv'
  BY <1>0, <1>1, <1>3 DEF TickInv
<1>8. Followed'
  BY <1>0, <1>1, <1>3, <1>4 DEF Followed
<1>9. Tells'
  <2> SUFFICES ASSUME NEW r \in Regions, NEW t \in listeners[r] \intersect first
               PROVE  told[t] = states'[r] \intersect online
    BY <1>1, <1>3, SignalConstants DEF Tells
  <2>1. r \in DOMAIN states
    BY <1>0 DEF Followed
  <2>2. CASE tick.region = r
    <3>1. Due(t) = tick.now /\ Due(t) = told[t]
      BY <1>0, <1>1, <2>2 DEF Tells, Due
    <3> QED
      BY <1>2, <1>4, <2>1, <2>2, <3>1
  <2>3. CASE tick.region # r
    BY <1>0, <1>4, <2>1, <2>3 DEF Tells
  <2> QED
    BY <2>2, <2>3
<1> QED
  BY <1>5, <1>6, <1>7, <1>8, <1>9 DEF EInv


(* Players walk and come and go between two deliveries only.                 *)
LEMMA WorldKeeps ==
  ASSUME EInv, tick.loop = "idle",
         online' \subseteq Visitors, inside' \in [Regions -> SUBSET online'],
         told' \in [Subs -> SUBSET Visitors],
         \A r \in Regions : \A s \in listeners[r] \intersect first :
           told[s] = states[r] \intersect online => told'[s] = states[r] \intersect online',
         UNCHANGED <<enabled, records, signal, items, timer, listeners, hooked, watching, looking>>,
         UNCHANGED <<states, first, tick>>
  PROVE  EInv'
<1>1. tick.region = None /\ \A r \in Regions : r # None
  BY SignalConstants DEF EInv, TickInv
<1>2. SignalsTypeOK'
  BY DEF EInv, SignalsTypeOK, E!TypeOK
<1>3. NativeInv' /\ Apart'
  <2>1. \A t : Hears(t)' <=> Hears(t)
    BY DEF Hears
  <2> QED
    BY <2>1 DEF EInv, NativeInv, Apart
<1>4. TickInv' /\ Followed'
  BY <1>1 DEF EInv, TickInv, Followed
<1>5. Tells'
  BY <1>1 DEF EInv, Tells
<1> QED
  BY <1>2, <1>3, <1>4, <1>5 DEF EInv

LEMMA PlayersKeep ==
  ASSUME EInv, NEW p \in Visitors, E!GoOffline(p) \/ \E r \in Regions : E!Move(p, r) \/ E!ComeOnline(p, r)
  PROVE  EInv'
<1>0. /\ online \subseteq Visitors /\ inside \in [Regions -> SUBSET online]
      /\ told \in [Subs -> SUBSET Visitors]
      /\ \A r \in Regions : listeners[r] \subseteq Subs /\ (listeners[r] # {} <=> r \in DOMAIN states)
  BY SignalConstants DEF EInv, SignalsTypeOK, E!TypeOK, Followed
<1>1. CASE E!GoOffline(p)
  <2>1. /\ tick.loop = "idle" /\ online' = online \ {p}
        /\ inside' = [r \in Regions |-> inside[r] \ {p}] /\ told' = [s \in Subs |-> told[s] \ {p}]
        /\ UNCHANGED <<enabled, records, signal, items, timer, listeners, hooked, watching, looking>>
        /\ UNCHANGED <<states, first, tick>>
    BY <1>1 DEF E!GoOffline, E!managerVars, E!signalVars
  <2>2. inside' \in [Regions -> SUBSET online'] /\ told' \in [Subs -> SUBSET Visitors]
    BY <1>0, <2>1
  <2>3. ASSUME NEW r \in Regions, NEW s \in listeners[r] \intersect first,
               told[s] = states[r] \intersect online
        PROVE  told'[s] = states[r] \intersect online'
    <3>1. told'[s] = told[s] \ {p}
      BY <1>0, <2>1
    <3> QED
      BY <2>1, <2>3, <3>1
  <2> QED
    BY <1>0, <2>1, <2>2, <2>3, WorldKeeps
<1>2. ASSUME NEW r \in Regions, E!Move(p, r) PROVE EInv'
  <2>1. /\ tick.loop = "idle" /\ p \in online
        /\ inside' = [q \in Regions |->
                        IF q # r THEN inside[q] \ {p}
                        ELSE IF p \in inside[r] THEN inside[r] \ {p} ELSE inside[r] \union {p}]
        /\ UNCHANGED <<enabled, records, signal, items, timer, listeners, hooked, watching, looking>>
        /\ UNCHANGED <<states, first, tick, online, told>>
    BY <1>2 DEF E!Move, E!managerVars, E!signalVars, E!regionVars
  <2>2. inside' \in [Regions -> SUBSET online']
    BY <1>0, <2>1
  <2> QED
    BY <1>0, <2>1, <2>2, WorldKeeps
<1>3. ASSUME NEW r \in Regions, E!ComeOnline(p, r) PROVE EInv'
  <2>1. /\ tick.loop = "idle" /\ online' = online \union {p}
        /\ inside' = [inside EXCEPT ![r] = @ \union {p}]
        /\ \A q \in DOMAIN states : p \notin states[q]
        /\ UNCHANGED <<enabled, records, signal, items, timer, listeners, hooked, watching, looking>>
        /\ UNCHANGED <<states, first, tick, told>>
    BY <1>3 DEF E!ComeOnline, E!managerVars, E!signalVars, E!regionVars
  <2>2. inside' \in [Regions -> SUBSET online'] /\ online' \subseteq Visitors
    BY <1>0, <2>1
  <2>3. \A q \in Regions : \A s \in listeners[q] \intersect first :
          told[s] = states[q] \intersect online => told'[s] = states[q] \intersect online'
    BY <1>0, <2>1
  <2> QED
    BY <1>0, <2>1, <2>2, <2>3, WorldKeeps
<1> QED
  BY <1>1, <1>2, <1>3

LEMMA DeliveriesKeep ==
  ASSUME EInv, E!Delivery \/ E!TickBegins \/ E!NativeEvent
  PROVE  EInv'
<1>0. /\ tick \in Tick /\ TickInv /\ items \subseteq Subs \union {"regions", "slots"}
      /\ \A k \in E!Kinds : listeners[k] \subseteq Subs
  BY DEF EInv, SignalsTypeOK, E!TypeOK
<1>1. ASSUME tick.loop # "regions", tick.loop \in {"tick", "map"}, tick' = E!Idle, E!Delivers,
             UNCHANGED <<states, told, first>>
      PROVE  EInv'
  <2>1. /\ tick' \in Tick /\ tick'.loop = "idle" /\ tick'.region = None /\ tick.region = None
        /\ tick'.calls = {} /\ tick'.regions = {}
    BY <1>0, <1>1 DEF TickInv, E!Idle, Tick
  <2>2. TickInv'
    BY <2>1 DEF TickInv
  <2> QED
    BY <1>1, <2>1, <2>2, DeliveryKeeps
<1>2. ASSUME E!Delivers, UNCHANGED <<states, told, first>>, tick' \in Tick,
             tick'.region = tick.region, tick'.regions = tick.regions, tick'.calls = tick.calls,
             tick'.now = tick.now,
             tick'.loop = tick.loop \/ ({tick'.loop, tick.loop} \intersect {"regions", "map"} = {})
      PROVE  EInv'
  <2>1. TickInv'
    BY <1>0, <1>2 DEF TickInv, E!Delivers, E!worldVars
  <2> QED
    BY <1>2, <2>1, DeliveryKeeps DEF EInv, Followed
<1>3. CASE E!TickBegins
  <2>1. /\ tick.loop = "idle" /\ tick' = [tick EXCEPT !.loop = "tick", !.todo = items]
        /\ E!Delivers /\ UNCHANGED <<states, told, first>>
    BY <1>3 DEF E!TickBegins, E!regionVars
  <2> QED
    BY <1>0, <1>2, <2>1 DEF Tick
<1>4. ASSUME NEW s \in Subs, E!TickItem(s) PROVE EInv'
  <2>1. PICK t \in Subs \union {None} :
          /\ tick' = [tick EXCEPT !.todo = @ \ {s}, !.runs = t]
          /\ E!Delivers /\ UNCHANGED <<states, told, first>>
    BY <1>4 DEF E!TickItem, E!regionVars
  <2> QED
    BY <1>0, <1>2, <2>1 DEF Tick
<1>5. ASSUME NEW s \in Subs, E!SlotNext(s) PROVE EInv'
  <2>1. PICK t \in Subs \union {None} :
          /\ tick' = [tick EXCEPT !.done = @ \union {s}, !.runs = t]
          /\ E!Delivers /\ UNCHANGED <<states, told, first>>
    BY <1>5 DEF E!SlotNext, E!regionVars
  <2> QED
    BY <1>0, <1>2, <2>1 DEF Tick
<1>6. CASE E!CallbackReturns
  <2>1. tick' = [tick EXCEPT !.runs = None] /\ E!Delivers /\ UNCHANGED <<states, told, first>>
    BY <1>6 DEF E!CallbackReturns, E!regionVars
  <2> QED
    BY <1>0, <1>2, <2>1 DEF Tick
<1>7. CASE E!TickDone \/ E!NativeEventEnds
  <2>1. /\ tick.loop \in {"tick", "map"} /\ tick' = E!Idle
        /\ E!Delivers /\ UNCHANGED <<states, told, first>>
    BY <1>7 DEF E!TickDone, E!NativeEventEnds, E!regionVars
  <2> QED
    BY <1>1, <2>1
<1>8. CASE E!RegionsBegin
  <2>1. /\ tick.loop = "tick"
        /\ tick' = [tick EXCEPT !.loop = "regions", !.todo = @ \ {"regions"},
                                !.regions = {r \in Regions : listeners[r] # {}}]
        /\ E!Delivers /\ UNCHANGED <<states, told, first>>
    BY <1>8 DEF E!RegionsBegin, E!regionVars
  <2>2. /\ tick' \in Tick /\ tick'.loop = "regions" /\ tick'.region = None /\ tick.region = None
        /\ tick'.calls = {} /\ tick.calls = {} /\ tick'.now = tick.now
        /\ tick'.regions = {r \in Regions : listeners[r] # {}}
    BY <1>0, <2>1 DEF TickInv, Tick
  <2>3. TickInv'
    BY <2>2 DEF TickInv
  <2> QED
    BY <2>1, <2>2, <2>3, DeliveryKeeps
<1>9. CASE E!RegionsEnd
  <2>1. /\ tick.loop = "regions" /\ tick.region = None /\ tick.regions = {}
        /\ tick' = [tick EXCEPT !.loop = "tick"]
        /\ E!Delivers /\ UNCHANGED <<states, told, first>>
    BY <1>9 DEF E!RegionsEnd, E!regionVars
  <2>2. /\ tick' \in Tick /\ tick'.loop = "tick" /\ tick'.region = None
        /\ tick'.calls = {} /\ tick'.now = tick.now /\ tick'.regions = {} /\ tick.calls = {}
    BY <1>0, <2>1 DEF TickInv, Tick
  <2>3. TickInv'
    BY <2>2 DEF TickInv
  <2> QED
    BY <2>1, <2>2, <2>3, DeliveryKeeps
<1>10. CASE E!SlotsBegin \/ E!SlotsEnd
  <2>1. /\ tick.loop \in {"tick", "slots"} /\ tick'.loop \in {"tick", "slots"} /\ tick' \in Tick
        /\ tick'.region = tick.region /\ tick'.regions = tick.regions
        /\ tick'.calls = tick.calls /\ tick'.now = tick.now
    <3>1. CASE E!SlotsBegin
      BY <1>0, <3>1 DEF E!SlotsBegin, Tick
    <3>2. CASE E!SlotsEnd
      BY <1>0, <3>2 DEF E!SlotsEnd, Tick
    <3> QED
      BY <1>10, <3>1, <3>2
  <2>2. E!Delivers /\ UNCHANGED <<states, told, first>>
    BY <1>10 DEF E!SlotsBegin, E!SlotsEnd, E!regionVars
  <2> QED
    BY <1>2, <2>1, <2>2
<1>11. CASE E!NativeEvent
  <2>1. /\ tick.loop = "idle"
        /\ tick' = [tick EXCEPT !.loop = "map", !.calls = {<<"event", None, s>> : s \in listeners["map"]}]
        /\ E!Delivers /\ UNCHANGED <<states, told, first>>
    BY <1>11 DEF E!NativeEvent, E!regionVars
  <2>2. listeners["map"] \subseteq Subs
    BY <1>0, SignalConstants
  <2>3. {<<"event", None, s>> : s \in listeners["map"]} \in SUBSET Call
    BY <2>2 DEF Call
  <2> DEFINE copy == {<<"event", None, s>> : s \in listeners["map"]}
  <2>4. \A c \in copy : c[1] = "event"
    OBVIOUS
  <2> HIDE DEF copy
  <2>5. /\ tick' \in Tick /\ tick'.loop = "map" /\ tick'.region = tick.region
        /\ tick'.regions = tick.regions /\ tick'.now = tick.now /\ tick'.calls = copy
    BY <1>0, <2>1, <2>3 DEF Tick, copy
  <2>6. /\ tick' \in Tick /\ tick'.loop = "map" /\ tick'.region = None /\ tick.region = None
        /\ tick'.regions = {} /\ tick'.now = tick.now
        /\ \A c \in tick'.calls : c[1] = "event"
    BY <1>0, <2>1, <2>4, <2>5 DEF TickInv
  <2>7. TickInv'
    BY <2>6 DEF TickInv
  <2> QED
    BY <2>1, <2>6, <2>7, DeliveryKeeps
<1>12. ASSUME NEW c \in tick.calls, E!TellMap(c) PROVE EInv'
  <2>1. PICK t \in {c[3], None} :
          /\ tick.loop = "map"
          /\ tick' = [tick EXCEPT !.calls = @ \ {c}, !.runs = t]
          /\ E!Delivers /\ UNCHANGED <<states, told, first>>
    BY <1>12 DEF E!TellMap, E!regionVars
  <2>2. c[3] \in Subs
    BY <1>0 DEF Tick, Call
  <2>3. /\ tick' \in Tick /\ tick'.loop = "map" /\ tick'.region = None /\ tick.region = None
        /\ tick'.regions = {} /\ tick'.now = tick.now /\ tick'.calls \subseteq tick.calls
    BY <1>0, <2>1, <2>2 DEF TickInv, Tick
  <2>4. TickInv'
    BY <1>0, <2>3 DEF TickInv
  <2> QED
    BY <2>1, <2>3, <2>4, DeliveryKeeps
<1> QED
  BY <1>3, <1>4, <1>5, <1>6, <1>7, <1>8, <1>9, <1>10, <1>11, <1>12,
     RegionBeginsKeeps, TellRegionKeeps, RegionEndsKeeps DEF E!Delivery

LEMMA EInvNext ==
  ASSUME EInv, E!Next
  PROVE  EInv'
<1>0. /\ enabled \in BOOLEAN /\ records \in [Owners -> SUBSET Subs] /\ E!Held \subseteq Subs
  BY DEF EInv, SignalsTypeOK, E!TypeOK, E!Held
<1>1. CASE E!GameCalls
  <2>1. CASE \E s \in Subs : E!Unsubscribe(s)
    BY <1>0, <2>1, ForgetKeeps DEF E!Unsubscribe
  <2>2. ASSUME NEW k \in E!Kinds \union {"interval"}, E!UnsubscribeByEvent(k) PROVE EInv'
    <3>1. {s \in E!Held : signal[s] = k} \in SUBSET Subs
      BY <1>0
    <3> QED
      BY <1>0, <2>2, <3>1, ForgetKeeps DEF E!UnsubscribeByEvent
  <2>3. CASE \E o \in Owners : E!Detach(o)
    BY <1>0, <2>3, ForgetKeeps DEF E!Detach
  <2>4. CASE E!DisposeManager
    BY <1>0, <2>4, ForgetKeeps DEF E!DisposeManager
  <2> QED
    BY <1>1, <2>1, <2>2, <2>3, <2>4, SubscribeKeeps DEF E!GameCalls
<1>2. CASE E!Delivery \/ E!TickBegins \/ E!NativeEvent
  BY <1>2, DeliveriesKeep
<1> QED
  BY <1>1, <1>2, PlayersKeep DEF E!Next

(* Who is called listens still, in the deliveries that ask or walk what there *)
(* is.                                                                       *)
LEMMA EInvDeaf ==
  ASSUME EInv, E!Next
  PROVE  E!DeafAfterDetach
<1>0. /\ tick \in Tick /\ TickInv
      /\ \A s \in Subs : s \in E!Held <=> Hears(s)
  BY DEF EInv, SignalsTypeOK, E!TypeOK, E!Held, NativeInv
<1>1. CASE tick'.runs = tick.runs \/ tick'.runs = None
  BY <1>1 DEF E!DeafAfterDetach
<1>2. ASSUME NEW s \in Subs, E!TickItem(s) PROVE E!DeafAfterDetach
  <2>1. tick'.runs \in {s, None} /\ (tick'.runs = s => s \in items \/ s = None)
    BY <1>0, <1>2 DEF E!TickItem, Tick
  <2> QED
    BY <1>0, <2>1 DEF E!DeafAfterDetach, Hears
<1>3. ASSUME NEW s \in Subs, E!SlotNext(s) PROVE E!DeafAfterDetach
  <2>1. tick'.runs \in {s, None} /\ s \in listeners["slot"]
    BY <1>0, <1>3 DEF E!SlotNext, Tick
  <2> QED
    BY <1>0, <2>1, SignalConstants DEF E!DeafAfterDetach, Hears
<1>4. CASE tick.loop \in {"regions", "map"}
  BY <1>4 DEF E!DeafAfterDetach
<1>5. CASE E!GameCalls
  <2>1. (\E s : tick' = [tick EXCEPT !.done = @ \ {s}]) \/ (\E q : tick' = [tick EXCEPT !.todo = @ \ q])
    BY <1>5 DEF E!GameCalls, E!Subscribe, E!Unsubscribe, E!UnsubscribeByEvent, E!Detach,
                E!DisposeManager, E!Forget, E!Drop, E!LeaveInterval
  <2>2. tick'.runs = tick.runs
    BY <1>0, <2>1 DEF Tick
  <2> QED
    BY <1>1, <2>2
<1>6. CASE E!TickBegins \/ E!NativeEvent \/ E!TickDone \/ E!CallbackReturns \/ E!RegionsBegin
           \/ E!SlotsBegin \/ E!SlotsEnd \/ E!NativeEventEnds \/ E!RegionEnds \/ E!RegionsEnd
  <2>1. tick'.runs = tick.runs \/ tick'.runs = None
    <3>1. CASE E!TickDone \/ E!NativeEventEnds \/ E!CallbackReturns
      BY <1>0, <3>1 DEF E!TickDone, E!NativeEventEnds, E!CallbackReturns, E!Idle, Tick
    <3>2. CASE E!TickBegins \/ E!NativeEvent
      BY <1>0, <3>2 DEF E!TickBegins, E!NativeEvent, Tick
    <3>3. CASE E!RegionsBegin \/ E!RegionEnds \/ E!RegionsEnd
      BY <1>0, <3>3 DEF E!RegionsBegin, E!RegionEnds, E!RegionsEnd, Tick
    <3>4. CASE E!SlotsBegin \/ E!SlotsEnd
      BY <1>0, <3>4 DEF E!SlotsBegin, E!SlotsEnd, Tick
    <3> QED
      BY <1>6, <3>1, <3>2, <3>3, <3>4
  <2> QED
    BY <1>1, <2>1
<1>7. ASSUME NEW p \in Visitors, E!GoOffline(p) \/ \E r \in Regions : E!Move(p, r) \/ E!ComeOnline(p, r)
      PROVE  E!DeafAfterDetach
  BY <1>1, <1>7 DEF E!GoOffline, E!Move, E!ComeOnline
<1>8. CASE (\E r \in Regions : E!RegionBegins(r)) \/ \E c \in tick.calls : E!TellRegion(c) \/ E!TellMap(c)
  BY <1>4, <1>8 DEF E!RegionBegins, E!TellRegion, E!TellMap
<1> QED
  BY <1>2, <1>3, <1>5, <1>6, <1>7, <1>8 DEF E!Next, E!Delivery


-----------------------------------------------------------------------------
(* The components keep to themselves, so what each of them keeps holds in    *)
(* every behaviour.                                                          *)

Inv ==
  /\ subject = "signals" => EInv
  /\ subject = "timer" => TInv
  /\ subject = "boundary" => BInv
  /\ subject = "scan" => SInv
  /\ subject = "scope" => CInv
  /\ subject = "sidebar" => DInv
  /\ subject = "texts" => TextsInv

LEMMA SignalsStutter ==
  ASSUME EInv, UNCHANGED signalsVars
  PROVE  EInv'
<1>0. /\ UNCHANGED <<enabled, records, signal, items, timer, listeners, hooked, watching, looking>>
      /\ UNCHANGED <<states, inside, online, told, first, tick>>
  BY DEF signalsVars
<1>1. SignalsTypeOK'
  BY <1>0 DEF EInv, SignalsTypeOK, E!TypeOK
<1>2. NativeInv' /\ Apart' /\ TickInv' /\ Followed'
  <2>1. \A s : Hears(s)' <=> Hears(s)
    BY <1>0 DEF Hears
  <2> QED
    BY <1>0, <2>1 DEF EInv, NativeInv, Apart, TickInv, Followed
<1>3. Tells'
  BY <1>0 DEF EInv, Tells, Due
<1> QED
  BY <1>1, <1>2, <1>3 DEF EInv

LEMMA TimerStutters ==
  ASSUME TInv, UNCHANGED timerVars
  PROVE  TInv'
<1>0. UNCHANGED <<options, attached, running, time, lastTime, now, events, frames, base, spent>>
  BY DEF timerVars
<1>1. TimerTypeOK' /\ TimerStack(frames')
  BY <1>0 DEF TInv, TimerTypeOK
<1>2. Waiting'
  BY <1>0 DEF TInv, Waiting
<1>3. T!RunningHasTime' /\ lastTime' <= now' /\ Kept'
  <2>1. Counted' = Counted /\ T!Owed' = T!Owed
    BY <1>0 DEF Counted, T!Owed, T!Gone
  <2> QED
    BY <1>0, <2>1 DEF TInv, T!RunningHasTime, Kept
<1> QED
  BY <1>1, <1>2, <1>3 DEF TInv

LEMMA BoundaryStutters ==
  ASSUME BInv, UNCHANGED boundaryVars
  PROVE  BInv'
BY DEF boundaryVars, BInv, BoundaryTypeOK, OneScan, SeenAgain, Remembered, B!Known

LEMMA ScanStutters ==
  ASSUME SInv, UNCHANGED scanVars
  PROVE  SInv'
BY DEF scanVars, SInv, ScanTypeOK, JobFits, OwedFits, ScanFound, S!MaskIsWhole

LEMMA ScopeStutters ==
  ASSUME CInv, UNCHANGED scopeVars
  PROVE  CInv'
BY DEF scopeVars, CInv, ScopeTypeOK, Registered, ScopeFits, Leaving, C!Top, C!Last

LEMMA SidebarStutters ==
  ASSUME DInv, UNCHANGED sidebarVars
  PROVE  DInv'
BY DEF sidebarVars, DInv, SidebarTypeOK, D!SidebarIsSound, D!Attached, D!IsValid

LEMMA TextsStutter ==
  ASSUME TextsInv, UNCHANGED textVars
  PROVE  TextsInv'
BY DEF textVars, TextsInv, P!TypeOK, P!TextsAreSound

LEMMA InvInit ==
  ASSUME AnyInit
  PROVE  Inv
BY EInvInit, TInvInit, BInvInit, SInvInit, CInvInit, DInvInit, TextsInvInit DEF AnyInit, Inv

LEMMA InvNext ==
  ASSUME Inv, [AnyNext]_allVars
  PROVE  Inv'
<1>1. CASE subject = "signals" /\ E!Next /\ UNCHANGED subject
  BY <1>1, EInvNext DEF Inv
<1>2. CASE subject = "timer" /\ T!Next /\ UNCHANGED subject
  BY <1>2, TInvNext DEF Inv
<1>3. CASE subject = "boundary" /\ B!Next /\ UNCHANGED subject
  BY <1>3, BInvNext DEF Inv
<1>4. CASE subject = "scan" /\ S!Next /\ UNCHANGED subject
  BY <1>4, SInvNext DEF Inv
<1>5. CASE subject = "scope" /\ C!Next /\ UNCHANGED subject
  BY <1>5, CInvNext DEF Inv
<1>6. CASE subject = "sidebar" /\ D!Next /\ UNCHANGED subject
  BY <1>6, DInvNext DEF Inv
<1>7. CASE subject = "texts" /\ P!Next /\ UNCHANGED subject
  BY <1>7, TextsInvNext DEF Inv
<1>8. CASE UNCHANGED allVars
  BY <1>8, SignalsStutter, TimerStutters, BoundaryStutters, ScanStutters, ScopeStutters,
     SidebarStutters, TextsStutter DEF Inv, allVars
<1> QED
  BY <1>1, <1>2, <1>3, <1>4, <1>5, <1>6, <1>7, <1>8
     DEF AnyNext, ButSignals, ButTimer, ButBoundary, ButScan, ButScope, ButSidebar, ButTexts

LEMMA InvHolds == Components => []Inv
<1>1. AnyInit => Inv
  BY InvInit
<1>2. Inv /\ [AnyNext]_allVars => Inv'
  BY InvNext
<1> QED
  BY <1>1, <1>2, PTL DEF Components

(* The game listens to Minecraft exactly as long as somebody listens to the  *)
(* game, through every subscription that is made and dropped in a callback;  *)
(* and who follows a region from the start is told who is inside             *)
(* (eventManager.ts, interval.ts, regionEvents.ts), as long as no region     *)
(* loses its last follower while the regions are checked.                    *)
THEOREM SignalsHold == Components => []SignalsAreSound
<1>1. Inv => SignalsAreSound
  BY EInvImplies DEF Inv, SignalsAreSound
<1> QED
  BY <1>1, InvHolds, PTL

(* Nobody is called after he unsubscribed or was detached, but by a delivery *)
(* that walks a copy and had begun (interval.ts, inSlot.ts).                 *)
THEOREM DetachedHearNothing == Components => DeafAfterDetach
<1>1. Inv /\ [AnyNext]_allVars => [subject = "signals" => E!DeafAfterDetach]_allVars
  BY EInvDeaf DEF Inv, AnyNext
<1> QED
  BY <1>1, InvHolds, PTL DEF Components, DeafAfterDetach

(* A timer announces no more seconds than have passed, and no fewer if it    *)
(* makes up for late ticks; a countdown that runs has time left; a listener  *)
(* that is once is not taken twice: whatever the listeners do to the timer   *)
(* while they are called (timer.ts, stopWatch.ts), but to have the second    *)
(* announced once more that is being announced.                              *)
THEOREM TimersKeepTime == Components => []TimerIsSound
<1>1. Inv => TimerIsSound
  BY TInvImplies DEF Inv, TimerIsSound
<1> QED
  BY <1>1, InvHolds, PTL

(* A boundary reports an entry, an exit, an entry of the same guest, however *)
(* the source and the guests change between two scans and in the callbacks   *)
(* of one (regionBoundary.ts), which do not detach it or scan themselves.    *)
THEOREM ReportsTakeTurns == Components => ReportsAlternate
<1>1. Inv /\ [AnyNext]_allVars => [subject = "boundary" => B!ReportsAlternate]_allVars
  BY BInvAlternates DEF Inv, AnyNext
<1> QED
  BY <1>1, InvHolds, PTL DEF Components, ReportsAlternate

(* The mask that several rooms share is that of the whole structure, and     *)
(* what stood of it when a room got ready stands (structureProtector.ts),    *)
(* for structures of any size, batches of any size and any number of rooms,  *)
(* if the structure is saved anew only between two scans.                    *)
THEOREM RoomsStayProtected == Components => []RoomsAreProtected
<1>1. Inv => RoomsAreProtected
  BY SInvImplies DEF Inv, RoomsAreProtected
<1> QED
  BY <1>1, InvHolds, PTL

(* What a component owns goes with it: the components of a chunk, the        *)
(* objective of a sidebar, the texts over players (chunkScope.ts,            *)
(* sidebarScoreboard.ts, playerTextPrimitive.ts).                            *)
THEOREM WhatIsOwnedGoes == Components => []OwnedIsReleased
<1>1. Inv => OwnedIsReleased
  BY CInvImplies DEF Inv, OwnedIsReleased, DInv, TextsInv
<1> QED
  BY <1>1, InvHolds, PTL

=============================================================================
