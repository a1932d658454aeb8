-------------------------- MODULE ObservatoryProofs --------------------------
(* The safety of the Observatory's copy: its three invariants, for any       *)
(* number of sessions, connections, users and parts.                         *)
EXTENDS Observatory, SequenceLemmas

-----------------------------------------------------------------------------
(* What is under way.                                                        *)

Ops == {"list", "begin", "part", "delete", "clear"}

Requests ==
  {r \in [for : Callers \union {None}, op : Ops, sid : Sessions \union {None}] :
     r.op = "begin" => r.sid \in Sessions}

Messages ==
  {m \in [for : Callers \union {None}, op : Ops \union {"ready"}, ok : BOOLEAN,
          data : {None} \union {"partial", "whole"} \union (SUBSET Sessions)
                 \union [listed : SUBSET Sessions, running : SUBSET Sessions]] :
     /\ m.op = "list" => m.data \in [listed : SUBSET Sessions, running : SUBSET Sessions]
     /\ m.op = "begin" => m.data \in {None, "partial", "whole"}
     /\ m.op \in {"delete", "clear"} => m.data \subseteq Sessions}

BoxesOK ==
  /\ outbox \in [Conns -> Seq(Requests)]
  /\ inbox \in [Conns -> Seq(Messages)]

JobFit(k, j) ==
  /\ j \in Jobs
  /\ j.op = "idle" => j = Idle
  /\ j.op \in {"begin", "part", "delete"} => j.sid \in Sessions
  /\ j.op \in {"begin", "part"} => j.saved < Cap
  /\ k # Sweep => j.op # "list"
  /\ k = Sweep => j.op \in {"idle", "list", "begin", "part"}

JobsOK == \A k \in Callers : JobFit(k, job[k])

(* The route is the one connection that has shaken hands, and what anybody   *)
(* waits for, is asked on it.                                                *)
RouteOK ==
  /\ \A c \in Conns : conns[c] = "ready" <=> route = c
  /\ \A k \in Callers : IF job[k].op = "idle" THEN link[k] = None
                        ELSE link[k] = route /\ route # None

\* What is under way for a caller, is what it waits for now.
Asks(c) == \A i \in 1..Len(outbox[c]) :
  outbox[c][i].for # None =>
    /\ link[outbox[c][i].for] = c
    /\ outbox[c][i].op = job[outbox[c][i].for].op
    /\ outbox[c][i].sid = job[outbox[c][i].for].sid

Answers(c) == \A n \in 1..Len(inbox[c]) :
  inbox[c][n].for # None =>
    /\ link[inbox[c][n].for] = c
    /\ inbox[c][n].op = job[inbox[c][n].for].op

\* q has one element at most for each caller.
Sole(q) == \A i, j \in 1..Len(q) : q[i].for = q[j].for /\ q[i].for # None => i = j

\* A request and its answer are not both under way.
Apart(p, q) == \A i \in 1..Len(p), j \in 1..Len(q) : p[i].for = q[j].for => p[i].for = None

Match == \A c \in Conns : Asks(c) /\ Answers(c)

One == \A c \in Conns : Sole(outbox[c]) /\ Sole(inbox[c]) /\ Apart(outbox[c], inbox[c])

BaseInv == TypeOK /\ BoxesOK /\ JobsOK /\ RouteOK /\ Match /\ One

-----------------------------------------------------------------------------
(* Queues.                                                                   *)

\* What p has for callers, q has, in the same order.
Sub(p, q) ==
  \A i, j \in 1..Len(p) : i <= j /\ p[i].for # None /\ p[j].for # None =>
    \E a, b \in 1..Len(q) : (i < j => a < b) /\ p[i] = q[a] /\ p[j] = q[b]

\* p has nothing for caller k.
Gone(p, k) == \A i \in 1..Len(p) : p[i].for # k

LEMMA SubSelf ==
  ASSUME NEW S, NEW q \in Seq(S)
  PROVE  Sub(q, q)
BY LenProperties DEF Sub

LEMMA SubEmpty ==
  ASSUME NEW q
  PROVE  Sub(<<>>, q) /\ \A k : Gone(<<>>, k)
BY DEF Sub, Gone

LEMMA SubTail ==
  ASSUME NEW S, NEW q \in Seq(S), q # <<>>
  PROVE  /\ Tail(q) \in Seq(S)
         /\ Head(q) \in S /\ Head(q) = q[1] /\ 1 \in 1..Len(q)
         /\ \A i \in 1..Len(Tail(q)) : Tail(q)[i] = q[i + 1] /\ i + 1 \in 1..Len(q)
         /\ Sub(Tail(q), q)
         /\ \A k : Sole(q) /\ Head(q).for = k /\ k # None => Gone(Tail(q), k)
<1>1. /\ Tail(q) \in Seq(S) /\ Len(Tail(q)) = Len(q) - 1
      /\ Head(q) = q[1] /\ 1 \in 1..Len(q) /\ Len(q) \in Nat
      /\ \A i \in 1..Len(Tail(q)) : Tail(q)[i] = q[i + 1] /\ i + 1 \in 1..Len(q)
  BY HeadTailProperties, LenProperties, EmptySeq
<1>2. Head(q) \in S
  BY <1>1, ElementOfSeq
<1>3. Sub(Tail(q), q)
  <2> SUFFICES ASSUME NEW i \in 1..Len(Tail(q)), NEW j \in 1..Len(Tail(q)), i <= j
               PROVE  \E a, b \in 1..Len(q) :
                        (i < j => a < b) /\ Tail(q)[i] = q[a] /\ Tail(q)[j] = q[b]
    BY DEF Sub
  <2>1. i < j => i + 1 < j + 1
    BY <1>1
  <2> QED
    BY <1>1, <2>1
<1>4. ASSUME NEW k, Sole(q), Head(q).for = k, k # None
      PROVE  Gone(Tail(q), k)
  <2> SUFFICES ASSUME NEW i \in 1..Len(Tail(q)), Tail(q)[i].for = k
               PROVE  FALSE
    BY DEF Gone
  <2>1. i + 1 \in 1..Len(q) /\ 1 \in 1..Len(q) /\ q[i + 1].for = k /\ q[1].for = k
    BY <1>1, <1>4
  <2>2. i + 1 = 1
    BY <1>4, <2>1 DEF Sole
  <2> QED
    BY <2>2
<1> QED
  BY <1>1, <1>2, <1>3, <1>4

LEMMA SubForget ==
  ASSUME NEW S, NEW q \in Seq(S), NEW k, k # None
  PROVE  /\ Forget(q, k) \in Seq(S)
         /\ Sub(Forget(q, k), q)
         /\ Sole(q) => Gone(Forget(q, k), k)
<1>0. Len(q) \in Nat /\ DOMAIN q = 1..Len(q)
  BY LenProperties
<1>1. CASE ~Has(q, k)
  <2>1. Forget(q, k) = q
    BY <1>1 DEF Forget
  <2>2. Gone(q, k)
    BY <1>0, <1>1 DEF Has, Gone
  <2> QED
    BY <2>1, <2>2, SubSelf
<1>2. CASE Has(q, k)
  <2> DEFINE n == PlaceOf(q, k)
             p == RemoveAt(q, n)
             At(i) == IF i < n THEN i ELSE i + 1
  <2>1. n \in 1..Len(q) /\ q[n].for = k
    BY <1>0, <1>2 DEF Has, PlaceOf
  <2>2. Forget(q, k) = p
    BY <1>2 DEF Forget
  <2> HIDE DEF n
  <2>3. /\ p \in Seq(S) /\ Len(p) = Len(q) - 1
        /\ \A i \in 1..(Len(q) - 1) : p[i] = IF i < n THEN q[i] ELSE q[i + 1]
    BY <2>1, RemoveAtFacts
  <2> HIDE DEF p
  <2>4. \A i \in 1..Len(p) : At(i) \in 1..Len(q) /\ p[i] = q[At(i)] /\ At(i) # n
    BY <1>0, <2>1, <2>3
  <2>5. \A i, j \in 1..Len(p) : i < j => At(i) < At(j)
    BY <1>0, <2>1, <2>3
  <2>6. Sub(p, q)
    <3> HIDE DEF At
    <3> QED
      BY <2>4, <2>5 DEF Sub
  <2>7. ASSUME Sole(q) PROVE Gone(p, k)
    <3> HIDE DEF At
    <3> QED
      BY <2>1, <2>4, <2>7 DEF Sole, Gone
  <2> QED
    BY <2>2, <2>3, <2>6, <2>7
<1> QED
  BY <1>1, <1>2

LEMMA SubGivenUp ==
  ASSUME NEW q \in Seq(Requests), NEW k, k # None
  PROVE  /\ GivenUp(q, k) \in Seq(Requests)
         /\ Sub(GivenUp(q, k), q)
         /\ Sole(q) => Gone(GivenUp(q, k), k)
<1>0. Len(q) \in Nat /\ DOMAIN q = 1..Len(q)
  BY LenProperties
<1>1. CASE Has(q, k) /\ q[PlaceOf(q, k)].op \in {"delete", "clear"}
  <2> DEFINE n == PlaceOf(q, k)
             p == [q EXCEPT ![n].for = None]
  <2>1. n \in 1..Len(q) /\ q[n].for = k /\ q[n].op \in {"delete", "clear"}
    BY <1>0, <1>1 DEF Has, PlaceOf
  <2>2. GivenUp(q, k) = p
    BY <1>1 DEF GivenUp
  <2> HIDE DEF n
  <2>3. q[n] \in Requests
    BY <2>1, ElementOfSeq
  <2>4. [q[n] EXCEPT !.for = None] \in Requests /\ [q[n] EXCEPT !.for = None].for = None
    BY <2>1, <2>3 DEF Requests
  <2>5. p = [q EXCEPT ![n] = [q[n] EXCEPT !.for = None]]
    OBVIOUS
  <2>6. /\ p \in Seq(Requests) /\ Len(p) = Len(q)
        /\ \A i \in 1..Len(q) : p[i] = IF i = n THEN [q[n] EXCEPT !.for = None] ELSE q[i]
    BY <2>1, <2>4, <2>5, ExceptSeq
  <2> HIDE DEF p
  <2>7. \A i \in 1..Len(p) : p[i].for # None => p[i] = q[i] /\ i # n
    BY <2>4, <2>6
  <2>8. Sub(p, q)
    BY <2>6, <2>7 DEF Sub
  <2>9. ASSUME Sole(q) PROVE Gone(p, k)
    BY <2>1, <2>6, <2>7, <2>9 DEF Sole, Gone
  <2> QED
    BY <2>2, <2>6, <2>8, <2>9
<1>2. CASE ~(Has(q, k) /\ q[PlaceOf(q, k)].op \in {"delete", "clear"})
  <2>1. GivenUp(q, k) = Forget(q, k)
    BY <1>2 DEF GivenUp
  <2> QED
    BY <2>1, SubForget
<1> QED
  BY <1>1, <1>2

-----------------------------------------------------------------------------
(* What a step does to the boxes.                                            *)

\* Box q loses requests, and gains at most that of one caller of K on connection c.
Gains(K, q, c) ==
  \E p \in Seq(Requests) :
    /\ Sub(p, outbox[c])
    /\ \A k \in K : Gone(p, k)
    /\ \/ q = p
       \/ \E k \in K : /\ link'[k] = c
                       /\ Request(k, job'[k]) \in Requests
                       /\ q = Append(p, Request(k, job'[k]))

(* The callers K go on: whatever was under way for them is gone, and what    *)
(* the others wait for stays what it was.                                    *)
Flow(K) ==
  /\ \A k \in Callers \ K : /\ link'[k] = link[k]
                            /\ job'[k].op = job[k].op /\ job'[k].sid = job[k].sid
                            /\ job[k].doomed => job'[k].doomed
  /\ \A c \in Conns : /\ inbox'[c] \in Seq(Messages)
                      /\ Sub(inbox'[c], inbox[c])
                      /\ \A k \in K : Gone(inbox'[c], k)
  /\ \A c \in Conns : Gains(K, outbox'[c], c)

\* An element of the box is what a caller of K now asks for.
Fresh(K, c, i) ==
  \E k \in K : /\ link'[k] = c /\ outbox'[c][i] = Request(k, job'[k])
               /\ i = Len(outbox'[c])
               /\ \A j \in 1..Len(outbox'[c]) : outbox'[c][j].for = k => i = j

\* Two elements of the box were in it, in this order.
Kept2(K, c, i, j) ==
  /\ outbox'[c][i].for \notin K /\ outbox'[c][j].for \notin K
  /\ \E a, b \in 1..Len(outbox[c]) :
       (i < j => a < b) /\ outbox'[c][i] = outbox[c][a] /\ outbox'[c][j] = outbox[c][b]

LEMMA FlowOut ==
  ASSUME NEW K \in SUBSET Callers, NEW c \in Conns, Gains(K, outbox'[c], c), None \notin Callers,
         NEW i \in 1..Len(outbox'[c]), outbox'[c][i].for # None
  PROVE  /\ outbox'[c] \in Seq(Requests)
         /\ Len(outbox'[c]) \in Nat
         /\ \/ Fresh(K, c, i)
            \/ \A j \in 1..Len(outbox'[c]) : outbox'[c][j].for # None =>
                 \/ Fresh(K, c, j) /\ i < j
                 \/ i <= j /\ Kept2(K, c, i, j)
                 \/ j <= i /\ Kept2(K, c, j, i)
<1>1. PICK p \in Seq(Requests) :
        /\ Sub(p, outbox[c])
        /\ \A k \in K : Gone(p, k)
        /\ \/ outbox'[c] = p
           \/ \E k \in K : /\ link'[k] = c
                           /\ Request(k, job'[k]) \in Requests
                           /\ outbox'[c] = Append(p, Request(k, job'[k]))
  BY DEF Gains
<1>0. Len(p) \in Nat
  BY LenProperties
<1>2. ASSUME NEW m \in 1..Len(p), NEW n \in 1..Len(p), m <= n,
             m \in 1..Len(outbox'[c]), n \in 1..Len(outbox'[c]),
             outbox'[c][m] = p[m], outbox'[c][n] = p[n], p[m].for # None, p[n].for # None
      PROVE  Kept2(K, c, m, n)
  <2>1. \E a, b \in 1..Len(outbox[c]) :
          (m < n => a < b) /\ p[m] = outbox[c][a] /\ p[n] = outbox[c][b]
    BY <1>1, <1>2 DEF Sub
  <2>2. p[m].for \notin K /\ p[n].for \notin K
    BY <1>1 DEF Gone
  <2> QED
    BY <1>2, <2>1, <2>2 DEF Kept2
<1>3. CASE outbox'[c] = p
  BY <1>0, <1>2, <1>3
<1>4. CASE \E k \in K : /\ link'[k] = c
                        /\ Request(k, job'[k]) \in Requests
                        /\ outbox'[c] = Append(p, Request(k, job'[k]))
  <2>1. PICK k \in K : /\ link'[k] = c
                       /\ Request(k, job'[k]) \in Requests
                       /\ outbox'[c] = Append(p, Request(k, job'[k]))
    BY <1>4
  <2> DEFINE r == Request(k, job'[k])
             q == outbox'[c]
  <2>2. r \in Requests /\ r.for = k
    BY <2>1 DEF Request
  <2>3. /\ q \in Seq(Requests) /\ Len(q) = Len(p) + 1 /\ q[Len(p) + 1] = r
        /\ \A n \in 1..Len(p) : q[n] = p[n]
    <3> HIDE DEF r
    <3> QED
      BY <2>1, <2>2, AppendProperties DEF r
  <2>4. Fresh(K, c, Len(p) + 1)
    <3>1. \A n \in 1..Len(p) : q[n].for # k
      BY <1>1, <2>3 DEF Gone
    <3>2. \A n \in 1..Len(q) : q[n].for = k => Len(p) + 1 = n
      BY <1>0, <2>3, <3>1
    <3> QED
      BY <2>1, <2>3, <3>2 DEF Fresh
  <2>5. CASE i = Len(p) + 1
    BY <1>0, <2>3, <2>4, <2>5
  <2>6. CASE i # Len(p) + 1
    <3>1. i \in 1..Len(p)
      BY <1>0, <2>3, <2>6
    <3>2. ASSUME NEW j \in 1..Len(q), q[j].for # None
          PROVE  \/ Fresh(K, c, j) /\ i < j
                 \/ i <= j /\ Kept2(K, c, i, j)
                 \/ j <= i /\ Kept2(K, c, j, i)
      <4>1. CASE j = Len(p) + 1
        BY <1>0, <2>4, <3>1, <4>1
      <4>2. CASE j \in 1..Len(p)
        <5>1. q[i] = p[i] /\ q[j] = p[j] /\ p[i].for # None /\ p[j].for # None
          BY <2>3, <3>1, <3>2, <4>2
        <5>2. CASE i <= j
          BY <1>2, <3>1, <4>2, <5>1, <5>2
        <5>3. CASE j <= i
          BY <1>2, <3>1, <4>2, <5>1, <5>3
        <5> QED
          BY <1>0, <3>1, <4>2, <5>2, <5>3
      <4> QED
        BY <1>0, <2>3, <3>2, <4>1, <4>2
    <3> QED
      BY <1>0, <2>3, <3>2
  <2> QED
    BY <2>5, <2>6
<1> QED
  BY <1>1, <1>3, <1>4

\* A message to a caller is one that was in the box, and its caller is not of K.
LEMMA FlowIn ==
  ASSUME NEW K, Flow(K), NEW c \in Conns, NEW n \in 1..Len(inbox'[c]),
         inbox'[c][n].for # None
  PROVE  /\ inbox'[c][n].for \notin K
         /\ \E a \in 1..Len(inbox[c]) : inbox'[c][n] = inbox[c][a]
<1>1. Len(inbox'[c]) \in Nat
  BY LenProperties DEF Flow
<1> QED
  BY <1>1 DEF Flow, Sub, Gone

LEMMA FlowKeeps ==
  ASSUME NEW K \in SUBSET Callers, ObservatoryAssumption, BoxesOK, Match, One, Flow(K),
         inbox' \in [Conns -> Seq(Messages)], outbox' \in [Conns -> Seq(Requests)]
  PROVE  Match' /\ One'
<1>0. None \notin Callers
  BY DEF ObservatoryAssumption
<1>r. \A q \in Seq(Requests) : \A i \in 1..Len(q) : q[i].for \in Callers \union {None}
  BY ElementOfSeq DEF Requests
<1>m. \A q \in Seq(Messages) : \A i \in 1..Len(q) : q[i].for \in Callers \union {None}
  BY ElementOfSeq DEF Messages
<1>1. ASSUME NEW c \in Conns, NEW i \in 1..Len(outbox'[c]), outbox'[c][i].for # None
      PROVE  /\ Len(outbox'[c]) \in Nat
             /\ \/ Fresh(K, c, i)
                \/ \A j \in 1..Len(outbox'[c]) : outbox'[c][j].for # None =>
                     \/ Fresh(K, c, j) /\ i < j
                     \/ i <= j /\ Kept2(K, c, i, j)
                     \/ j <= i /\ Kept2(K, c, j, i)
  <2>1. Gains(K, outbox'[c], c)
    BY DEF Flow
  <2> QED
    BY <1>0, <1>1, <2>1, FlowOut
<1>2. ASSUME NEW c \in Conns
      PROVE  Asks(c)'
  <2> SUFFICES ASSUME NEW i \in 1..Len(outbox'[c]), outbox'[c][i].for # None
               PROVE  /\ link'[outbox'[c][i].for] = c
                      /\ outbox'[c][i].op = job'[outbox'[c][i].for].op
                      /\ outbox'[c][i].sid = job'[outbox'[c][i].for].sid
    BY DEF Asks
  <2>1. CASE Fresh(K, c, i)
    BY <2>1 DEF Fresh, Request
  <2>2. CASE ~Fresh(K, c, i)
    <3>1. Kept2(K, c, i, i)
      BY <1>1, <2>2
    <3>2. PICK a \in 1..Len(outbox[c]) : outbox'[c][i] = outbox[c][a]
      BY <3>1 DEF Kept2
    <3>3. outbox'[c][i].for \in Callers \ K
      BY <1>r, <3>1 DEF Kept2
    <3> DEFINE k == outbox[c][a].for
    <3>4. k \in Callers \ K /\ k # None
      BY <3>2, <3>3
    <3>5. link[k] = c /\ outbox[c][a].op = job[k].op /\ outbox[c][a].sid = job[k].sid
      BY <3>4 DEF Match, Asks
    <3> HIDE DEF k
    <3>6. link'[k] = link[k] /\ job'[k].op = job[k].op /\ job'[k].sid = job[k].sid
      BY <3>4 DEF Flow
    <3> QED
      BY <3>2, <3>5, <3>6 DEF k
  <2> QED
    BY <2>1, <2>2
<1>3. ASSUME NEW c \in Conns
      PROVE  Answers(c)'
  <2> SUFFICES ASSUME NEW n \in 1..Len(inbox'[c]), inbox'[c][n].for # None
               PROVE  /\ link'[inbox'[c][n].for] = c
                      /\ inbox'[c][n].op = job'[inbox'[c][n].for].op
    BY DEF Answers
  <2>1. inbox'[c][n].for \notin K /\ \E a \in 1..Len(inbox[c]) : inbox'[c][n] = inbox[c][a]
    BY FlowIn
  <2>2. inbox'[c][n].for \in Callers \ K
    BY <1>m, <2>1
  <2>3. PICK a \in 1..Len(inbox[c]) : inbox'[c][n] = inbox[c][a]
    BY <2>1
  <2> DEFINE k == inbox[c][a].for
  <2>4. k \in Callers \ K /\ k # None
    BY <2>2, <2>3
  <2>5. link[k] = c /\ inbox[c][a].op = job[k].op
    BY <2>4 DEF Match, Answers
  <2> HIDE DEF k
  <2>6. link'[k] = link[k] /\ job'[k].op = job[k].op
    BY <2>4 DEF Flow
  <2> QED
    BY <2>3, <2>5, <2>6 DEF k
<1>4. ASSUME NEW c \in Conns
      PROVE  Sole(outbox'[c])
  <2> SUFFICES ASSUME NEW i \in 1..Len(outbox'[c]), NEW j \in 1..Len(outbox'[c]),
                      outbox'[c][i].for = outbox'[c][j].for, outbox'[c][i].for # None
               PROVE  i = j
    BY DEF Sole
  <2>1. ASSUME NEW m \in 1..Len(outbox'[c]), NEW n \in 1..Len(outbox'[c]),
               outbox'[c][m].for = outbox'[c][n].for, Fresh(K, c, m)
        PROVE  m = n
    <3>1. PICK k \in K : /\ outbox'[c][m] = Request(k, job'[k])
                         /\ \A h \in 1..Len(outbox'[c]) : outbox'[c][h].for = k => m = h
      BY <2>1 DEF Fresh
    <3>2. outbox'[c][m].for = k
      BY <3>1 DEF Request
    <3> QED
      BY <2>1, <3>1, <3>2
  <2>2. CASE ~Fresh(K, c, i) /\ ~Fresh(K, c, j)
    <3>1. \/ i <= j /\ Kept2(K, c, i, j)
          \/ j <= i /\ Kept2(K, c, j, i)
      BY <1>1, <2>2
    <3>2. ASSUME NEW m \in 1..Len(outbox'[c]), NEW n \in 1..Len(outbox'[c]), m <= n,
                 outbox'[c][m].for = outbox'[c][n].for, outbox'[c][m].for # None,
                 Kept2(K, c, m, n)
          PROVE  m = n
      <4>1. PICK a \in 1..Len(outbox[c]), b \in 1..Len(outbox[c]) :
              (m < n => a < b) /\ outbox'[c][m] = outbox[c][a] /\ outbox'[c][n] = outbox[c][b]
        BY <3>2 DEF Kept2
      <4>2. a = b
        BY <3>2, <4>1 DEF One, Sole
      <4>3. ~(a < b)
        BY <4>2
      <4> QED
        BY <1>1, <3>2, <4>1, <4>3
    <3> QED
      BY <3>1, <3>2
  <2> QED
    BY <2>1, <2>2
<1>5. ASSUME NEW c \in Conns
      PROVE  Sole(inbox'[c])
  <2> SUFFICES ASSUME NEW i \in 1..Len(inbox'[c]), NEW j \in 1..Len(inbox'[c]), i < j,
                      inbox'[c][i].for = inbox'[c][j].for, inbox'[c][i].for # None
               PROVE  FALSE
    BY LenProperties DEF Sole
  <2>1. Len(inbox[c]) \in Nat /\ Len(inbox'[c]) \in Nat
    BY LenProperties DEF BoxesOK
  <2>2. i <= j
    BY <2>1
  <2>3. PICK a \in 1..Len(inbox[c]), b \in 1..Len(inbox[c]) :
          (i < j => a < b) /\ inbox'[c][i] = inbox[c][a] /\ inbox'[c][j] = inbox[c][b]
    BY <2>2 DEF Flow, Sub
  <2>4. a = b
    BY <2>3 DEF One, Sole
  <2> QED
    BY <2>1, <2>3, <2>4
<1>6. ASSUME NEW c \in Conns
      PROVE  Apart(outbox'[c], inbox'[c])
  <2> SUFFICES ASSUME NEW i \in 1..Len(outbox'[c]), NEW j \in 1..Len(inbox'[c]),
                      outbox'[c][i].for = inbox'[c][j].for, outbox'[c][i].for # None
               PROVE  FALSE
    BY DEF Apart
  <2>1. inbox'[c][j].for \notin K /\ \E a \in 1..Len(inbox[c]) : inbox'[c][j] = inbox[c][a]
    BY FlowIn
  <2>2. CASE Fresh(K, c, i)
    BY <2>1, <2>2 DEF Fresh, Request
  <2>3. CASE ~Fresh(K, c, i)
    <3>1. Kept2(K, c, i, i)
      BY <1>1, <2>3
    <3> QED
      BY <2>1, <3>1 DEF Kept2, One, Apart
  <2> QED
    BY <2>2, <2>3
<1> QED
  BY <1>2, <1>3, <1>4, <1>5, <1>6 DEF Match, One

-----------------------------------------------------------------------------
(* Deletions.                                                                *)

\* Request (or job) m asks for the deletion of session s.
Target(m, s) == m.op = "clear" \/ (m.op = "delete" /\ m.sid = s)

Safe(s) == file[s] = None \/ s \in revived

\* The sweep downloads s, and does not know of a deletion.
Downloads(s) == job[Sweep].sid = s /\ ~job[Sweep].doomed

Wants(c, i, s) == outbox[c][i].for # None /\ Target(outbox[c][i], s)

\* A deletion of s is under way to the pack, and somebody waits for it.
Wanted(s) == \E c \in Conns : \E i \in 1..Len(outbox[c]) : Wants(c, i, s)

\* What message m says was deleted
Says(m, s) == m.for # None /\ m.op \in {"delete", "clear"} /\ s \in m.data

\* The pack has deleted s, and the workbench knows or will.
Done(s) ==
  \/ s \in deleted
  \/ \E c \in Conns : \E n \in 1..Len(inbox[c]) : Says(inbox[c][n], s)

\* A download of s that does not know of its deletion is behind it on the way.
Behind(c, i) ==
  /\ job[Sweep].op = "begin"
  /\ \A d \in Conns : Gone(inbox[d], Sweep)
  /\ \A n \in 1..Len(outbox[c]) : outbox[c][n].for = Sweep => i < n

Asked ==
  \A s \in Sessions : \A c \in Conns : \A i \in 1..Len(outbox[c]) :
    Wants(c, i, s) => /\ Safe(s)
                      /\ Downloads(s) => Behind(c, i)

\* A download of s that does not know of its deletion is refused.
InVain ==
  /\ job[Sweep].op = "begin"
  /\ \A d \in Conns : \A n \in 1..Len(inbox[d]) : inbox[d][n].for = Sweep => ~inbox[d][n].ok

Carried ==
  \A s \in Sessions : Done(s) =>
    /\ store[s] = "gone" /\ Safe(s)
    /\ Downloads(s) => InVain

DeleteInv == Asked /\ Carried

\* The step of the callers K keeps what was deleted away.
Respects(K) ==
  /\ \A s \in Sessions : store[s] = "gone" => store'[s] = "gone"
  /\ \A s \in Sessions : s \in deleted' => Done(s)
  /\ \A s \in Sessions : Wanted(s) \/ Done(s) =>
       /\ Safe(s) => Safe(s)'
       /\ Sweep \in K /\ Downloads(s)' => job'[Sweep].op = "begin"
  /\ \A k \in K, s \in Sessions : link'[k] # None /\ Target(job'[k], s) =>
       Safe(s)' /\ ~Downloads(s)'

LEMMA FlowDeletes ==
  ASSUME NEW K \in SUBSET Callers, ObservatoryAssumption, BoxesOK, Match, DeleteInv,
         Flow(K), Respects(K), outbox' \in [Conns -> Seq(Requests)]
  PROVE  DeleteInv'
<1>0. None \notin Callers /\ Sweep \in Callers /\ None \notin Conns
  BY DEF ObservatoryAssumption, Callers
<1>1. ASSUME Sweep \notin K, NEW s \in Sessions, Downloads(s)'
      PROVE  Downloads(s) /\ job'[Sweep].op = job[Sweep].op
  BY <1>0, <1>1 DEF Flow, Downloads
<1>2. ASSUME NEW s \in Sessions, NEW c \in Conns, NEW i \in 1..Len(outbox'[c]),
             outbox'[c][i].for # None, Target(outbox'[c][i], s)
      PROVE  /\ Safe(s)'
             /\ Downloads(s)' => Behind(c, i)'
  <2>0. Gains(K, outbox'[c], c)
    BY DEF Flow
  <2>1. CASE Fresh(K, c, i)
    <3>1. PICK k \in K : link'[k] = c /\ outbox'[c][i] = Request(k, job'[k])
      BY <2>1 DEF Fresh
    <3>2. Target(job'[k], s)
      BY <1>2, <3>1 DEF Target, Request
    <3> QED
      BY <1>0, <3>1, <3>2 DEF Respects
  <2>2. CASE ~Fresh(K, c, i)
    <3>1. /\ Len(outbox'[c]) \in Nat
          /\ \A j \in 1..Len(outbox'[c]) : outbox'[c][j].for # None =>
               \/ Fresh(K, c, j) /\ i < j
               \/ i <= j /\ Kept2(K, c, i, j)
               \/ j <= i /\ Kept2(K, c, j, i)
      BY <1>0, <1>2, <2>0, <2>2, FlowOut
    <3>2. Kept2(K, c, i, i)
      BY <1>2, <3>1
    <3>3. PICK a \in 1..Len(outbox[c]) : outbox'[c][i] = outbox[c][a]
      BY <3>2 DEF Kept2
    <3>4. Wants(c, a, s)
      BY <1>2, <3>3 DEF Wants
    <3>5. Wanted(s)
      BY <3>4 DEF Wanted
    <3>6. Safe(s) /\ (Downloads(s) => Behind(c, a))
      BY <3>4 DEF DeleteInv, Asked
    <3>7. Safe(s)'
      BY <3>5, <3>6 DEF Respects
    <3>8. ASSUME Downloads(s)' PROVE job'[Sweep].op = "begin"
      <4>1. CASE Sweep \in K
        BY <3>5, <3>8, <4>1 DEF Respects
      <4>2. CASE Sweep \notin K
        <5>1. Downloads(s) /\ job'[Sweep].op = job[Sweep].op
          BY <1>1, <3>8, <4>2
        <5> QED
          BY <3>6, <5>1 DEF Behind
      <4> QED
        BY <4>1, <4>2
    <3>9. ASSUME Downloads(s)', NEW d \in Conns PROVE Gone(inbox'[d], Sweep)
      <4> SUFFICES ASSUME NEW n \in 1..Len(inbox'[d]), inbox'[d][n].for = Sweep
                   PROVE  FALSE
        BY DEF Gone
      <4>1. Sweep \notin K /\ \E b \in 1..Len(inbox[d]) : inbox'[d][n] = inbox[d][b]
        <5>1. inbox'[d][n].for # None
          BY <1>0
        <5>2. /\ inbox'[d][n].for \notin K
              /\ \E b \in 1..Len(inbox[d]) : inbox'[d][n] = inbox[d][b]
          BY <5>1, FlowIn
        <5> QED
          BY <5>2
      <4>2. Downloads(s)
        BY <1>1, <3>9, <4>1
      <4>3. Gone(inbox[d], Sweep)
        BY <3>6, <4>2 DEF Behind
      <4> QED
        BY <4>1, <4>3 DEF Gone
    <3>10. ASSUME Downloads(s)', NEW n \in 1..Len(outbox'[c]), outbox'[c][n].for = Sweep
           PROVE  i < n
      <4> SUFFICES ASSUME n <= i, Kept2(K, c, n, i)
                   PROVE  FALSE
        <5>1. \/ Fresh(K, c, n) /\ i < n
              \/ i <= n /\ Kept2(K, c, i, n)
              \/ n <= i /\ Kept2(K, c, n, i)
          BY <1>0, <3>1, <3>10
        <5>2. ASSUME i = n PROVE Kept2(K, c, n, i)
          BY <3>2, <5>2
        <5> QED
          BY <3>1, <5>1, <5>2
      <4>1. Sweep \notin K
        BY <3>10 DEF Kept2
      <4>2. PICK b \in 1..Len(outbox[c]), e \in 1..Len(outbox[c]) :
              (n < i => b < e) /\ outbox'[c][n] = outbox[c][b] /\ outbox'[c][i] = outbox[c][e]
        BY DEF Kept2
      <4>3. Downloads(s)
        BY <1>1, <3>10, <4>1
      <4>4. Wants(c, e, s)
        BY <1>2, <4>2 DEF Wants
      <4>5. Behind(c, e)
        BY <4>3, <4>4 DEF DeleteInv, Asked
      <4>6. e < b /\ job[Sweep].op = "begin"
        BY <3>10, <4>2, <4>5 DEF Behind
      <4>7. Len(outbox[c]) \in Nat
        BY LenProperties DEF BoxesOK
      <4>8. CASE n = i
        <5>1. outbox[c][b].for = Sweep /\ outbox[c][b].op \in {"clear", "delete"}
          <6>1. outbox'[c][i].op \in {"clear", "delete"}
            BY <1>2 DEF Target
          <6> QED
            BY <3>10, <4>2, <4>8, <6>1
        <5>2. outbox[c][b].op = job[Sweep].op
          <6>1. Asks(c)
            BY DEF Match
          <6> QED
            BY <1>0, <5>1, <6>1 DEF Asks
        <5> QED
          BY <4>6, <5>1, <5>2
      <4>9. CASE n < i
        BY <4>2, <4>6, <4>7, <4>9
      <4> QED
        BY <3>1, <4>8, <4>9
    <3> QED
      BY <3>7, <3>8, <3>9, <3>10 DEF Behind
  <2> QED
    BY <2>1, <2>2
<1>3. Asked'
  BY <1>2 DEF Asked, Wants
<1>4. ASSUME NEW s \in Sessions, Done(s)' PROVE Done(s)
  <2>1. CASE s \in deleted'
    BY <2>1 DEF Respects
  <2>2. CASE \E c \in Conns : \E n \in 1..Len(inbox'[c]) : Says(inbox'[c][n], s)
    <3>1. PICK c \in Conns : \E n \in 1..Len(inbox'[c]) : Says(inbox'[c][n], s)
      BY <2>2
    <3>3. PICK n \in 1..Len(inbox'[c]) : Says(inbox'[c][n], s)
      BY <3>1
    <3>2. \E a \in 1..Len(inbox[c]) : inbox'[c][n] = inbox[c][a]
      BY <3>3, FlowIn DEF Says
    <3> QED
      BY <3>3, <3>2 DEF Done
  <2> QED
    BY <1>4, <2>1, <2>2 DEF Done
<1>5. ASSUME NEW s \in Sessions, Done(s)', Downloads(s)' PROVE InVain'
  <2>1. Done(s)
    BY <1>4, <1>5
  <2>2. CASE Sweep \in K
    <3>1. job'[Sweep].op = "begin"
      BY <1>5, <2>1, <2>2 DEF Respects
    <3>2. \A d \in Conns : Gone(inbox'[d], Sweep)
      BY <2>2 DEF Flow
    <3> QED
      BY <3>1, <3>2 DEF InVain, Gone
  <2>3. CASE Sweep \notin K
    <3>1. Downloads(s) /\ job'[Sweep].op = job[Sweep].op
      BY <1>1, <1>5, <2>3
    <3>2. InVain
      BY <2>1, <3>1 DEF DeleteInv, Carried
    <3>3. ASSUME NEW d \in Conns, NEW n \in 1..Len(inbox'[d]), inbox'[d][n].for = Sweep
          PROVE  ~inbox'[d][n].ok
      <4>1. \E a \in 1..Len(inbox[d]) : inbox'[d][n] = inbox[d][a]
        BY <1>0, <3>3, FlowIn
      <4> QED
        BY <3>2, <3>3, <4>1 DEF InVain
    <3> QED
      BY <3>1, <3>2, <3>3 DEF InVain
  <2> QED
    BY <2>2, <2>3
<1>6. ASSUME NEW s \in Sessions, Done(s)'
      PROVE  store'[s] = "gone" /\ Safe(s)'
  <2>1. Done(s)
    BY <1>4, <1>6
  <2>2. store[s] = "gone" /\ Safe(s)
    BY <2>1 DEF DeleteInv, Carried
  <2> QED
    BY <2>1, <2>2 DEF Respects
<1>7. Carried'
  BY <1>5, <1>6 DEF Carried
<1> QED
  BY <1>3, <1>7 DEF DeleteInv

-----------------------------------------------------------------------------
(* Archived traces are whole.                                                *)

\* Session s runs no more, and so its trace is complete.
Ended(s) == store[s] # "running"

\* The sweep downloads what has ended, and what it has of a trace is whole or torn.
SweepFit(j) ==
  /\ \A s \in j.todo : Ended(s)
  /\ j.op \in {"begin", "part"} => Ended(j.sid)
  /\ j.op = "part" => j.bytes \in {"whole", "torn"}

\* And so does what is under way to it.
Brings(m) ==
  /\ m.op = "list" => \A s \in m.data.listed \ m.data.running : Ended(s)
  /\ m.op = "begin" /\ m.ok => m.data = "whole"

WholeInv ==
  /\ \A s \in Sessions : file[s] # "partial"
  /\ SweepFit(job[Sweep])
  /\ \A c \in Conns : \A n \in 1..Len(inbox[c]) : inbox[c][n].for = Sweep => Brings(inbox[c][n])

LEMMA FlowWhole ==
  ASSUME NEW K, ObservatoryAssumption, Flow(K), BaseInv, WholeInv,
         \A s \in Sessions : Ended(s) => Ended(s)',
         \A s \in Sessions : file'[s] # "partial",
         SweepFit(job[Sweep])'
  PROVE  WholeInv'
<1>0. Sweep # None
  BY DEF ObservatoryAssumption, Callers
<1>1. ASSUME NEW c \in Conns, NEW n \in 1..Len(inbox'[c]), inbox'[c][n].for = Sweep
      PROVE  Brings(inbox[c][n])'
  <2>1. PICK a \in 1..Len(inbox[c]) : inbox'[c][n] = inbox[c][a]
    BY <1>0, <1>1, FlowIn
  <2>2. Brings(inbox[c][a])
    BY <1>1, <2>1 DEF WholeInv
  <2>3. inbox[c] \in Seq(Messages)
    BY DEF BaseInv, BoxesOK
  <2>4. inbox[c][a] \in Messages
    BY <2>3, ElementOfSeq
  <2> DEFINE m == inbox[c][a]
  <2>5. m.op = "list" => m.data.listed \subseteq Sessions
    BY <2>4 DEF Messages
  <2> HIDE DEF m
  <2>6. /\ m.op = "list" => \A s \in m.data.listed \ m.data.running : Ended(s)'
        /\ m.op = "begin" /\ m.ok => m.data = "whole"
    BY <2>2, <2>5 DEF Brings, m
  <2> QED
    BY <2>1, <2>6 DEF Brings, Ended, m
<1> QED
  BY <1>1 DEF WholeInv

-----------------------------------------------------------------------------
(* The callers' steps.                                                       *)

LEMMA OnwardFacts ==
  ASSUME NEW j, NEW on, NEW files, NEW x \in Onward(j, on, files), ObservatoryAssumption,
         j.todo \subseteq Sessions, j.saved \in 0..Cap
  PROVE  /\ JobFit(Sweep, x)
         /\ x = Idle \/ x.op = "begin"
         /\ x.op # "idle" => on # None
         /\ x.todo \subseteq j.todo
         /\ x.op = "begin" => x.sid \in j.todo
<1> DEFINE missing == {s \in j.todo : files[s] = None}
<1>0. Parts \in Nat \ {0} /\ Cap \in Nat \ {0} /\ j.saved \in Nat
  BY DEF ObservatoryAssumption
<1>1. CASE x = Idle
  <2>1. Idle \in Jobs
    BY <1>0 DEF Idle, Jobs
  <2> QED
    BY <1>1, <2>1 DEF Idle, JobFit
<1>2. CASE on # None /\ j.saved < Cap /\
           \E s \in missing : x = [Idle EXCEPT !.op = "begin", !.sid = s, !.saved = j.saved,
                                               !.todo = missing \ {s}]
  <2>1. PICK s \in missing : x = [Idle EXCEPT !.op = "begin", !.sid = s, !.saved = j.saved,
                                             !.todo = missing \ {s}]
    BY <1>2
  <2>2. x = [op |-> "begin", sid |-> s, part |-> 0, bytes |-> None, todo |-> missing \ {s},
             saved |-> j.saved, doomed |-> FALSE]
    BY <2>1 DEF Idle
  <2>3. x \in Jobs
    BY <1>0, <2>2 DEF Jobs
  <2> QED
    BY <1>2, <2>2, <2>3 DEF JobFit
<1> QED
  <2>1. CASE on = None \/ j.saved >= Cap \/ missing = {}
    BY <1>1, <2>1 DEF Onward
  <2>2. CASE ~(on = None \/ j.saved >= Cap \/ missing = {})
    <3>1. x \in {[Idle EXCEPT !.op = "begin", !.sid = s, !.saved = j.saved,
                             !.todo = missing \ {s}] : s \in missing}
      BY <2>2 DEF Onward
    <3>2. \E s \in missing : x = [Idle EXCEPT !.op = "begin", !.sid = s, !.saved = j.saved,
                                             !.todo = missing \ {s}]
      BY <3>1
    <3>3. j.saved < Cap
      BY <1>0, <2>2
    <3> QED
      BY <1>2, <2>2, <3>2, <3>3
  <2> QED
    BY <2>1, <2>2

LEMMA WithGains ==
  ASSUME NEW K \in SUBSET Callers, NEW k \in K, NEW j, NEW e,
         NEW box \in [Conns -> Seq(Requests)], NEW c \in Conns,
         Sub(box[c], outbox[c]), \A h \in K : Gone(box[c], h),
         j \in Jobs, j.op = "begin" => j.sid \in Sessions, job'[k] = j,
         j.op # "idle" => link'[k] = e
  PROVE  /\ Gains(K, With(box, k, j, e)[c], c)
         /\ With(box, k, j, e)[c] \in Seq(Requests)
<1>1. CASE With(box, k, j, e)[c] = box[c]
  BY <1>1 DEF Gains
<1>2. CASE With(box, k, j, e)[c] # box[c]
  <2>1. j.op # "idle" /\ e = c /\ With(box, k, j, e)[c] = Append(box[c], Request(k, j))
    BY <1>2 DEF With
  <2>2. Request(k, j) \in Requests
    BY <2>1 DEF Request, Requests, Jobs, Ops
  <2>3. Append(box[c], Request(k, j)) \in Seq(Requests)
    BY <2>2, AppendProperties
  <2> QED
    BY <2>1, <2>2, <2>3 DEF Gains
<1> QED
  BY <1>1, <1>2

\* One caller goes on, and only it asks for anything.
LEMMA Moves ==
  ASSUME NEW k \in Callers, NEW j, NEW e, NEW box \in [Conns -> Seq(Requests)],
         ObservatoryAssumption, BaseInv, JobFit(k, j),
         j.op # "idle" => e = route /\ route # None,
         \A d \in Conns : Sub(box[d], outbox[d]) /\ Gone(box[d], k),
         job' \in [Callers -> Jobs], job'[k] = j,
         \A h \in Callers \ {k} : /\ JobFit(h, job'[h])
                                  /\ job'[h].op = job[h].op /\ job'[h].sid = job[h].sid
                                  /\ job[h].doomed => job'[h].doomed,
         link' = [link EXCEPT ![k] = Waits(j, e)],
         outbox' = With(box, k, j, e),
         inbox' \in [Conns -> Seq(Messages)],
         \A d \in Conns : Sub(inbox'[d], inbox[d]) /\ Gone(inbox'[d], k),
         UNCHANGED <<packVars, conns, route>>,
         file' \in [Sessions -> {None, "partial", "whole", "unlisted"}],
         deleted' \subseteq Sessions, revived' \subseteq Sessions
  PROVE  BaseInv' /\ Flow({k})
<1>1. route \in Conns \union {None} /\ link \in [Callers -> Conns \union {None}]
  BY DEF BaseInv, TypeOK
<1>2. /\ link' \in [Callers -> Conns \union {None}]
      /\ link'[k] = Waits(j, e)
      /\ \A h \in Callers \ {k} : link'[h] = link[h]
  BY <1>1 DEF Waits
<1>3. TypeOK'
  BY <1>2 DEF BaseInv, TypeOK, packVars
<1>4. JobsOK'
  BY DEF JobsOK
<1>5. RouteOK'
  <2>1. ASSUME NEW h \in Callers
        PROVE  IF job'[h].op = "idle" THEN link'[h] = None ELSE link'[h] = route' /\ route' # None
    <3>1. CASE h = k
      BY <1>2, <3>1 DEF Waits
    <3>2. CASE h # k
      <4>1. link'[h] = link[h] /\ job'[h].op = job[h].op /\ route' = route
        BY <1>2, <3>2
      <4> QED
        BY <4>1 DEF BaseInv, RouteOK
    <3> QED
      BY <3>1, <3>2
  <2> QED
    BY <2>1 DEF BaseInv, RouteOK
<1>6. j \in Jobs /\ (j.op = "begin" => j.sid \in Sessions) /\ (j.op # "idle" => link'[k] = e)
  BY <1>2 DEF JobFit, Waits
<1>7. ASSUME NEW d \in Conns
      PROVE  Gains({k}, outbox'[d], d) /\ outbox'[d] \in Seq(Requests)
  <2>1. {k} \in SUBSET Callers /\ k \in {k} /\ \A h \in {k} : Gone(box[d], h)
    OBVIOUS
  <2>2. Gains({k}, With(box, k, j, e)[d], d) /\ With(box, k, j, e)[d] \in Seq(Requests)
    BY <1>6, <2>1, WithGains
  <2> QED
    BY <2>2
<1>8. outbox' \in [Conns -> Seq(Requests)]
  <2>1. outbox' = [d \in Conns |-> outbox'[d]]
    BY DEF With
  <2> QED
    BY <1>7, <2>1
<1>9. Flow({k})
  <2>1. ASSUME NEW h \in Callers \ {k}
        PROVE  /\ link'[h] = link[h] /\ job'[h].op = job[h].op /\ job'[h].sid = job[h].sid
               /\ job[h].doomed => job'[h].doomed
    BY <1>2 DEF JobFit
  <2>2. ASSUME NEW d \in Conns
        PROVE  /\ inbox'[d] \in Seq(Messages) /\ Sub(inbox'[d], inbox[d])
               /\ \A h \in {k} : Gone(inbox'[d], h)
    OBVIOUS
  <2> QED
    BY <1>7, <2>1, <2>2 DEF Flow
<1>10. Match' /\ One'
  <2>1. BoxesOK /\ Match /\ One /\ {k} \in SUBSET Callers
    BY DEF BaseInv
  <2> QED
    BY <1>8, <1>9, <2>1, FlowKeeps
<1> QED
  BY <1>3, <1>4, <1>5, <1>8, <1>9, <1>10 DEF BaseInv, BoxesOK

LEMMA AnsweredFacts ==
  ASSUME NEW c \in Conns, NEW k \in Callers, NEW op, ObservatoryAssumption, BaseInv,
         Answered(c, k, op)
  PROVE  /\ Head(inbox[c]) \in Messages /\ Head(inbox[c]) = inbox[c][1]
         /\ 1 \in 1..Len(inbox[c]) /\ Head(inbox[c]).for = k /\ Head(inbox[c]).op = op
         /\ job[k].op = op /\ op # "idle" /\ link[k] = c /\ route = c
         /\ inbox' \in [Conns -> Seq(Messages)]
         /\ \A d \in Conns : Sub(inbox'[d], inbox[d]) /\ Gone(inbox'[d], k)
         /\ outbox \in [Conns -> Seq(Requests)]
         /\ \A d \in Conns : Sub(outbox[d], outbox[d]) /\ Gone(outbox[d], k)
         /\ UNCHANGED <<packVars, conns, route>>
<1>0. None \notin Callers /\ None \notin Conns /\ k # None
  BY DEF ObservatoryAssumption
<1>1. /\ inbox \in [Conns -> Seq(Messages)] /\ outbox \in [Conns -> Seq(Requests)]
      /\ inbox[c] \in Seq(Messages) /\ inbox[c] # <<>>
      /\ Head(inbox[c]).op = op /\ Head(inbox[c]).for = k
      /\ inbox' = [inbox EXCEPT ![c] = Tail(@)]
      /\ UNCHANGED <<packVars, conns, route>>
  BY DEF BaseInv, BoxesOK, Answered, Arrives
<1>2. /\ Tail(inbox[c]) \in Seq(Messages)
      /\ Head(inbox[c]) \in Messages /\ Head(inbox[c]) = inbox[c][1] /\ 1 \in 1..Len(inbox[c])
      /\ Sub(Tail(inbox[c]), inbox[c])
      /\ Sole(inbox[c]) => Gone(Tail(inbox[c]), k)
  BY <1>0, <1>1, SubTail
<1>3. link[k] = c /\ job[k].op = op
  BY <1>0, <1>1, <1>2 DEF BaseInv, Match, Answers
<1>4. op # "idle" /\ route = c
  BY <1>0, <1>3 DEF BaseInv, RouteOK
<1>5. ASSUME NEW d \in Conns, d # c PROVE Gone(inbox[d], k) /\ Gone(outbox[d], k)
  BY <1>0, <1>3, <1>5 DEF BaseInv, Match, Asks, Answers, Gone
<1>6. Gone(outbox[c], k)
  BY <1>0, <1>1, <1>2 DEF BaseInv, One, Apart, Gone
<1>7. \A d \in Conns : Sub(outbox[d], outbox[d]) /\ Sub(inbox[d], inbox[d])
  BY <1>1, SubSelf
<1>8. Gone(Tail(inbox[c]), k)
  BY <1>2 DEF BaseInv, One
<1>9. \A d \in Conns : inbox'[d] = IF d = c THEN Tail(inbox[c]) ELSE inbox[d]
  BY <1>1
<1>10. \A d \in Conns : Sub(inbox'[d], inbox[d]) /\ Gone(inbox'[d], k)
  BY <1>2, <1>5, <1>7, <1>8, <1>9
<1>11. inbox' \in [Conns -> Seq(Messages)]
  BY <1>1, <1>2
<1> QED
  BY <1>1, <1>2, <1>3, <1>4, <1>5, <1>6, <1>7, <1>10, <1>11

\* A caller goes on with the answer that came.
LEMMA AnswerGoes ==
  ASSUME NEW c \in Conns, NEW k \in Callers, NEW op, NEW j, NEW e,
         ObservatoryAssumption, BaseInv, Answered(c, k, op), Goes(k, j, e), JobFit(k, j),
         j.op # "idle" => e = route /\ route # None,
         file' \in [Sessions -> {None, "partial", "whole", "unlisted"}],
         deleted' \subseteq Sessions, revived' \subseteq Sessions
  PROVE  /\ BaseInv' /\ Flow({k}) /\ job'[k] = j
         /\ \A h \in Callers \ {k} : job'[h] = job[h]
<1>1. /\ inbox' \in [Conns -> Seq(Messages)]
      /\ \A d \in Conns : Sub(inbox'[d], inbox[d]) /\ Gone(inbox'[d], k)
      /\ outbox \in [Conns -> Seq(Requests)]
      /\ \A d \in Conns : Sub(outbox[d], outbox[d]) /\ Gone(outbox[d], k)
      /\ UNCHANGED <<packVars, conns, route>>
  BY AnsweredFacts
<1>2. job \in [Callers -> Jobs] /\ j \in Jobs /\ \A h \in Callers : JobFit(h, job[h])
  BY DEF BaseInv, TypeOK, JobFit, JobsOK
<1>3. /\ job' \in [Callers -> Jobs] /\ job'[k] = j
      /\ \A h \in Callers \ {k} : job'[h] = job[h]
      /\ link' = [link EXCEPT ![k] = Waits(j, e)]
      /\ outbox' = With(outbox, k, j, e)
  BY <1>2 DEF Goes
<1>4. \A h \in Callers \ {k} : /\ JobFit(h, job'[h])
                               /\ job'[h].op = job[h].op /\ job'[h].sid = job[h].sid
                               /\ job[h].doomed => job'[h].doomed
  BY <1>2, <1>3
<1>5. BaseInv' /\ Flow({k})
  BY <1>1, <1>3, <1>4, Moves
<1> QED
  BY <1>3, <1>5

-----------------------------------------------------------------------------
(* The inductive invariant, and what keeps it.                               *)

Inv == BaseInv /\ WholeInv /\ DeleteInv

LEMMA Flows ==
  ASSUME NEW K \in SUBSET Callers, ObservatoryAssumption, Inv, BaseInv', Flow(K), Respects(K),
         \A s \in Sessions : Ended(s) => Ended(s)',
         \A s \in Sessions : file'[s] # "partial",
         SweepFit(job[Sweep])'
  PROVE  Inv'
<1>1. WholeInv'
  BY FlowWhole DEF Inv
<1>2. outbox' \in [Conns -> Seq(Requests)]
  BY DEF BaseInv, BoxesOK
<1>3. DeleteInv'
  BY <1>2, FlowDeletes DEF Inv, BaseInv
<1> QED
  BY <1>1, <1>3 DEF Inv

\* What the sweep is asked to leave alone, it does not download, or asks for in vain.
LEMMA SweepKnows ==
  ASSUME DeleteInv, NEW s \in Sessions, Wanted(s) \/ Done(s), Downloads(s)
  PROVE  InVain
<1>1. CASE Done(s)
  BY <1>1 DEF DeleteInv, Carried
<1>2. CASE Wanted(s)
  BY <1>2 DEF DeleteInv, Asked, Wanted, Behind, InVain, Gone
<1> QED
  BY <1>1, <1>2

\* A caller goes on, and asks for no deletion.
LEMMA QuietMove ==
  ASSUME NEW k \in Callers, NEW j, ObservatoryAssumption, Inv, BaseInv', Flow({k}),
         job'[k] = j, \A h \in Callers \ {k} : job'[h] = job[h],
         UNCHANGED <<store, file, history>>,
         j.op \notin {"delete", "clear"},
         k = Sweep => SweepFit(j),
         k = Sweep /\ j.op # "begin" =>
           \A s \in Sessions : Wanted(s) \/ Done(s) => j.sid # s \/ j.doomed
  PROVE  Inv'
<1>0. Sweep \in Callers
  BY DEF Callers
<1>1. Respects({k})
  <2>1. \A s \in Sessions : store[s] = "gone" => store'[s] = "gone"
    OBVIOUS
  <2>2. \A s \in Sessions : s \in deleted' => Done(s)
    BY DEF history, Done
  <2>3. ASSUME NEW s \in Sessions, Wanted(s) \/ Done(s)
        PROVE  /\ Safe(s) => Safe(s)'
               /\ Sweep \in {k} /\ Downloads(s)' => job'[Sweep].op = "begin"
    <3>1. Safe(s) => Safe(s)'
      BY DEF Safe, history
    <3>2. Sweep \in {k} /\ Downloads(s)' => job'[Sweep].op = "begin"
      BY <2>3 DEF Downloads
    <3> QED
      BY <3>1, <3>2
  <2>4. \A h \in {k}, s \in Sessions : link'[h] # None /\ Target(job'[h], s) =>
          Safe(s)' /\ ~Downloads(s)'
    BY DEF Target
  <2> QED
    BY <2>1, <2>2, <2>3, <2>4 DEF Respects
<1>2. SweepFit(job[Sweep])'
  <2>1. CASE k = Sweep
    BY <2>1 DEF SweepFit, Ended
  <2>2. CASE k # Sweep
    <3>1. job'[Sweep] = job[Sweep] /\ SweepFit(job[Sweep])
      BY <1>0, <2>2 DEF Inv, WholeInv
    <3> QED
      BY <3>1 DEF SweepFit, Ended
  <2> QED
    BY <2>1, <2>2
<1>3. \A s \in Sessions : Ended(s) => Ended(s)'
  BY DEF Ended
<1>4. \A s \in Sessions : file'[s] # "partial"
  BY DEF Inv, WholeInv
<1>5. {k} \in SUBSET Callers
  OBVIOUS
<1> QED
  BY <1>1, <1>2, <1>3, <1>4, <1>5, Flows

\* What a caller goes on with after a failure, or at the end of a list.
LEMMA OnwardMove ==
  ASSUME NEW k \in Callers, NEW old, NEW on, NEW files, NEW j \in Onward(old, on, files),
         ObservatoryAssumption, Inv,
         old.todo \subseteq Sessions, old.saved \in 0..Cap,
         k = Sweep => \A s \in old.todo : Ended(s)
  PROVE  /\ JobFit(k, j)
         /\ j.op \notin {"delete", "clear"}
         /\ j.op # "idle" => on # None
         /\ k = Sweep => SweepFit(j)
         /\ k = Sweep /\ j.op # "begin" =>
              \A s \in Sessions : Wanted(s) \/ Done(s) => j.sid # s \/ j.doomed
<1>1. /\ JobFit(Sweep, j)
      /\ j = Idle \/ j.op = "begin"
      /\ j.op # "idle" => on # None
      /\ j.todo \subseteq old.todo
      /\ j.op = "begin" => j.sid \in old.todo
  BY OnwardFacts
<1>2. JobFit(k, j)
  BY <1>1 DEF JobFit, Idle
<1>3. k = Sweep => SweepFit(j)
  BY <1>1 DEF SweepFit, Idle
<1>4. None \notin Sessions
  BY DEF ObservatoryAssumption
<1> QED
  BY <1>1, <1>2, <1>3, <1>4 DEF Idle

LEMMA JobTypes ==
  ASSUME Inv, NEW k \in Callers, ObservatoryAssumption
  PROVE  /\ job[k] \in Jobs /\ job[k].todo \subseteq Sessions /\ job[k].saved \in 0..Cap
         /\ k = Sweep => \A s \in job[k].todo : Ended(s)
         /\ file \in [Sessions -> {None, "partial", "whole", "unlisted"}]
         /\ deleted \subseteq Sessions /\ revived \subseteq Sessions
<1>1. job[k] \in Jobs
  BY DEF Inv, BaseInv, TypeOK
<1>2. job[k].todo \subseteq Sessions /\ job[k].saved \in 0..Cap
  BY <1>1 DEF Jobs
<1>3. k = Sweep => \A s \in job[k].todo : Ended(s)
  BY DEF Inv, WholeInv, SweepFit
<1> QED
  BY <1>1, <1>2, <1>3 DEF Inv, BaseInv, TypeOK

-----------------------------------------------------------------------------
(* Replies.                                                                  *)

\* After a failure, or a download that is not saved.
LEMMA GoesOnKeeps ==
  ASSUME NEW c \in Conns, NEW k \in Callers, NEW op, ObservatoryAssumption, Inv,
         Answered(c, k, op), GoesOn(k), UNCHANGED <<file, history>>
  PROVE  Inv'
<1>1. PICK j \in Onward(job[k], route, file) : Goes(k, j, route)
  BY DEF GoesOn
<1>2. /\ job[k].todo \subseteq Sessions /\ job[k].saved \in 0..Cap
      /\ k = Sweep => \A s \in job[k].todo : Ended(s)
      /\ file \in [Sessions -> {None, "partial", "whole", "unlisted"}]
      /\ deleted \subseteq Sessions /\ revived \subseteq Sessions
  BY JobTypes
<1>3. /\ JobFit(k, j)
      /\ j.op \notin {"delete", "clear"}
      /\ j.op # "idle" => route # None
      /\ k = Sweep => SweepFit(j)
      /\ k = Sweep /\ j.op # "begin" =>
           \A s \in Sessions : Wanted(s) \/ Done(s) => j.sid # s \/ j.doomed
  BY <1>2, OnwardMove
<1>4. /\ BaseInv' /\ Flow({k}) /\ job'[k] = j
      /\ \A h \in Callers \ {k} : job'[h] = job[h]
  BY <1>1, <1>2, <1>3, AnswerGoes DEF Inv, history
<1>5. UNCHANGED <<store, file, history>>
  BY AnsweredFacts DEF Inv, packVars
<1> QED
  BY <1>3, <1>4, <1>5, QuietMove

LEMMA RefusedKeeps ==
  ASSUME NEW c \in Conns, NEW k \in Callers, ObservatoryAssumption, Inv, Refused(c, k)
  PROVE  Inv'
BY GoesOnKeeps DEF Refused

LEMMA EndsKeeps ==
  ASSUME NEW c \in Conns, NEW k \in Callers, ObservatoryAssumption, Inv, Ends(c, k)
  PROVE  Inv'
BY GoesOnKeeps DEF Ends

LEMMA BegunKeeps ==
  ASSUME NEW c \in Conns, NEW k \in Callers, ObservatoryAssumption, Inv, Begun(c, k)
  PROVE  Inv'
<1> DEFINE m == Head(inbox[c])
           j == [job[k] EXCEPT !.op = "part", !.bytes = Kept(c, k)]
<1>1. /\ Answered(c, k, "begin") /\ m.ok /\ Goes(k, j, c) /\ UNCHANGED <<file, history>>
  BY DEF Begun
<1>2. /\ m \in Messages /\ m = inbox[c][1] /\ 1 \in 1..Len(inbox[c]) /\ m.for = k
      /\ m.op = "begin" /\ job[k].op = "begin" /\ route = c
      /\ UNCHANGED store
  BY <1>1, AnsweredFacts DEF Inv, packVars
<1>3. job[k] \in Jobs /\ JobFit(k, job[k])
  BY JobTypes DEF Inv, BaseInv, JobsOK
<1>4. Kept(c, k) \in {None, "partial", "whole"}
  BY <1>2 DEF Kept, Messages
<1>5. /\ j \in Jobs /\ j.op = "part" /\ j.sid = job[k].sid /\ j.todo = job[k].todo
      /\ j.saved = job[k].saved /\ j.bytes = Kept(c, k) /\ j.doomed = job[k].doomed
  <2> HIDE DEF m
  <2> QED
    BY <1>3, <1>4 DEF Jobs
<1> HIDE DEF j
<1>6. JobFit(k, j)
  BY <1>2, <1>3, <1>5 DEF JobFit
<1>7. ASSUME k = Sweep PROVE SweepFit(j)
  <2>1. Kept(c, k) = "whole"
    BY <1>1, <1>2, <1>7 DEF Kept, Inv, WholeInv, Brings
  <2> QED
    BY <1>2, <1>5, <1>7, <2>1 DEF Inv, WholeInv, SweepFit
<1>8. ASSUME k = Sweep, NEW s \in Sessions, Wanted(s) \/ Done(s), j.sid = s, ~j.doomed
      PROVE  FALSE
  <2>1. Downloads(s)
    BY <1>5, <1>8 DEF Downloads
  <2>2. InVain
    BY <1>8, <2>1, SweepKnows DEF Inv
  <2> QED
    BY <1>1, <1>2, <1>8, <2>2 DEF InVain
<1>9. c # None
  BY DEF ObservatoryAssumption
<1>10. /\ BaseInv' /\ Flow({k}) /\ job'[k] = j
       /\ \A h \in Callers \ {k} : job'[h] = job[h]
  <2>1. /\ file' \in [Sessions -> {None, "partial", "whole", "unlisted"}]
        /\ deleted' \subseteq Sessions /\ revived' \subseteq Sessions
    BY <1>1, JobTypes DEF history
  <2>2. BaseInv /\ (j.op # "idle" => c = route /\ route # None)
    BY <1>2, <1>9 DEF Inv
  <2> QED
    BY <1>1, <1>6, <2>1, <2>2, AnswerGoes
<1> QED
  BY <1>1, <1>2, <1>5, <1>7, <1>8, <1>10, QuietMove

\* What has been received stays fit to be gone on with.
LEMMA ReceivedFacts ==
  ASSUME NEW c \in Conns, NEW k \in Callers, ObservatoryAssumption, Inv, job[k].op = "part"
  PROVE  LET j == Received(c, k)
         IN /\ j.op = "part" /\ j.sid = job[k].sid /\ j.sid \in Sessions /\ j.todo = job[k].todo
            /\ j.saved = job[k].saved /\ j.saved < Cap /\ j.doomed = job[k].doomed
            /\ j.part \in Nat /\ (j.part < Parts => JobFit(k, j))
            /\ j.bytes \in {None, "partial", "whole", "torn"}
            /\ k = Sweep => SweepFit(j)
            /\ k = Sweep => \A s \in Sessions : Wanted(s) \/ Done(s) => j.sid # s \/ j.doomed
<1> DEFINE j == Received(c, k)
<1>1. job[k].op = "part"
  OBVIOUS
<1>2. job[k] \in Jobs /\ JobFit(k, job[k])
  BY JobTypes DEF Inv, BaseInv, JobsOK
<1>3. Parts \in Nat /\ Cap \in Nat
  BY DEF ObservatoryAssumption
<1> DEFINE b == IF job[k].bytes = Kept(c, k) THEN job[k].bytes ELSE "torn"
<1>0. /\ job[k] = [op |-> job[k].op, sid |-> job[k].sid, part |-> job[k].part,
                   bytes |-> job[k].bytes, todo |-> job[k].todo, saved |-> job[k].saved,
                   doomed |-> job[k].doomed]
      /\ job[k].part \in 0..(Parts - 1) /\ job[k].bytes \in {None, "partial", "whole", "torn"}
  BY <1>2 DEF Jobs
<1>b. j = [job[k] EXCEPT !.part = job[k].part + 1, !.bytes = b]
  BY <1>0 DEF Received
<1>c. b = job[k].bytes \/ b = "torn"
  OBVIOUS
<1> HIDE DEF b
<1>4. j = [op |-> job[k].op, sid |-> job[k].sid, part |-> job[k].part + 1,
           bytes |-> b, todo |-> job[k].todo, saved |-> job[k].saved, doomed |-> job[k].doomed]
  <2> HIDE DEF j
  <2> QED
    BY <1>0, <1>b
<1>5. /\ j.op = "part" /\ j.sid = job[k].sid /\ j.todo = job[k].todo
      /\ j.saved = job[k].saved /\ j.doomed = job[k].doomed
      /\ j.part = job[k].part + 1
      /\ j.bytes = job[k].bytes \/ j.bytes = "torn"
  BY <1>1, <1>4, <1>c
<1>6. j.part < Parts => j \in Jobs
  BY <1>0, <1>c, <1>2, <1>3, <1>4 DEF Jobs
<1> HIDE DEF j
<1>7. j.part < Parts => JobFit(k, j)
  BY <1>1, <1>2, <1>5, <1>6 DEF JobFit
<1>8. j.sid \in Sessions /\ j.saved < Cap
  BY <1>1, <1>2, <1>5 DEF JobFit
<1>9. k = Sweep => SweepFit(j)
  BY <1>1, <1>5 DEF Inv, WholeInv, SweepFit
<1>10. ASSUME k = Sweep, NEW s \in Sessions, Wanted(s) \/ Done(s), j.sid = s, ~j.doomed
       PROVE  FALSE
  <2>1. Downloads(s)
    BY <1>5, <1>10 DEF Downloads
  <2>2. InVain
    BY <1>10, <2>1, SweepKnows DEF Inv
  <2> QED
    BY <1>1, <1>10, <2>2 DEF InVain
<1>11. j.part \in Nat /\ j.bytes \in {None, "partial", "whole", "torn"}
  BY <1>0, <1>3, <1>5
<1> QED
  BY <1>5, <1>7, <1>8, <1>9, <1>10, <1>11 DEF j

LEMMA GotPartKeeps ==
  ASSUME NEW c \in Conns, NEW k \in Callers, ObservatoryAssumption, Inv, GotPart(c, k)
  PROVE  Inv'
<1> DEFINE j == Received(c, k)
<1>1. /\ Answered(c, k, "part") /\ j.part < Parts /\ Goes(k, j, c) /\ UNCHANGED <<file, history>>
  BY DEF GotPart
<1>2. /\ j.op = "part" /\ JobFit(k, j)
      /\ k = Sweep => SweepFit(j)
      /\ k = Sweep => \A s \in Sessions : Wanted(s) \/ Done(s) => j.sid # s \/ j.doomed
  <2>1. job[k].op = "part"
    BY <1>1, AnsweredFacts DEF Inv
  <2> QED
    BY <1>1, <2>1, ReceivedFacts
<1> HIDE DEF j
<1>3. route = c /\ c # None /\ UNCHANGED store
  BY <1>1, AnsweredFacts DEF Inv, packVars, ObservatoryAssumption
<1>4. /\ BaseInv' /\ Flow({k}) /\ job'[k] = j
      /\ \A h \in Callers \ {k} : job'[h] = job[h]
  BY <1>1, <1>2, <1>3, JobTypes, AnswerGoes DEF Inv, history
<1> QED
  BY <1>1, <1>2, <1>3, <1>4, QuietMove

LEMMA ListedKeeps ==
  ASSUME NEW c \in Conns, ObservatoryAssumption, Inv, Listed(c)
  PROVE  Inv'
<1> DEFINE m == Head(inbox[c])
           old == [Idle EXCEPT !.todo = m.data.listed \ m.data.running]
<1>0. Sweep \in Callers /\ Cap \in Nat
  BY DEF Callers, ObservatoryAssumption
<1>1. PICK j \in Onward(old, route, file) :
        Answered(c, Sweep, "list") /\ Goes(Sweep, j, route) /\ UNCHANGED <<file, history>>
  BY DEF Listed
<1>2. /\ m \in Messages /\ m = inbox[c][1] /\ 1 \in 1..Len(inbox[c]) /\ m.for = Sweep
      /\ m.op = "list" /\ UNCHANGED store
  BY <1>0, <1>1, AnsweredFacts DEF Inv, packVars
<1>3. /\ m.data.listed \ m.data.running \subseteq Sessions
      /\ \A s \in m.data.listed \ m.data.running : Ended(s)
  BY <1>2 DEF Messages, Inv, WholeInv, Brings
<1>4. old.todo = m.data.listed \ m.data.running /\ old.saved = 0 /\ 0 \in 0..Cap
  BY <1>0 DEF Idle
<1> HIDE DEF old, m
<1>5. /\ JobFit(Sweep, j)
      /\ j.op \notin {"delete", "clear"}
      /\ j.op # "idle" => route # None
      /\ SweepFit(j)
      /\ j.op # "begin" => \A s \in Sessions : Wanted(s) \/ Done(s) => j.sid # s \/ j.doomed
  BY <1>0, <1>3, <1>4, OnwardMove
<1>6. /\ BaseInv' /\ Flow({Sweep}) /\ job'[Sweep] = j
      /\ \A h \in Callers \ {Sweep} : job'[h] = job[h]
  BY <1>0, <1>1, <1>5, JobTypes, AnswerGoes DEF Inv, history
<1> QED
  BY <1>0, <1>1, <1>2, <1>5, <1>6, QuietMove

\* save() puts a whole trace into the archive, or marks the session as revived.
LEMMA StoresFacts ==
  ASSUME NEW c \in Conns, NEW recorded \in BOOLEAN, ObservatoryAssumption, Inv,
         job[Sweep].op = "part", Stores(Received(c, Sweep), recorded)
  PROVE  /\ file' \in [Sessions -> {None, "partial", "whole", "unlisted"}]
         /\ deleted' = deleted /\ deleted' \subseteq Sessions /\ revived' \subseteq Sessions
         /\ \A s \in Sessions : file'[s] # "partial"
         /\ \A s \in Sessions : (Wanted(s) \/ Done(s)) /\ Safe(s) => Safe(s)'
<1> DEFINE j == Received(c, Sweep)
           f == IF recorded THEN j.bytes ELSE "unlisted"
<1>0. Sweep \in Callers
  BY DEF Callers
<1>1. /\ j.op = "part" /\ j.sid \in Sessions /\ j.bytes \in {None, "partial", "whole", "torn"}
      /\ SweepFit(j)
      /\ \A s \in Sessions : Wanted(s) \/ Done(s) => j.sid # s \/ j.doomed
  BY <1>0, ReceivedFacts
<1>2. /\ j.bytes # "torn" /\ file' = [file EXCEPT ![j.sid] = f]
      /\ revived' = IF j.doomed THEN revived \union {j.sid} ELSE revived
      /\ deleted' = deleted
  BY DEF Stores
<1> HIDE DEF j
<1>3. f \in {"whole", "unlisted"}
  BY <1>1, <1>2 DEF SweepFit
<1> HIDE DEF f
<1>4. /\ file \in [Sessions -> {None, "partial", "whole", "unlisted"}]
      /\ deleted \subseteq Sessions /\ revived \subseteq Sessions
      /\ \A s \in Sessions : file[s] # "partial"
  BY <1>0, JobTypes DEF Inv, WholeInv
<1>5. /\ file' \in [Sessions -> {None, "partial", "whole", "unlisted"}]
      /\ \A s \in Sessions : file'[s] = IF s = j.sid THEN f ELSE file[s]
  BY <1>2, <1>3, <1>4
<1>6. revived' \subseteq Sessions /\ \A s \in revived : s \in revived'
  BY <1>1, <1>2, <1>4
<1>7. ASSUME NEW s \in Sessions, Wanted(s) \/ Done(s), Safe(s)
      PROVE  Safe(s)'
  <2>1. CASE s = j.sid
    <3>1. s \in revived'
      BY <1>1, <1>2, <1>7, <2>1
    <3> QED
      BY <3>1 DEF Safe
  <2>2. CASE s # j.sid
    <3>1. file'[s] = file[s]
      BY <1>5, <2>2
    <3> QED
      BY <1>6, <1>7, <3>1 DEF Safe
  <2> QED
    BY <2>1, <2>2
<1> QED
  BY <1>2, <1>3, <1>4, <1>5, <1>6, <1>7

LEMMA SaveKeeps ==
  ASSUME NEW c \in Conns, ObservatoryAssumption, Inv, Save(c)
  PROVE  Inv'
<1> DEFINE j == Received(c, Sweep)
<1>0. Sweep \in Callers /\ Cap \in Nat /\ None \notin Sessions
  BY DEF Callers, ObservatoryAssumption
<1>1. PICK n \in 0..1 : /\ Answered(c, Sweep, "part") /\ Stores(j, n = 1)
                        /\ \E next \in Onward([j EXCEPT !.saved = @ + n], route, file') :
                             Goes(Sweep, next, route)
  BY DEF Save
<1> DEFINE old == [j EXCEPT !.saved = @ + n]
<1>2. PICK next \in Onward(old, route, file') : Goes(Sweep, next, route)
  BY <1>1
<1>3. job[Sweep].op = "part" /\ UNCHANGED store
  BY <1>0, <1>1, AnsweredFacts DEF Inv, packVars
<1>4. /\ j.saved = job[Sweep].saved /\ j.saved < Cap /\ j.todo = job[Sweep].todo
  BY <1>0, <1>3, ReceivedFacts
<1>5. /\ job[Sweep].todo \subseteq Sessions /\ job[Sweep].saved \in 0..Cap
      /\ \A s \in job[Sweep].todo : Ended(s)
  BY <1>0, JobTypes
<1>6. old.todo = j.todo /\ old.saved = j.saved + n
  BY DEF Received
<1>7. /\ file' \in [Sessions -> {None, "partial", "whole", "unlisted"}]
      /\ deleted' = deleted /\ deleted' \subseteq Sessions /\ revived' \subseteq Sessions
      /\ \A s \in Sessions : file'[s] # "partial"
      /\ \A s \in Sessions : (Wanted(s) \/ Done(s)) /\ Safe(s) => Safe(s)'
  BY <1>1, <1>3, StoresFacts
<1> HIDE DEF old, j
<1>8. old.todo \subseteq Sessions /\ old.saved \in 0..Cap /\ \A s \in old.todo : Ended(s)
  BY <1>0, <1>4, <1>5, <1>6
<1>9. /\ JobFit(Sweep, next)
      /\ next.op \notin {"delete", "clear"}
      /\ next.op # "idle" => route # None
      /\ SweepFit(next)
      /\ next.op # "begin" => \A s \in Sessions : Wanted(s) \/ Done(s) => next.sid # s \/ next.doomed
  BY <1>0, <1>8, OnwardMove
<1>a. Answered(c, Sweep, "part") /\ Goes(Sweep, next, route) /\ BaseInv
  BY <1>1, <1>2 DEF Inv
<1>b. JobFit(Sweep, next) /\ (next.op # "idle" => route = route /\ route # None)
  BY <1>9
<1>10. BaseInv' /\ Flow({Sweep}) /\ job'[Sweep] = next
  BY <1>0, <1>7, <1>a, <1>b, AnswerGoes
<1>11. Respects({Sweep})
  <2>1. ASSUME NEW s \in Sessions, Wanted(s) \/ Done(s), Downloads(s)'
        PROVE  job'[Sweep].op = "begin"
    BY <1>9, <1>10, <2>1 DEF Downloads
  <2>2. \A h \in {Sweep}, s \in Sessions : ~Target(job'[h], s)
    BY <1>9, <1>10 DEF Target
  <2> QED
    BY <1>3, <1>7, <2>1, <2>2 DEF Respects, Done
<1>12. SweepFit(job[Sweep])' /\ \A s \in Sessions : Ended(s) => Ended(s)'
  BY <1>3, <1>9, <1>10 DEF SweepFit, Ended
<1>13. {Sweep} \in SUBSET Callers
  BY <1>0
<1> QED
  BY <1>7, <1>10, <1>11, <1>12, <1>13, Flows

LEMMA ConfirmedKeeps ==
  ASSUME NEW c \in Conns, NEW u \in Users, ObservatoryAssumption, Inv, Confirmed(c, u)
  PROVE  Inv'
<1> DEFINE m == Head(inbox[c])
<1>0. u \in Callers /\ Sweep \in Callers /\ u # Sweep /\ Parts \in Nat \ {0} /\ Cap \in Nat \ {0}
      /\ u # None
  BY DEF Callers, ObservatoryAssumption
<1>1. PICK op \in {"delete", "clear"} :
        Answered(c, u, op) /\ Goes(u, Idle, None) /\ deleted' = deleted \union m.data
        /\ UNCHANGED <<file, revived>>
  BY DEF Confirmed
<1>2. /\ m \in Messages /\ m = inbox[c][1] /\ 1 \in 1..Len(inbox[c]) /\ m.for = u
      /\ m.op = op /\ UNCHANGED store
  BY <1>0, <1>1, AnsweredFacts DEF Inv, packVars
<1>3. m.data \subseteq Sessions
  BY <1>2 DEF Messages
<1>4. \A s \in m.data : Done(s)
  BY <1>0, <1>2 DEF Done, Says
<1>5. JobFit(u, Idle)
  BY <1>0 DEF JobFit, Idle, Jobs
<1>6. /\ file' \in [Sessions -> {None, "partial", "whole", "unlisted"}]
      /\ deleted' \subseteq Sessions /\ revived' \subseteq Sessions
  BY <1>0, <1>1, <1>3, JobTypes
<1>7. Idle.op = "idle"
  BY DEF Idle
<1>8. /\ BaseInv' /\ Flow({u}) /\ job'[u] = Idle /\ job'[Sweep] = job[Sweep]
  BY <1>0, <1>1, <1>5, <1>6, <1>7, AnswerGoes DEF Inv
<1>9. Respects({u})
  <2>1. \A h \in {u}, s \in Sessions : ~Target(job'[h], s)
    BY <1>8 DEF Target, Idle
  <2>2. \A s \in Sessions : Safe(s) => Safe(s)'
    BY <1>1 DEF Safe
  <2>3. \A s \in Sessions : s \in deleted' => Done(s)
    BY <1>1, <1>4 DEF Done
  <2> QED
    BY <1>0, <1>2, <2>1, <2>2, <2>3 DEF Respects
<1>10. SweepFit(job[Sweep])' /\ \A s \in Sessions : Ended(s) => Ended(s)'
  BY <1>2, <1>8 DEF SweepFit, Ended, Inv, WholeInv
<1>11. \A s \in Sessions : file'[s] # "partial"
  BY <1>1 DEF Inv, WholeInv
<1>12. {u} \in SUBSET Callers
  BY <1>0
<1> QED
  BY <1>8, <1>9, <1>10, <1>11, <1>12, Flows

-----------------------------------------------------------------------------
(* Requests.                                                                 *)

\* Nothing is under way for who asks for nothing.
LEMMA IdleFacts ==
  ASSUME NEW k \in Callers, ObservatoryAssumption, BaseInv, job[k] = Idle
  PROVE  /\ outbox \in [Conns -> Seq(Requests)] /\ inbox \in [Conns -> Seq(Messages)]
         /\ \A d \in Conns : /\ Sub(outbox[d], outbox[d]) /\ Gone(outbox[d], k)
                             /\ Sub(inbox[d], inbox[d]) /\ Gone(inbox[d], k)
<1>1. link[k] = None
  BY DEF BaseInv, RouteOK, Idle
<1>2. None \notin Conns /\ k # None
  BY DEF ObservatoryAssumption
<1>3. outbox \in [Conns -> Seq(Requests)] /\ inbox \in [Conns -> Seq(Messages)]
  BY DEF BaseInv, BoxesOK
<1>4. \A d \in Conns : Gone(outbox[d], k) /\ Gone(inbox[d], k)
  BY <1>1, <1>2 DEF BaseInv, Match, Asks, Answers, Gone
<1> QED
  BY <1>3, <1>4, SubSelf

LEMMA IdleGoes ==
  ASSUME NEW k \in Callers, NEW j, ObservatoryAssumption, Inv, job[k] = Idle,
         Goes(k, j, route), JobFit(k, j), route # None,
         UNCHANGED <<packVars, conns, route, inbox, file, history>>
  PROVE  BaseInv' /\ Flow({k}) /\ job'[k] = j /\ \A h \in Callers \ {k} : job'[h] = job[h]
<1>1. /\ outbox \in [Conns -> Seq(Requests)] /\ inbox \in [Conns -> Seq(Messages)]
      /\ \A d \in Conns : /\ Sub(outbox[d], outbox[d]) /\ Gone(outbox[d], k)
                          /\ Sub(inbox[d], inbox[d]) /\ Gone(inbox[d], k)
  BY IdleFacts DEF Inv
<1>2. job \in [Callers -> Jobs] /\ j \in Jobs /\ \A h \in Callers : JobFit(h, job[h])
  BY DEF Inv, BaseInv, TypeOK, JobFit, JobsOK
<1>3. /\ job' \in [Callers -> Jobs] /\ job'[k] = j
      /\ \A h \in Callers \ {k} : job'[h] = job[h]
      /\ link' = [link EXCEPT ![k] = Waits(j, route)]
      /\ outbox' = With(outbox, k, j, route)
  BY <1>2 DEF Goes
<1>4. \A h \in Callers \ {k} : /\ JobFit(h, job'[h])
                               /\ job'[h].op = job[h].op /\ job'[h].sid = job[h].sid
                               /\ job[h].doomed => job'[h].doomed
  BY <1>2, <1>3
<1>5. /\ file' \in [Sessions -> {None, "partial", "whole", "unlisted"}]
      /\ deleted' \subseteq Sessions /\ revived' \subseteq Sessions
  BY JobTypes DEF history
<1>6. /\ inbox' \in [Conns -> Seq(Messages)]
      /\ \A d \in Conns : Sub(inbox'[d], inbox[d]) /\ Gone(inbox'[d], k)
  BY <1>1
<1>7. BaseInv' /\ Flow({k})
  BY <1>1, <1>3, <1>4, <1>5, <1>6, Moves DEF Inv
<1> QED
  BY <1>3, <1>7

LEMMA AskingFacts ==
  ASSUME NEW op, NEW s, NEW x,
         \/ x = [Idle EXCEPT !.op = op, !.sid = s]
         \/ x = [Idle EXCEPT !.op = op] /\ s = None
  PROVE  x = [op |-> op, sid |-> s, part |-> 0, bytes |-> None, todo |-> {}, saved |-> 0,
              doomed |-> FALSE]
BY DEF Idle

LEMMA SweepBeginsKeeps ==
  ASSUME ObservatoryAssumption, Inv, SweepBegins
  PROVE  Inv'
<1> DEFINE j == [Idle EXCEPT !.op = "list"]
<1>0. Sweep \in Callers /\ None \notin Sessions /\ Parts \in Nat \ {0} /\ Cap \in Nat \ {0}
  BY DEF Callers, ObservatoryAssumption
<1>1. j = [op |-> "list", sid |-> None, part |-> 0, bytes |-> None, todo |-> {}, saved |-> 0,
           doomed |-> FALSE]
  BY AskingFacts
<1>2. JobFit(Sweep, j)
  <2> HIDE DEF j
  <2> QED
    BY <1>0, <1>1 DEF JobFit, Jobs
<1>3. SweepFit(j)
  BY <1>1 DEF SweepFit
<1>4. BaseInv' /\ Flow({Sweep}) /\ job'[Sweep] = j /\ \A h \in Callers \ {Sweep} : job'[h] = job[h]
  BY <1>0, <1>2, IdleGoes DEF SweepBegins
<1>5. UNCHANGED <<store, file, history>>
  BY DEF SweepBegins, packVars
<1>6. j.op \notin {"delete", "clear"} /\ j.sid = None
  BY <1>1
<1> HIDE DEF j
<1> QED
  BY <1>0, <1>3, <1>4, <1>5, <1>6, QuietMove

LEMMA DownloadKeeps ==
  ASSUME NEW u \in Users, NEW s \in Sessions, ObservatoryAssumption, Inv, Download(u, s)
  PROVE  Inv'
<1> DEFINE j == [Idle EXCEPT !.op = "begin", !.sid = s]
<1>0. u \in Callers /\ u # Sweep /\ Parts \in Nat \ {0} /\ Cap \in Nat \ {0}
  BY DEF Callers, ObservatoryAssumption
<1>1. j = [op |-> "begin", sid |-> s, part |-> 0, bytes |-> None, todo |-> {}, saved |-> 0,
           doomed |-> FALSE]
  BY AskingFacts
<1>2. JobFit(u, j)
  <2> HIDE DEF j
  <2> QED
    BY <1>0, <1>1 DEF JobFit, Jobs
<1>3. BaseInv' /\ Flow({u}) /\ job'[u] = j /\ \A h \in Callers \ {u} : job'[h] = job[h]
  BY <1>0, <1>2, IdleGoes DEF Download
<1>4. UNCHANGED <<store, file, history>>
  BY DEF Download, packVars
<1>5. j.op \notin {"delete", "clear"}
  BY <1>1
<1> HIDE DEF j
<1> QED
  BY <1>0, <1>3, <1>4, <1>5, QuietMove

\* The deletion of the sessions S, by who asked for nothing before.
LEMMA TellsKeeps ==
  ASSUME NEW u \in Users, NEW op, NEW s, NEW S, ObservatoryAssumption, Inv,
         \/ op = "delete" /\ s \in Sessions /\ S = {s}
         \/ op = "clear" /\ s = None /\ S = Sessions,
         Tells(u, op, s, S), file' = Without(S)
  PROVE  Inv'
<1> DEFINE asks == [Idle EXCEPT !.op = op, !.sid = s]
           j == IF route = None THEN Idle ELSE asks
           told == [job[Sweep] EXCEPT !.doomed = @ \/ job[Sweep].sid \in S]
<1>0. /\ u \in Callers /\ Sweep \in Callers /\ u # Sweep /\ None \notin Sessions
      /\ S \subseteq Sessions /\ Parts \in Nat \ {0} /\ Cap \in Nat \ {0}
  BY DEF Callers, ObservatoryAssumption
<1>1. /\ job[u] = Idle
      /\ job' = [job EXCEPT ![u] = j, ![Sweep].doomed = @ \/ job[Sweep].sid \in S]
      /\ link' = [link EXCEPT ![u] = Waits(j, route)]
      /\ outbox' = With(outbox, u, j, route)
      /\ revived' = revived \ S
      /\ UNCHANGED <<packVars, conns, route, inbox, deleted>>
  BY DEF Tells
<1>2. /\ asks = [op |-> op, sid |-> s, part |-> 0, bytes |-> None, todo |-> {}, saved |-> 0,
                 doomed |-> FALSE]
      /\ asks \in Jobs /\ Idle \in Jobs
  <2>1. asks = [op |-> op, sid |-> s, part |-> 0, bytes |-> None, todo |-> {}, saved |-> 0,
                doomed |-> FALSE]
    BY AskingFacts
  <2>2. Idle \in Jobs
    BY <1>0 DEF Idle, Jobs
  <2> HIDE DEF asks
  <2>3. asks \in Jobs
    BY <1>0, <2>1 DEF Jobs
  <2> QED
    BY <2>1, <2>2, <2>3
<1>3. JobFit(u, j)
  <2>1. JobFit(u, Idle)
    BY <1>0, <1>2 DEF JobFit, Idle
  <2>2. JobFit(u, asks)
    <3> HIDE DEF asks
    <3> QED
      BY <1>0, <1>2 DEF JobFit
  <2> QED
    BY <2>1, <2>2
<1>4. job[Sweep] \in Jobs /\ JobFit(Sweep, job[Sweep]) /\ job \in [Callers -> Jobs]
  BY <1>0 DEF Inv, BaseInv, TypeOK, JobsOK
<1>5. /\ told \in Jobs /\ told.op = job[Sweep].op /\ told.sid = job[Sweep].sid
      /\ told.todo = job[Sweep].todo /\ told.bytes = job[Sweep].bytes
      /\ told.saved = job[Sweep].saved
      /\ told.doomed = (job[Sweep].doomed \/ job[Sweep].sid \in S)
      /\ job[Sweep].sid \notin S => told = job[Sweep]
  BY <1>4 DEF Jobs
<1>6. JobFit(Sweep, told)
  <2>1. CASE job[Sweep].op = "idle"
    <3>1. job[Sweep].sid \notin S
      BY <1>0, <1>4, <2>1 DEF JobFit, Idle
    <3> HIDE DEF told
    <3> QED
      BY <1>4, <1>5, <3>1
  <2>2. CASE job[Sweep].op # "idle"
    <3> HIDE DEF told
    <3> QED
      BY <1>4, <1>5, <2>2 DEF JobFit
  <2> QED
    BY <2>1, <2>2
<1>7. /\ job' \in [Callers -> Jobs] /\ job'[u] = j /\ job'[Sweep] = told
      /\ \A h \in Callers \ {u, Sweep} : job'[h] = job[h]
  <2>1. j \in Jobs
    BY <1>2
  <2>2. job' = [[job EXCEPT ![u] = j] EXCEPT ![Sweep] = told]
    <3> HIDE DEF j
    <3> QED
      BY <1>0, <1>1, <1>4
  <2> HIDE DEF j, told
  <2> QED
    BY <1>0, <1>4, <1>5, <2>1, <2>2
<1> HIDE DEF j, told
<1>8. \A h \in Callers \ {u} : /\ JobFit(h, job'[h])
                               /\ job'[h].op = job[h].op /\ job'[h].sid = job[h].sid
                               /\ job[h].doomed => job'[h].doomed
  <2>1. \A h \in Callers : JobFit(h, job[h])
    BY DEF Inv, BaseInv, JobsOK
  <2> QED
    BY <1>5, <1>6, <1>7, <2>1
<1>9. /\ outbox \in [Conns -> Seq(Requests)] /\ inbox' \in [Conns -> Seq(Messages)]
      /\ \A d \in Conns : /\ Sub(outbox[d], outbox[d]) /\ Gone(outbox[d], u)
                          /\ Sub(inbox'[d], inbox[d]) /\ Gone(inbox'[d], u)
  BY <1>0, <1>1, IdleFacts DEF Inv
<1>10. /\ file' = [t \in Sessions |-> IF t \in S THEN None ELSE file[t]]
       /\ file' \in [Sessions -> {None, "partial", "whole", "unlisted"}]
       /\ deleted' \subseteq Sessions /\ revived' \subseteq Sessions
  BY <1>0, <1>1, JobTypes DEF Without
<1>11. j.op # "idle" => route # None
  BY DEF j, Idle
<1>12. BaseInv' /\ Flow({u})
  BY <1>0, <1>1, <1>3, <1>7, <1>8, <1>9, <1>10, <1>11, Moves DEF Inv
<1>13. Respects({u})
  <2>1. \A t \in Sessions : Safe(t) => Safe(t)'
    BY <1>1, <1>10 DEF Safe
  <2>2. \A t \in Sessions : store[t] = "gone" => store'[t] = "gone"
    BY <1>1 DEF packVars
  <2>3. \A t \in Sessions : t \in deleted' => Done(t)
    BY <1>1 DEF Done
  <2>4. ASSUME NEW t \in Sessions, Target(job'[u], t)
        PROVE  Safe(t)' /\ ~Downloads(t)'
    <3>1. j = Idle \/ j = asks
      BY DEF j
    <3>2. asks.op = op /\ asks.sid = s
      BY <1>2
    <3>3. t \in S
      <4>1. j # Idle
        BY <1>7, <2>4 DEF Target, Idle
      <4>2. op = "clear" \/ (op = "delete" /\ s = t)
        BY <1>7, <2>4, <3>1, <3>2, <4>1 DEF Target
      <4> QED
        BY <4>2
    <3>4. file'[t] = None
      BY <1>10, <3>3
    <3> QED
      BY <1>5, <1>7, <3>3, <3>4 DEF Safe, Downloads
  <2> QED
    BY <1>0, <2>1, <2>2, <2>3, <2>4 DEF Respects
<1>14. SweepFit(job[Sweep])' /\ \A t \in Sessions : Ended(t) => Ended(t)'
  <2>1. SweepFit(job[Sweep]) /\ store' = store
    BY <1>1 DEF Inv, WholeInv, packVars
  <2> QED
    BY <1>5, <1>7, <2>1 DEF SweepFit, Ended
<1>15. \A t \in Sessions : file'[t] # "partial"
  <2>1. ASSUME NEW t \in Sessions, file'[t] = "partial" PROVE FALSE
    BY <1>10, <2>1 DEF Inv, WholeInv, ObservatoryAssumption
  <2> QED
    BY <2>1
<1>16. {u} \in SUBSET Callers
  BY <1>0
<1> QED
  BY <1>12, <1>13, <1>14, <1>15, <1>16, Flows

LEMMA TimeoutKeeps ==
  ASSUME NEW k \in Callers, ObservatoryAssumption, Inv, Timeout(k)
  PROVE  Inv'
<1>0. k # None
  BY DEF ObservatoryAssumption
<1>1. PICK j \in Onward(job[k], route, file) :
        /\ job' = [job EXCEPT ![k] = j]
        /\ link' = [link EXCEPT ![k] = Waits(j, route)]
        /\ outbox' = With(Abandoned(k), k, j, route)
        /\ inbox' = [c \in Conns |-> Forget(inbox[c], k)]
        /\ UNCHANGED <<packVars, conns, route, file, history>>
  BY DEF Timeout
<1>2. /\ job[k].todo \subseteq Sessions /\ job[k].saved \in 0..Cap
      /\ k = Sweep => \A s \in job[k].todo : Ended(s)
      /\ file' \in [Sessions -> {None, "partial", "whole", "unlisted"}]
      /\ deleted' \subseteq Sessions /\ revived' \subseteq Sessions
  BY <1>1, JobTypes DEF history
<1>3. /\ JobFit(k, j)
      /\ j.op \notin {"delete", "clear"}
      /\ j.op # "idle" => route # None
      /\ k = Sweep => SweepFit(j)
      /\ k = Sweep /\ j.op # "begin" =>
           \A s \in Sessions : Wanted(s) \/ Done(s) => j.sid # s \/ j.doomed
  BY <1>2, OnwardMove
<1>4. \A d \in Conns : /\ outbox[d] \in Seq(Requests) /\ inbox[d] \in Seq(Messages)
                      /\ Sole(outbox[d]) /\ Sole(inbox[d])
  BY DEF Inv, BaseInv, BoxesOK, One
<1>5. \A d \in Conns : /\ GivenUp(outbox[d], k) \in Seq(Requests)
                      /\ Sub(GivenUp(outbox[d], k), outbox[d])
                      /\ Gone(GivenUp(outbox[d], k), k)
  BY <1>0, <1>4, SubGivenUp
<1>6. \A d \in Conns : /\ Forget(inbox[d], k) \in Seq(Messages)
                      /\ Sub(Forget(inbox[d], k), inbox[d])
                      /\ Gone(Forget(inbox[d], k), k)
  BY <1>0, <1>4, SubForget
<1>7. /\ Abandoned(k) \in [Conns -> Seq(Requests)]
      /\ \A d \in Conns : Sub(Abandoned(k)[d], outbox[d]) /\ Gone(Abandoned(k)[d], k)
  BY <1>5 DEF Abandoned
<1>8. /\ inbox' \in [Conns -> Seq(Messages)]
      /\ \A d \in Conns : Sub(inbox'[d], inbox[d]) /\ Gone(inbox'[d], k)
  BY <1>1, <1>6
<1>9. job \in [Callers -> Jobs] /\ j \in Jobs /\ \A h \in Callers : JobFit(h, job[h])
  BY <1>3 DEF Inv, BaseInv, TypeOK, JobFit, JobsOK
<1>10. /\ job' \in [Callers -> Jobs] /\ job'[k] = j
       /\ \A h \in Callers \ {k} : job'[h] = job[h]
  BY <1>1, <1>9
<1>11. \A h \in Callers \ {k} : /\ JobFit(h, job'[h])
                                /\ job'[h].op = job[h].op /\ job'[h].sid = job[h].sid
                                /\ job[h].doomed => job'[h].doomed
  BY <1>9, <1>10
<1>12. BaseInv' /\ Flow({k})
  BY <1>1, <1>2, <1>3, <1>7, <1>8, <1>10, <1>11, Moves DEF Inv
<1>13. UNCHANGED <<store, file, history>>
  BY <1>1 DEF packVars
<1> QED
  BY <1>3, <1>10, <1>12, <1>13, QuietMove

-----------------------------------------------------------------------------
(* Connections.                                                              *)

LEMMA SubGone ==
  ASSUME NEW S, NEW p \in Seq(S), NEW q, NEW k, k # None, Sub(p, q), Gone(q, k)
  PROVE  Gone(p, k)
<1> SUFFICES ASSUME NEW i \in 1..Len(p), p[i].for = k
             PROVE  FALSE
  BY DEF Gone
<1>1. i <= i
  BY LenProperties
<1>2. \E a \in 1..Len(q) : p[i] = q[a]
  BY <1>1 DEF Sub
<1> QED
  BY <1>2 DEF Gone

\* The callers whose requests go down with connections go on over the new route.
LEMMA RejectKeeps ==
  ASSUME NEW C \in SUBSET Conns, ObservatoryAssumption, Inv, Reject(C, route'),
         route' \in Conns \union {None}, route # route' => route \in C \union {None},
         conns' \in [Conns -> {"closed", "open", "ready"}],
         \A c \in Conns : conns'[c] = "ready" <=> route' = c,
         inbox' \in [Conns -> Seq(Messages)],
         \A c \in Conns : Sub(inbox'[c], inbox[c]) /\ (c \in C => inbox'[c] = <<>>),
         UNCHANGED <<packVars, file, history>>
  PROVE  Inv'
<1> DEFINE cut == {k \in Callers : link[k] \in C}
           left == [c \in Conns |-> IF c \in C THEN <<>> ELSE outbox[c]]
           on == route'
<1>0. /\ Sweep \in Callers /\ None \notin Conns /\ None \notin Callers /\ None \notin Sessions
      /\ Parts \in Nat \ {0} /\ Cap \in Nat \ {0}
  BY DEF Callers, ObservatoryAssumption
<1>1. PICK next \in Onward(job[Sweep], on, file) :
        LET after(k) == IF k = Sweep THEN next ELSE Idle
        IN /\ job' = [k \in Callers |-> IF k \in cut THEN after(k) ELSE job[k]]
           /\ link' = [k \in Callers |-> IF k \in cut THEN Waits(after(k), on) ELSE link[k]]
           /\ outbox' = IF Sweep \in cut THEN With(left, Sweep, next, on) ELSE left
  BY DEF Reject
<1> DEFINE after(k) == IF k = Sweep THEN next ELSE Idle
<1>2. /\ job' = [k \in Callers |-> IF k \in cut THEN after(k) ELSE job[k]]
      /\ link' = [k \in Callers |-> IF k \in cut THEN Waits(after(k), on) ELSE link[k]]
      /\ outbox' = IF Sweep \in cut THEN With(left, Sweep, next, on) ELSE left
  BY <1>1
<1>3. /\ job \in [Callers -> Jobs] /\ link \in [Callers -> Conns \union {None}]
      /\ outbox \in [Conns -> Seq(Requests)] /\ inbox \in [Conns -> Seq(Messages)]
      /\ \A h \in Callers : JobFit(h, job[h])
  BY DEF Inv, BaseInv, TypeOK, BoxesOK, JobsOK
<1>4. /\ job[Sweep].todo \subseteq Sessions /\ job[Sweep].saved \in 0..Cap
      /\ \A s \in job[Sweep].todo : Ended(s)
  BY <1>0, JobTypes
<1>5. /\ JobFit(Sweep, next)
      /\ next.op \notin {"delete", "clear"}
      /\ next.op # "idle" => on # None
      /\ SweepFit(next)
      /\ next.op # "begin" => \A s \in Sessions : Wanted(s) \/ Done(s) => next.sid # s \/ next.doomed
  BY <1>0, <1>4, OnwardMove
<1>6. \A k \in Callers : JobFit(k, Idle)
  BY <1>0 DEF JobFit, Idle, Jobs
<1>7. /\ \A k \in cut : JobFit(k, after(k)) /\ after(k).op \notin {"delete", "clear"}
      /\ \A k \in cut : after(k).op # "idle" => on # None
  BY <1>5, <1>6 DEF Idle
<1>8. /\ \A k \in cut : job'[k] = after(k) /\ link'[k] = Waits(after(k), on)
      /\ \A k \in Callers \ cut : job'[k] = job[k] /\ link'[k] = link[k]
  BY <1>2
<1>9. ASSUME NEW k \in Callers PROVE JobFit(k, job'[k])
  <2>1. CASE k \in cut
    <3>1. JobFit(k, after(k)) /\ job'[k] = after(k)
      BY <1>7, <1>8, <2>1
    <3> QED
      BY <3>1
  <2>2. CASE k \notin cut
    <3>1. JobFit(k, job[k]) /\ job'[k] = job[k]
      BY <1>3, <1>8, <2>2
    <3> QED
      BY <3>1
  <2> QED
    BY <2>1, <2>2
<1>10. job' \in [Callers -> Jobs]
  BY <1>2, <1>9 DEF JobFit
<1>11. \A k \in Callers : link'[k] \in Conns \union {None}
  BY <1>3, <1>8 DEF Waits
<1>12. link' \in [Callers -> Conns \union {None}]
  BY <1>2, <1>11
<1>13. TypeOK'
  BY <1>10, <1>12 DEF Inv, BaseInv, TypeOK, packVars, history
<1>14. JobsOK'
  BY <1>9 DEF JobsOK
<1>15. RouteOK'
  <2>1. ASSUME NEW k \in Callers
        PROVE  IF job'[k].op = "idle" THEN link'[k] = None ELSE link'[k] = route' /\ route' # None
    <3>1. CASE k \in cut
      BY <1>7, <1>8, <3>1 DEF Waits
    <3>2. CASE k \notin cut
      <4>1. job'[k] = job[k] /\ link'[k] = link[k] /\ link[k] \notin C
        BY <1>8, <3>2
      <4>2. IF job[k].op = "idle" THEN link[k] = None ELSE link[k] = route /\ route # None
        BY DEF Inv, BaseInv, RouteOK
      <4> QED
        BY <4>1, <4>2
    <3> QED
      BY <3>1, <3>2
  <2> QED
    BY <2>1 DEF RouteOK
<1>16. ASSUME NEW d \in Conns, NEW k \in cut
       PROVE  Gone(left[d], k) /\ Gone(inbox'[d], k)
  <2>1. k \in Callers /\ k # None /\ link[k] \in C
    BY <1>0
  <2>2. CASE d \in C
    BY <2>2, SubEmpty
  <2>3. CASE d \notin C
    <3>1. Gone(outbox[d], k) /\ Gone(inbox[d], k)
      BY <2>1, <2>3 DEF Inv, BaseInv, Match, Asks, Answers, Gone
    <3>2. inbox'[d] \in Seq(Messages)
      OBVIOUS
    <3>3. Gone(inbox'[d], k)
      BY <2>1, <3>1, <3>2, SubGone
    <3> QED
      BY <2>3, <3>1, <3>3
  <2> QED
    BY <2>2, <2>3
<1>17. \A d \in Conns : left[d] \in Seq(Requests) /\ Sub(left[d], outbox[d])
  <2>1. <<>> \in Seq(Requests)
    BY EmptySeq
  <2> QED
    BY <1>3, <2>1, SubEmpty, SubSelf
<1>18. left \in [Conns -> Seq(Requests)]
  BY <1>17
<1> HIDE DEF left
<1>19. ASSUME NEW d \in Conns
       PROVE  Gains(cut, outbox'[d], d) /\ outbox'[d] \in Seq(Requests)
  <2>1. CASE Sweep \in cut
    <3>1. /\ next \in Jobs /\ (next.op = "begin" => next.sid \in Sessions) /\ job'[Sweep] = next
          /\ next.op # "idle" => link'[Sweep] = on
      BY <1>5, <1>8, <2>1 DEF JobFit, Waits
    <3>2. cut \in SUBSET Callers /\ Sub(left[d], outbox[d]) /\ \A h \in cut : Gone(left[d], h)
      BY <1>16, <1>17
    <3> HIDE DEF cut, on
    <3>3. Gains(cut, With(left, Sweep, next, on)[d], d) /\ With(left, Sweep, next, on)[d] \in Seq(Requests)
      BY <1>18, <2>1, <3>1, <3>2, WithGains
    <3> QED
      BY <1>2, <2>1, <3>3
  <2>2. CASE Sweep \notin cut
    BY <1>2, <1>16, <1>17, <2>2 DEF Gains
  <2> QED
    BY <2>1, <2>2
<1>20. outbox' \in [Conns -> Seq(Requests)]
  <2>1. outbox' = [d \in Conns |-> outbox'[d]]
    BY <1>2, <1>18 DEF With
  <2> QED
    BY <1>19, <2>1
<1>21. Flow(cut)
  BY <1>8, <1>16, <1>19 DEF Flow
<1>22. BaseInv'
  <2>1. Match' /\ One'
    BY <1>20, <1>21, FlowKeeps DEF Inv, BaseInv
  <2> QED
    BY <1>13, <1>14, <1>15, <1>20, <2>1 DEF BaseInv, BoxesOK
<1>23. Respects(cut)
  <2>1. \A s \in Sessions : Safe(s) => Safe(s)'
    BY DEF Safe, history
  <2>2. ASSUME NEW s \in Sessions, Wanted(s) \/ Done(s), Sweep \in cut, Downloads(s)'
        PROVE  job'[Sweep].op = "begin"
    BY <1>5, <1>8, <2>2 DEF Downloads
  <2>3. \A h \in cut, s \in Sessions : ~Target(job'[h], s)
    BY <1>7, <1>8 DEF Target
  <2> QED
    BY <2>1, <2>2, <2>3 DEF Respects, Done, history, packVars
<1>24. SweepFit(job[Sweep])' /\ \A s \in Sessions : Ended(s) => Ended(s)'
  <2>1. job'[Sweep] = next \/ job'[Sweep] = job[Sweep]
    BY <1>0, <1>8
  <2>2. SweepFit(job[Sweep]) /\ store' = store
    BY DEF Inv, WholeInv, packVars
  <2> QED
    BY <1>5, <2>1, <2>2 DEF SweepFit, Ended
<1>25. \A s \in Sessions : file'[s] # "partial"
  BY DEF Inv, WholeInv
<1>26. cut \in SUBSET Callers
  OBVIOUS
<1> QED
  BY <1>21, <1>22, <1>23, <1>24, <1>25, <1>26, Flows

LEMMA ReadyKeeps ==
  ASSUME NEW c \in Conns, ObservatoryAssumption, Inv, Ready(c)
  PROVE  Inv'
<1> DEFINE stale == {route} \ {None, c}
<1>1. /\ Arrives(c, "ready") /\ Reject(stale, c) /\ route' = c
      /\ conns' = [d \in Conns |-> IF d = c THEN "ready"
                                   ELSE IF d \in stale THEN "closed" ELSE conns[d]]
      /\ inbox' = [d \in Conns |-> IF d = c THEN Tail(inbox[d])
                                   ELSE IF d \in stale THEN <<>> ELSE inbox[d]]
      /\ UNCHANGED <<packVars, file, history>>
  BY DEF Ready
<1>2. /\ route \in Conns \union {None} /\ conns \in [Conns -> {"closed", "open", "ready"}]
      /\ inbox \in [Conns -> Seq(Messages)] /\ inbox[c] # <<>>
      /\ \A d \in Conns : conns[d] = "ready" <=> route = d
  BY <1>1 DEF Arrives, Inv, BaseInv, TypeOK, BoxesOK, RouteOK
<1>3. None \notin Conns
  BY DEF ObservatoryAssumption
<1>4. Tail(inbox[c]) \in Seq(Messages) /\ Sub(Tail(inbox[c]), inbox[c])
  BY <1>2, SubTail
<1>5. \A d \in Conns : /\ Sub(inbox[d], inbox[d]) /\ Sub(<<>>, inbox[d])
                       /\ inbox[d] \in Seq(Messages) /\ <<>> \in Seq(Messages)
  BY <1>2, SubSelf, SubEmpty, EmptySeq
<1>6. /\ inbox' \in [Conns -> Seq(Messages)]
      /\ \A d \in Conns : Sub(inbox'[d], inbox[d]) /\ (d \in stale => inbox'[d] = <<>>)
  BY <1>1, <1>4, <1>5
<1>7. /\ conns' \in [Conns -> {"closed", "open", "ready"}]
      /\ \A d \in Conns : conns'[d] = "ready" <=> route' = d
  BY <1>1, <1>2, <1>3
<1>8. stale \in SUBSET Conns /\ (route # route' => route \in stale \union {None})
  BY <1>1, <1>2
<1> HIDE DEF stale
<1> QED
  BY <1>1, <1>6, <1>7, <1>8, RejectKeeps

LEMMA LostKeeps ==
  ASSUME NEW c \in Conns, ObservatoryAssumption, Inv, Lost(c)
  PROVE  Inv'
<1>1. /\ conns' = [conns EXCEPT ![c] = "closed"] /\ inbox' = [inbox EXCEPT ![c] = <<>>]
      /\ route' = (IF route = c THEN None ELSE route)
      /\ Reject({c}, route')
      /\ UNCHANGED <<packVars, file, history>>
  BY DEF Lost
<1>2. /\ route \in Conns \union {None} /\ conns \in [Conns -> {"closed", "open", "ready"}]
      /\ inbox \in [Conns -> Seq(Messages)]
      /\ \A d \in Conns : conns[d] = "ready" <=> route = d
  BY DEF Inv, BaseInv, TypeOK, BoxesOK, RouteOK
<1>3. None \notin Conns
  BY DEF ObservatoryAssumption
<1>4. \A d \in Conns : /\ Sub(inbox[d], inbox[d]) /\ Sub(<<>>, inbox[d])
                       /\ <<>> \in Seq(Messages)
  BY <1>2, SubSelf, SubEmpty, EmptySeq
<1>5. /\ inbox' \in [Conns -> Seq(Messages)]
      /\ \A d \in Conns : Sub(inbox'[d], inbox[d]) /\ (d \in {c} => inbox'[d] = <<>>)
  BY <1>1, <1>2, <1>4
<1>6. /\ conns' \in [Conns -> {"closed", "open", "ready"}]
      /\ \A d \in Conns : conns'[d] = "ready" <=> route' = d
  BY <1>1, <1>2, <1>3
<1>7. /\ {c} \in SUBSET Conns /\ route' \in Conns \union {None}
      /\ route # route' => route \in {c} \union {None}
  BY <1>1, <1>2
<1> QED
  BY <1>1, <1>5, <1>6, <1>7, RejectKeeps

\* A step of the pack or the network, in which no caller goes on.
LEMMA NobodyMoves ==
  ASSUME ObservatoryAssumption, Inv, TypeOK', BoxesOK', RouteOK',
         UNCHANGED <<job, link, file, history>>,
         \A c \in Conns : Sub(inbox'[c], inbox[c]) /\ Sub(outbox'[c], outbox[c]),
         \A s \in Sessions : store[s] = "gone" => store'[s] = "gone",
         \A s \in Sessions : Ended(s) => Ended(s)'
  PROVE  Inv'
<1>1. /\ outbox' \in [Conns -> Seq(Requests)] /\ inbox' \in [Conns -> Seq(Messages)]
  BY DEF BoxesOK
<1>2. Flow({})
  BY <1>1 DEF Flow, Gains
<1>3. JobsOK'
  BY DEF Inv, BaseInv, JobsOK
<1>4. {} \in SUBSET Callers
  OBVIOUS
<1>5. Match' /\ One'
  BY <1>1, <1>2, <1>4, FlowKeeps DEF Inv, BaseInv
<1>6. Respects({})
  BY DEF Respects, Done, Safe, history
<1>7. SweepFit(job[Sweep])' /\ \A s \in Sessions : file'[s] # "partial"
  <2>1. job[Sweep] \in Jobs /\ JobFit(Sweep, job[Sweep])
    BY JobTypes DEF Inv, BaseInv, JobsOK, Callers
  <2>2. /\ job[Sweep].todo \subseteq Sessions
        /\ job[Sweep].op \in {"begin", "part"} => job[Sweep].sid \in Sessions
    BY <2>1 DEF Jobs, JobFit
  <2> QED
    BY <2>2 DEF Inv, WholeInv, SweepFit
<1> QED
  BY <1>2, <1>3, <1>4, <1>5, <1>6, <1>7, Flows DEF BaseInv

LEMMA DialKeeps ==
  ASSUME NEW c \in Conns, ObservatoryAssumption, Inv, Dial(c)
  PROVE  Inv'
<1> DEFINE m == [for |-> None, op |-> "ready", ok |-> TRUE, data |-> None]
<1>1. /\ conns[c] = "closed" /\ socket' = c /\ conns' = [conns EXCEPT ![c] = "open"]
      /\ inbox' = [inbox EXCEPT ![c] = <<m>>]
      /\ UNCHANGED <<store, cached, route, outbox, job, link, file, history>>
  BY DEF Dial
<1>2. /\ conns \in [Conns -> {"closed", "open", "ready"}] /\ inbox \in [Conns -> Seq(Messages)]
      /\ outbox \in [Conns -> Seq(Requests)]
      /\ \A d \in Conns : conns[d] = "ready" <=> route = d
  BY DEF Inv, BaseInv, TypeOK, BoxesOK, RouteOK
<1>3. m \in Messages
  BY DEF Messages
<1>4. <<m>> \in Seq(Messages) /\ \A d \in Conns : Sub(<<m>>, inbox[d])
  <2> HIDE DEF m
  <2>1. <<m>> \in Seq(Messages)
    BY <1>3
  <2>2. m.for = None
    BY DEF m
  <2> QED
    BY <2>1, <2>2 DEF Sub
<1> HIDE DEF m
<1>5. TypeOK'
  BY <1>1, <1>2 DEF Inv, BaseInv, TypeOK, history
<1>6. BoxesOK'
  BY <1>1, <1>2, <1>4 DEF BoxesOK
<1>7. \A d \in Conns : conns'[d] = "ready" <=> route' = d
  BY <1>1, <1>2
<1>8. RouteOK'
  BY <1>1, <1>7 DEF Inv, BaseInv, RouteOK
<1>9. \A d \in Conns : Sub(inbox'[d], inbox[d]) /\ Sub(outbox'[d], outbox[d])
  BY <1>1, <1>2, <1>4, SubSelf
<1>10. \A s \in Sessions : Ended(s) => Ended(s)'
  BY <1>1 DEF Ended
<1> QED
  BY <1>1, <1>5, <1>6, <1>8, <1>9, <1>10, NobodyMoves

LEMMA DropKeeps ==
  ASSUME ObservatoryAssumption, Inv, Drop
  PROVE  Inv'
<1>1. /\ socket' = None /\ outbox' = [outbox EXCEPT ![socket] = <<>>]
      /\ UNCHANGED <<store, cached, conns, route, inbox, job, link, file, history>>
  BY DEF Drop
<1>2. /\ inbox \in [Conns -> Seq(Messages)] /\ outbox \in [Conns -> Seq(Requests)]
      /\ <<>> \in Seq(Requests)
  BY EmptySeq DEF Inv, BaseInv, BoxesOK
<1>3. TypeOK'
  BY <1>1 DEF Inv, BaseInv, TypeOK, history
<1>4. BoxesOK'
  BY <1>1, <1>2 DEF BoxesOK
<1>5. RouteOK'
  BY <1>1 DEF Inv, BaseInv, RouteOK
<1>6. \A d \in Conns : Sub(inbox'[d], inbox[d]) /\ Sub(outbox'[d], outbox[d])
  BY <1>1, <1>2, SubSelf, SubEmpty
<1>7. \A s \in Sessions : Ended(s) => Ended(s)'
  BY <1>1 DEF Ended
<1> QED
  BY <1>1, <1>3, <1>4, <1>5, <1>6, <1>7, NobodyMoves

LEMMA RunsKeeps ==
  ASSUME NEW s \in Sessions, ObservatoryAssumption, Inv, Runs(s)
  PROVE  Inv'
<1>1. /\ \/ store[s] = "running" /\ store' = [store EXCEPT ![s] = "finished"]
         \/ store[s] = "finished" /\ store' = [store EXCEPT ![s] = "gone"]
      /\ UNCHANGED <<cached, socket, conns, route, outbox, inbox, job, link, file, history>>
  BY DEF Runs
<1>2. /\ inbox \in [Conns -> Seq(Messages)] /\ outbox \in [Conns -> Seq(Requests)]
      /\ store \in [Sessions -> {"running", "finished", "gone"}]
  BY DEF Inv, BaseInv, BoxesOK, TypeOK
<1>3. TypeOK'
  BY <1>1 DEF Inv, BaseInv, TypeOK, history
<1>4. BoxesOK'
  BY <1>1, <1>2 DEF BoxesOK
<1>5. RouteOK'
  BY <1>1 DEF Inv, BaseInv, RouteOK
<1>6. \A d \in Conns : Sub(inbox'[d], inbox[d]) /\ Sub(outbox'[d], outbox[d])
  BY <1>1, <1>2, SubSelf
<1>7. \A t \in Sessions : /\ Ended(t) => Ended(t)'
                          /\ store[t] = "gone" => store'[t] = "gone"
  BY <1>1, <1>2 DEF Ended
<1> QED
  BY <1>1, <1>3, <1>4, <1>5, <1>6, <1>7, NobodyMoves

\* The Observatory starts again.
LEMMA RestartsKeeps ==
  ASSUME ObservatoryAssumption, Inv, Restarts,
         file' \in [Sessions -> {None, "partial", "whole", "unlisted"}],
         deleted' = deleted, revived' \subseteq Sessions,
         \A s \in Sessions : file'[s] # "partial",
         \A s \in Sessions : (Wanted(s) \/ Done(s)) /\ Safe(s) => Safe(s)'
  PROVE  Inv'
<1>0. /\ Sweep \in Callers /\ None \notin Conns /\ None \notin Callers /\ None \notin Sessions
      /\ Parts \in Nat \ {0} /\ Cap \in Nat \ {0}
  BY DEF Callers, ObservatoryAssumption
<1>1. /\ conns' = [c \in Conns |-> "closed"] /\ route' = None
      /\ outbox' = [c \in Conns |-> <<>>] /\ inbox' = [c \in Conns |-> <<>>]
      /\ job' = [k \in Callers |-> Idle] /\ link' = [k \in Callers |-> None]
      /\ UNCHANGED packVars
  BY DEF Restarts
<1>2. \A k \in Callers : JobFit(k, Idle) /\ Idle \in Jobs
  BY <1>0 DEF JobFit, Idle, Jobs
<1>3. TypeOK'
  BY <1>0, <1>1, <1>2 DEF Inv, BaseInv, TypeOK, packVars
<1>4. /\ outbox' \in [Conns -> Seq(Requests)] /\ inbox' \in [Conns -> Seq(Messages)]
  <2>1. <<>> \in Seq(Requests) /\ <<>> \in Seq(Messages)
    BY EmptySeq
  <2> QED
    BY <1>1, <2>1
<1>5. JobsOK'
  BY <1>1, <1>2 DEF JobsOK
<1>6. RouteOK'
  BY <1>0, <1>1 DEF RouteOK, Idle
<1>7. Flow(Callers)
  BY <1>1, <1>4, SubEmpty DEF Flow, Gains
<1>8. BaseInv'
  <2>1. Match' /\ One'
    BY <1>4, <1>7, FlowKeeps DEF Inv, BaseInv
  <2> QED
    BY <1>3, <1>4, <1>5, <1>6, <2>1 DEF BaseInv, BoxesOK
<1>9. Respects(Callers)
  BY <1>0, <1>1 DEF Respects, Done, Downloads, Idle, packVars
<1>10. SweepFit(job[Sweep])' /\ \A s \in Sessions : Ended(s) => Ended(s)'
  BY <1>0, <1>1 DEF SweepFit, Idle, Ended, packVars
<1> QED
  BY <1>7, <1>8, <1>9, <1>10, Flows

LEMMA KilledKeeps ==
  ASSUME ObservatoryAssumption, Inv, Killed
  PROVE  Inv'
<1>1. Restarts /\ file' = file /\ deleted' = deleted /\ revived' = revived
  BY DEF Killed, history
<1>2. \A s \in Sessions : Safe(s) => Safe(s)'
  BY <1>1 DEF Safe
<1>3. /\ file \in [Sessions -> {None, "partial", "whole", "unlisted"}] /\ revived \subseteq Sessions
      /\ \A s \in Sessions : file[s] # "partial"
  BY DEF Inv, BaseInv, TypeOK, WholeInv
<1> QED
  BY <1>1, <1>2, <1>3, RestartsKeeps

LEMMA KilledSavingKeeps ==
  ASSUME NEW c \in Conns, ObservatoryAssumption, Inv, KilledSaving(c)
  PROVE  Inv'
<1>0. Sweep \in Callers /\ Sweep # None
  BY DEF Callers, ObservatoryAssumption
<1>1. /\ inbox[c] # <<>> /\ Head(inbox[c]).op = "part" /\ Head(inbox[c]).for = Sweep
      /\ Stores(Received(c, Sweep), FALSE) /\ Restarts
  BY DEF KilledSaving, Arrives
<1>2. inbox[c] \in Seq(Messages)
  BY DEF Inv, BaseInv, BoxesOK
<1>3. Head(inbox[c]) = inbox[c][1] /\ 1 \in 1..Len(inbox[c])
  BY <1>1, <1>2, SubTail
<1>4. job[Sweep].op = "part"
  BY <1>0, <1>1, <1>3 DEF Inv, BaseInv, Match, Answers
<1>5. /\ file' \in [Sessions -> {None, "partial", "whole", "unlisted"}]
      /\ deleted' = deleted /\ revived' \subseteq Sessions
      /\ \A s \in Sessions : file'[s] # "partial"
      /\ \A s \in Sessions : (Wanted(s) \/ Done(s)) /\ Safe(s) => Safe(s)'
  BY <1>1, <1>4, StoresFacts
<1> QED
  BY <1>1, <1>5, RestartsKeeps

-----------------------------------------------------------------------------
(* The pack's answers.                                                       *)

LEMMA ReplyFacts ==
  ASSUME ObservatoryAssumption, TypeOK, NEW r \in Requests
  PROVE  /\ Reply(r) \in Messages /\ Reply(r).for = r.for /\ Reply(r).op = r.op
         /\ Reply(r).ok = ~Refuses(r)
         /\ r.op = "list" => Reply(r).data = Listing
         /\ r.op = "begin" /\ Reply(r).ok => Reply(r).data = Snapshot(r.sid).bytes
         /\ r.op \in {"delete", "clear"} => Reply(r).data = Deletes(r)
<1> DEFINE m == Reply(r)
           D == {None} \union {"partial", "whole"} \union (SUBSET Sessions)
                \union [listed : SUBSET Sessions, running : SUBSET Sessions]
<1>1. r.for \in Callers \union {None} /\ r.op \in Ops
  BY DEF Requests
<1>2. m.for = r.for /\ m.op = r.op /\ m.ok = ~Refuses(r) /\ m.ok \in BOOLEAN
  BY DEF Reply
<1>3. r.op \in {"list", "delete", "clear"} => ~Refuses(r)
  BY DEF Refuses
<1>4. CASE Refuses(r)
  <2>1. m.data = None
    BY <1>4 DEF Reply
  <2>2. m = [for |-> r.for, op |-> r.op, ok |-> m.ok, data |-> None]
    BY <2>1 DEF Reply
  <2> HIDE DEF m
  <2>3. m \in Messages
    BY <1>1, <1>2, <1>3, <1>4, <2>1, <2>2 DEF Messages
  <2> QED
    BY <1>2, <1>3, <1>4, <2>3 DEF m
<1>5. CASE ~Refuses(r)
  <2>1. /\ r.op = "list" => m.data = Listing
        /\ r.op = "begin" => m.data = Snapshot(r.sid).bytes
        /\ r.op = "part" => m.data = cached.bytes
        /\ r.op \in {"delete", "clear"} => m.data = Deletes(r)
    BY <1>5 DEF Reply, Begin
  <2>2. Listing \in [listed : SUBSET Sessions, running : SUBSET Sessions]
    BY DEF Listing
  <2>3. Snapshot(r.sid).bytes \in {"partial", "whole"}
    BY DEF Snapshot
  <2>4. r.op = "part" => cached.bytes \in {"partial", "whole"}
    BY <1>5 DEF Refuses, TypeOK
  <2>5. Deletes(r) \subseteq Sessions
    BY DEF Deletes
  <2>6. m = [for |-> r.for, op |-> r.op, ok |-> m.ok, data |-> m.data]
    BY DEF Reply
  <2> HIDE DEF m
  <2>7. m.data \in D
    <3>1. CASE r.op = "list"
      <4>1. m.data = Listing
        BY <2>1, <3>1
      <4>2. Listing \in D
        BY <2>2
      <4> QED
        BY <4>1, <4>2
    <3>2. CASE r.op \in {"begin", "part"}
      BY <2>1, <2>3, <2>4, <3>2
    <3>3. CASE r.op \in {"delete", "clear"}
      BY <2>1, <2>5, <3>3
    <3> QED
      BY <1>1, <3>1, <3>2, <3>3 DEF Ops
  <2>8. m \in [for : Callers \union {None}, op : Ops \union {"ready"}, ok : BOOLEAN, data : D]
    BY <1>1, <1>2, <2>6, <2>7
  <2>9. m \in Messages
    BY <1>2, <2>1, <2>2, <2>3, <2>5, <2>8 DEF Messages
  <2> QED
    BY <1>2, <2>1, <2>9 DEF m
<1> QED
  BY <1>4, <1>5

LEMMA HandleKeeps ==
  ASSUME NEW c \in Conns, ObservatoryAssumption, Inv, Handle(c)
  PROVE  Inv'
<1> DEFINE r == Head(outbox[c])
           m == Reply(r)
           q == outbox[c]
           k == r.for
<1>0. /\ None \notin Callers /\ Sweep \in Callers /\ None \notin Conns /\ Sweep # None
  BY DEF Callers, ObservatoryAssumption
<1>1. /\ q # <<>>
      /\ store' = [s \in Sessions |-> IF s \in Deletes(r) THEN "gone" ELSE store[s]]
      /\ cached' = IF r.op = "begin" /\ ~Refuses(r) THEN Begin(r.sid) ELSE cached
      /\ \/ k # None /\ inbox' = [inbox EXCEPT ![c] = Append(@, m)]
         \/ inbox' = inbox
      /\ outbox' = [outbox EXCEPT ![c] = Tail(q)]
      /\ UNCHANGED <<socket, conns, route, job, link, file, history>>
  BY DEF Handle
<1>2. /\ outbox \in [Conns -> Seq(Requests)] /\ inbox \in [Conns -> Seq(Messages)]
      /\ q \in Seq(Requests) /\ inbox[c] \in Seq(Messages)
      /\ store \in [Sessions -> {"running", "finished", "gone"}] /\ TypeOK
  BY DEF Inv, BaseInv, BoxesOK, TypeOK
<1>3. /\ Tail(q) \in Seq(Requests) /\ r \in Requests /\ r = q[1] /\ 1 \in 1..Len(q)
      /\ \A i \in 1..Len(Tail(q)) : Tail(q)[i] = q[i + 1] /\ i + 1 \in 1..Len(q)
      /\ Sub(Tail(q), q)
  <2>1. outbox[c] \in Seq(Requests) /\ outbox[c] # <<>>
    BY <1>1, <1>2
  <2> QED
    BY <2>1, SubTail
<1>4. /\ m \in Messages /\ m.for = k /\ m.op = r.op /\ m.ok = ~Refuses(r)
      /\ r.op = "list" => m.data = Listing
      /\ r.op = "begin" /\ m.ok => m.data = Snapshot(r.sid).bytes
      /\ r.op \in {"delete", "clear"} => m.data = Deletes(r)
  BY <1>2, <1>3, ReplyFacts
<1> HIDE DEF m, r
<1>5. TypeOK'
  <2>1. store' \in [Sessions -> {"running", "finished", "gone"}]
    BY <1>1, <1>2
  <2>2. r.op = "begin" => Begin(r.sid) \in [sid : Sessions, bytes : {"partial", "whole"}]
    BY <1>3 DEF Begin, Snapshot, Requests
  <2>3. cached' \in [sid : Sessions, bytes : {"partial", "whole"}] \union {None}
    BY <1>1, <1>2, <2>2 DEF TypeOK
  <2> QED
    BY <1>1, <1>2, <2>1, <2>3 DEF TypeOK, history
<1>6. /\ Append(inbox[c], m) \in Seq(Messages) /\ Len(inbox[c]) \in Nat
      /\ Len(Append(inbox[c], m)) = Len(inbox[c]) + 1
      /\ Append(inbox[c], m)[Len(inbox[c]) + 1] = m
      /\ \A n \in 1..Len(inbox[c]) : Append(inbox[c], m)[n] = inbox[c][n]
  BY <1>2, <1>4, AppendProperties, LenProperties
<1>7. BoxesOK'
  <2>1. inbox' \in [Conns -> Seq(Messages)]
    BY <1>1, <1>2, <1>6
  <2>2. outbox' \in [Conns -> Seq(Requests)]
    BY <1>1, <1>2, <1>3
  <2> QED
    BY <2>1, <2>2 DEF BoxesOK
<1>8. RouteOK' /\ JobsOK'
  BY <1>1 DEF Inv, BaseInv, RouteOK, JobsOK
<1>9. \A s \in Sessions : /\ store[s] = "gone" => store'[s] = "gone"
                          /\ s \in Deletes(r) => store'[s] = "gone"
  BY <1>1, <1>2
<1>10. \A s \in Sessions : Ended(s) => Ended(s)'
  BY <1>1, <1>2 DEF Ended
<1>11. outbox'[c] = Tail(q) /\ \A d \in Conns \ {c} : outbox'[d] = outbox[d]
  BY <1>1, <1>2
<1>12. \A d \in Conns : Sub(outbox'[d], outbox[d])
  BY <1>2, <1>3, <1>11, SubSelf
<1>13. CASE inbox' = inbox
  <2>1. \A d \in Conns : Sub(inbox'[d], inbox[d])
    BY <1>2, <1>13, SubSelf
  <2> QED
    BY <1>1, <1>5, <1>7, <1>8, <1>9, <1>10, <1>12, <2>1, NobodyMoves
<1>14. CASE k # None /\ inbox' = [inbox EXCEPT ![c] = Append(@, m)]
  <2>1. k \in Callers
    BY <1>3, <1>14 DEF Requests
  <2>2. inbox'[c] = Append(inbox[c], m) /\ \A d \in Conns \ {c} : inbox'[d] = inbox[d]
    BY <1>2, <1>14
  <2>3. link[k] = c /\ r.op = job[k].op /\ r.sid = job[k].sid
    BY <1>3, <1>14 DEF Inv, BaseInv, Match, Asks
  <2>4. link[k] = route
    BY <1>0, <2>1, <2>3 DEF Inv, BaseInv, RouteOK
  <2>5. Gone(Tail(q), k)
    <3> SUFFICES ASSUME NEW i \in 1..Len(Tail(q)), Tail(q)[i].for = k PROVE FALSE
      BY DEF Gone
    <3>1. i + 1 \in 1..Len(q) /\ q[i + 1].for = q[1].for /\ q[1].for # None
      BY <1>3, <1>14
    <3>2. i + 1 = 1
      BY <1>3, <3>1 DEF Inv, BaseInv, One, Sole
    <3> QED
      BY <3>2
  <2>6. Gone(inbox[c], k)
    BY <1>3, <1>14 DEF Inv, BaseInv, One, Apart, Gone
  \* What is in a box afterwards, was in it before, or is the answer.
  <2>7. ASSUME NEW d \in Conns, NEW i \in 1..Len(outbox'[d])
        PROVE  \E a \in 1..Len(outbox[d]) :
                 outbox'[d][i] = outbox[d][a] /\ a = (IF d = c THEN i + 1 ELSE i)
    BY <1>3, <1>11
  <2>8. ASSUME NEW d \in Conns, NEW n \in 1..Len(inbox'[d])
        PROVE  \/ n \in 1..Len(inbox[d]) /\ inbox'[d][n] = inbox[d][n]
               \/ d = c /\ n = Len(inbox[c]) + 1 /\ inbox'[d][n] = m
    BY <1>6, <2>2
  <2>9. Match'
    <3>1. ASSUME NEW d \in Conns PROVE Asks(d)'
      <4> SUFFICES ASSUME NEW i \in 1..Len(outbox'[d]), outbox'[d][i].for # None
                   PROVE  /\ link'[outbox'[d][i].for] = d
                          /\ outbox'[d][i].op = job'[outbox'[d][i].for].op
                          /\ outbox'[d][i].sid = job'[outbox'[d][i].for].sid
        BY DEF Asks
      <4>1. PICK a \in 1..Len(outbox[d]) : outbox'[d][i] = outbox[d][a]
        BY <2>7
      <4> QED
        BY <1>1, <4>1 DEF Inv, BaseInv, Match, Asks
    <3>2. ASSUME NEW d \in Conns PROVE Answers(d)'
      <4> SUFFICES ASSUME NEW n \in 1..Len(inbox'[d]), inbox'[d][n].for # None
                   PROVE  /\ link'[inbox'[d][n].for] = d
                          /\ inbox'[d][n].op = job'[inbox'[d][n].for].op
        BY DEF Answers
      <4>1. CASE n \in 1..Len(inbox[d]) /\ inbox'[d][n] = inbox[d][n]
        BY <1>1, <4>1 DEF Inv, BaseInv, Match, Answers
      <4>2. CASE d = c /\ inbox'[d][n] = m
        BY <1>1, <1>4, <2>3, <4>2
      <4> QED
        BY <2>8, <4>1, <4>2
    <3> QED
      BY <3>1, <3>2 DEF Match
  <2>10. One'
    <3>1. ASSUME NEW d \in Conns PROVE Sole(outbox'[d])
      <4> SUFFICES ASSUME NEW i \in 1..Len(outbox'[d]), NEW j \in 1..Len(outbox'[d]),
                          outbox'[d][i].for = outbox'[d][j].for, outbox'[d][i].for # None
                   PROVE  i = j
        BY DEF Sole
      <4>1. PICK a \in 1..Len(outbox[d]) :
              outbox'[d][i] = outbox[d][a] /\ a = (IF d = c THEN i + 1 ELSE i)
        BY <2>7
      <4>2. PICK b \in 1..Len(outbox[d]) :
              outbox'[d][j] = outbox[d][b] /\ b = (IF d = c THEN j + 1 ELSE j)
        BY <2>7
      <4>3. a = b
        BY <4>1, <4>2 DEF Inv, BaseInv, One, Sole
      <4>4. Len(outbox'[d]) \in Nat
        BY <1>7, LenProperties DEF BoxesOK
      <4> QED
        BY <4>1, <4>2, <4>3, <4>4
    <3>2. ASSUME NEW d \in Conns PROVE Sole(inbox'[d])
      <4> SUFFICES ASSUME NEW i \in 1..Len(inbox'[d]), NEW j \in 1..Len(inbox'[d]),
                          inbox'[d][i].for = inbox'[d][j].for, inbox'[d][i].for # None
                   PROVE  i = j
        BY DEF Sole
      <4>1. ASSUME NEW x \in 1..Len(inbox[d]), inbox'[d][x] = inbox[d][x], inbox[d][x].for = m.for, d = c
            PROVE  FALSE
        BY <1>4, <2>6, <4>1 DEF Gone
      <4>2. CASE /\ i \in 1..Len(inbox[d]) /\ inbox'[d][i] = inbox[d][i]
                 /\ j \in 1..Len(inbox[d]) /\ inbox'[d][j] = inbox[d][j]
        BY <4>2 DEF Inv, BaseInv, One, Sole
      <4> QED
        BY <2>8, <4>1, <4>2
    <3>3. ASSUME NEW d \in Conns PROVE Apart(outbox'[d], inbox'[d])
      <4> SUFFICES ASSUME NEW i \in 1..Len(outbox'[d]), NEW j \in 1..Len(inbox'[d]),
                          outbox'[d][i].for = inbox'[d][j].for, outbox'[d][i].for # None
                   PROVE  FALSE
        BY DEF Apart
      <4>1. PICK a \in 1..Len(outbox[d]) : outbox'[d][i] = outbox[d][a]
        BY <2>7
      <4>2. CASE j \in 1..Len(inbox[d]) /\ inbox'[d][j] = inbox[d][j]
        BY <4>1, <4>2 DEF Inv, BaseInv, One, Apart
      <4>3. CASE d = c /\ inbox'[d][j] = m
        BY <1>4, <1>11, <2>5, <4>3 DEF Gone
      <4> QED
        BY <2>8, <4>2, <4>3
    <3> QED
      BY <3>1, <3>2, <3>3 DEF One
  <2>11. BaseInv'
    BY <1>5, <1>7, <1>8, <2>9, <2>10 DEF BaseInv
  <2>12. WholeInv'
    <3>1. job[Sweep] \in Jobs /\ JobFit(Sweep, job[Sweep])
      BY <1>0, JobTypes DEF Inv, BaseInv, JobsOK
    <3>2. SweepFit(job[Sweep])'
      <4>1. /\ job[Sweep].todo \subseteq Sessions
            /\ job[Sweep].op \in {"begin", "part"} => job[Sweep].sid \in Sessions
        BY <3>1 DEF Jobs, JobFit
      <4>2. SweepFit(job[Sweep]) /\ job' = job
        BY <1>1 DEF Inv, WholeInv
      <4> QED
        BY <1>10, <4>1, <4>2 DEF SweepFit
    <3>3. ASSUME NEW d \in Conns, NEW n \in 1..Len(inbox'[d]), inbox'[d][n].for = Sweep
          PROVE  Brings(inbox[d][n])'
      <4>1. CASE n \in 1..Len(inbox[d]) /\ inbox'[d][n] = inbox[d][n]
        <5>1. Brings(inbox[d][n])
          BY <3>3, <4>1 DEF Inv, WholeInv
        <5>2. inbox[d][n] \in Messages
          BY <1>2, <4>1, ElementOfSeq
        <5>3. inbox[d][n].op = "list" => inbox[d][n].data.listed \subseteq Sessions
          BY <5>2 DEF Messages
        <5> QED
          BY <1>10, <4>1, <5>1, <5>3 DEF Brings
      <4>2. CASE d = c /\ inbox'[d][n] = m
        <5>1. k = Sweep
          BY <1>4, <3>3, <4>2
        <5>2. ASSUME m.op = "list", NEW s \in m.data.listed \ m.data.running
              PROVE  Ended(s)'
          <6>1. s \in Sessions /\ store[s] # "running"
            BY <1>4, <5>2 DEF Listing
          <6> QED
            BY <1>10, <6>1 DEF Ended
        <5>3. ASSUME m.op = "begin", m.ok PROVE m.data = "whole"
          <6>1. ~Refuses(r) /\ m.data = Snapshot(r.sid).bytes /\ r.sid \in Sessions
            BY <1>3, <1>4, <5>3 DEF Requests
          <6>2. store[r.sid] # "gone"
            BY <1>4, <5>3, <6>1 DEF Refuses
          <6>3. store[r.sid] # "running"
            BY <1>4, <2>3, <5>1, <5>3 DEF Inv, WholeInv, SweepFit, Ended
          <6>4. store[r.sid] = "finished"
            BY <1>2, <6>1, <6>2, <6>3
          <6> QED
            BY <6>1, <6>4 DEF Snapshot
        <5> QED
          BY <4>2, <5>2, <5>3 DEF Brings
      <4> QED
        BY <2>8, <4>1, <4>2
    <3> QED
      BY <1>1, <3>2, <3>3 DEF Inv, WholeInv
  <2>13. \A s \in Sessions : (Safe(s) => Safe(s)') /\ (Downloads(s)' => Downloads(s))
    BY <1>1 DEF Safe, Downloads, history
  <2>14. Asked'
    <3> SUFFICES ASSUME NEW s \in Sessions, NEW d \in Conns, NEW i \in 1..Len(outbox'[d]),
                        outbox'[d][i].for # None, Target(outbox'[d][i], s)
                 PROVE  Safe(s)' /\ (Downloads(s)' => Behind(d, i)')
      BY DEF Asked, Wants
    <3>1. PICK a \in 1..Len(outbox[d]) :
            outbox'[d][i] = outbox[d][a] /\ a = (IF d = c THEN i + 1 ELSE i)
      BY <2>7
    <3>2. Safe(s) /\ (Downloads(s) => Behind(d, a))
      BY <3>1 DEF Inv, DeleteInv, Asked, Wants
    <3>3. Len(outbox'[d]) \in Nat
      BY <1>7, LenProperties DEF BoxesOK
    <3>4. ASSUME Downloads(s)' PROVE Behind(d, i)'
      <4>1. Behind(d, a)
        BY <2>13, <3>2, <3>4
      \* It waits on the same connection, and so the answer is not for the sweep.
      <4>2. d = c
        <5> DEFINE h == outbox[d][a].for
        <5>1. link[h] = d /\ h # None
          BY <3>1 DEF Inv, BaseInv, Match, Asks
        <5>2. h \in Callers
          BY <1>2, <3>1, <5>1, ElementOfSeq DEF Requests
        <5>3. link[h] = route
          BY <1>0, <5>1, <5>2 DEF Inv, BaseInv, RouteOK
        <5> QED
          BY <2>3, <2>4, <5>1, <5>3
      <4>3. k # Sweep
        <5> SUFFICES ASSUME k = Sweep PROVE FALSE
          OBVIOUS
        <5>1. a < 1
          BY <1>3, <4>1, <4>2 DEF Behind
        <5> QED
          BY <3>1, <4>2, <5>1
      <4>4. job'[Sweep].op = "begin"
        BY <1>1, <4>1 DEF Behind
      <4>5. ASSUME NEW e \in Conns PROVE Gone(inbox'[e], Sweep)
        <5> SUFFICES ASSUME NEW n \in 1..Len(inbox'[e]), inbox'[e][n].for = Sweep PROVE FALSE
          BY DEF Gone
        <5>1. ~(inbox'[e][n] = m)
          BY <1>4, <4>3
        <5>2. n \in 1..Len(inbox[e]) /\ inbox'[e][n] = inbox[e][n]
          BY <2>8, <5>1
        <5> QED
          BY <4>1, <5>2 DEF Behind, Gone
      <4>6. ASSUME NEW n \in 1..Len(outbox'[d]), outbox'[d][n].for = Sweep PROVE i < n
        <5>1. PICK b \in 1..Len(outbox[d]) :
                outbox'[d][n] = outbox[d][b] /\ b = (IF d = c THEN n + 1 ELSE n)
          BY <2>7
        <5>2. a < b
          BY <4>1, <4>6, <5>1 DEF Behind
        <5> QED
          BY <3>1, <3>3, <4>2, <5>1, <5>2
      <4> QED
        BY <4>4, <4>5, <4>6 DEF Behind
    <3> QED
      BY <2>13, <3>2, <3>4
  <2>15. Carried'
    <3> SUFFICES ASSUME NEW s \in Sessions, Done(s)'
                 PROVE  /\ store'[s] = "gone" /\ Safe(s)'
                        /\ Downloads(s)' => InVain'
      BY DEF Carried
    \* The answer says what the deletion did, which somebody waited for.
    <3>1. ASSUME Says(m, s)
          PROVE  s \in Deletes(r) /\ Wants(c, 1, s)
      <4>1. r.op \in {"delete", "clear"} /\ s \in Deletes(r)
        BY <1>4, <3>1 DEF Says
      <4>2. Target(r, s)
        BY <4>1 DEF Deletes, Target
      <4> QED
        BY <1>3, <1>14, <4>1, <4>2 DEF Wants
    <3>2. Done(s) \/ Says(m, s)
      <4>1. CASE s \in deleted'
        BY <1>1, <4>1 DEF Done, history
      <4>2. CASE \E d \in Conns : \E n \in 1..Len(inbox'[d]) : Says(inbox'[d][n], s)
        <5>1. PICK d \in Conns : \E n \in 1..Len(inbox'[d]) : Says(inbox'[d][n], s)
          BY <4>2
        <5>2. PICK n \in 1..Len(inbox'[d]) : Says(inbox'[d][n], s)
          BY <5>1
        <5> QED
          BY <2>8, <5>2 DEF Done
      <4> QED
        BY <4>1, <4>2 DEF Done
    <3>3. store'[s] = "gone" /\ Safe(s)'
      <4>1. ASSUME Done(s) PROVE store'[s] = "gone" /\ Safe(s)
        <5>1. store[s] = "gone" /\ Safe(s)
          BY <4>1 DEF Inv, DeleteInv, Carried
        <5>2. store'[s] = "gone"
          BY <1>9, <5>1
        <5> QED
          BY <5>1, <5>2
      <4>2. ASSUME Says(m, s) PROVE store'[s] = "gone" /\ Safe(s)
        <5>1. Safe(s)
          BY <1>3, <3>1, <4>2 DEF Inv, DeleteInv, Asked
        <5>2. s \in Deletes(r)
          BY <3>1, <4>2
        <5>3. store'[s] = "gone"
          BY <1>9, <5>2
        <5> QED
          BY <5>1, <5>3
      <4>3. store'[s] = "gone" /\ Safe(s)
        BY <3>2, <4>1, <4>2
      <4> QED
        BY <2>13, <4>3
    <3>4. ASSUME Downloads(s)' PROVE InVain'
      <4>1. Downloads(s)
        BY <2>13, <3>4
      <4>2. Done(s) \/ Wanted(s)
        BY <1>3, <3>1, <3>2 DEF Wanted
      <4>3. InVain
        BY <4>1, <4>2, SweepKnows DEF Inv
      <4>4. ASSUME k = Sweep PROVE ~m.ok
        <5>1. r.op = "begin" /\ r.sid = s
          BY <2>3, <4>1, <4>3, <4>4 DEF InVain, Downloads
        <5>2. CASE Done(s)
          <6>1. store[s] = "gone"
            BY <5>2 DEF Inv, DeleteInv, Carried
          <6> QED
            BY <1>4, <5>1, <6>1 DEF Refuses
        <5>3. CASE Says(m, s)
          BY <1>4, <5>1, <5>3 DEF Says
        <5> QED
          BY <3>2, <5>2, <5>3
      <4>5. ASSUME NEW d \in Conns, NEW n \in 1..Len(inbox'[d]), inbox'[d][n].for = Sweep
            PROVE  ~inbox'[d][n].ok
        <5>1. CASE n \in 1..Len(inbox[d]) /\ inbox'[d][n] = inbox[d][n]
          BY <4>3, <4>5, <5>1 DEF InVain
        <5>2. CASE inbox'[d][n] = m
          BY <1>4, <4>4, <4>5, <5>2
        <5> QED
          BY <2>8, <5>1, <5>2
      <4> QED
        BY <1>1, <4>3, <4>5 DEF InVain
    <3> QED
      BY <3>3, <3>4
  <2> QED
    BY <2>11, <2>12, <2>14, <2>15 DEF Inv, DeleteInv
<1> QED
  BY <1>1, <1>13, <1>14

-----------------------------------------------------------------------------
(* The invariant holds, and what follows from it.                            *)

LEMMA InvInit ==
  ASSUME ObservatoryAssumption, Init
  PROVE  Inv
<1>0. /\ Sweep \in Callers /\ None \notin Conns /\ None \notin Callers /\ None \notin Sessions
      /\ Parts \in Nat \ {0} /\ Cap \in Nat \ {0} /\ None # "partial"
  BY DEF Callers, ObservatoryAssumption
<1>1. /\ store \in [Sessions -> {"running", "finished"}] /\ cached = None /\ socket = None
      /\ conns = [c \in Conns |-> "closed"] /\ route = None
      /\ outbox = [c \in Conns |-> <<>>] /\ inbox = [c \in Conns |-> <<>>]
      /\ job = [k \in Callers |-> Idle] /\ link = [k \in Callers |-> None]
      /\ file = [s \in Sessions |-> None] /\ deleted = {} /\ revived = {}
  BY DEF Init
<1>2. \A k \in Callers : JobFit(k, Idle) /\ Idle \in Jobs
  BY <1>0 DEF JobFit, Idle, Jobs
<1>3. TypeOK
  BY <1>1, <1>2 DEF TypeOK
<1>4. BoxesOK
  <2>1. <<>> \in Seq(Requests) /\ <<>> \in Seq(Messages)
    BY EmptySeq
  <2> QED
    BY <1>1, <2>1 DEF BoxesOK
<1>5. JobsOK /\ RouteOK
  BY <1>0, <1>1, <1>2 DEF JobsOK, RouteOK, Idle
<1>6. Match /\ One
  BY <1>1 DEF Match, Asks, Answers, One, Sole, Apart
<1>7. WholeInv
  BY <1>0, <1>1 DEF WholeInv, SweepFit, Idle
<1>8. Asked
  BY <1>1 DEF Asked
<1>9. Carried
  BY <1>1 DEF Carried, Done
<1> QED
  BY <1>3, <1>4, <1>5, <1>6, <1>7, <1>8, <1>9 DEF Inv, BaseInv, DeleteInv

LEMMA InvStutters ==
  ASSUME Inv, UNCHANGED vars
  PROVE  Inv'
<1> USE DEF vars, packVars, history
<1>1. TypeOK' /\ BoxesOK' /\ JobsOK' /\ RouteOK'
  BY DEF Inv, BaseInv, TypeOK, BoxesOK, JobsOK, RouteOK
<1>2. Match' /\ One'
  BY DEF Inv, BaseInv, Match, Asks, Answers, One, Sole, Apart
<1>3. WholeInv'
  BY DEF Inv, WholeInv, SweepFit, Ended, Brings
<1>4. Asked'
  BY DEF Inv, DeleteInv, Asked, Wants, Safe, Downloads, Behind, Gone
<1>5. Carried'
  BY DEF Inv, DeleteInv, Carried, Done, Safe, Downloads, InVain
<1> QED
  BY <1>1, <1>2, <1>3, <1>4, <1>5 DEF Inv, BaseInv, DeleteInv

LEMMA ReceiveKeeps ==
  ASSUME NEW c \in Conns, ObservatoryAssumption, Inv, Receive(c)
  PROVE  Inv'
<1>1. CASE Ready(c)
  BY <1>1, ReadyKeeps
<1>2. CASE Listed(c)
  BY <1>2, ListedKeeps
<1>3. CASE Save(c)
  BY <1>3, SaveKeeps
<1>4. ASSUME NEW k \in Callers, Refused(c, k) \/ Begun(c, k) \/ GotPart(c, k) \/ Ends(c, k)
      PROVE  Inv'
  BY <1>4, RefusedKeeps, BegunKeeps, GotPartKeeps, EndsKeeps
<1>5. ASSUME NEW u \in Users, Confirmed(c, u)
      PROVE  Inv'
  BY <1>5, ConfirmedKeeps
<1> QED
  BY <1>1, <1>2, <1>3, <1>4, <1>5 DEF Receive

LEMMA DeleteKeeps ==
  ASSUME NEW u \in Users, NEW s \in Sessions, ObservatoryAssumption, Inv, Delete(u, s)
  PROVE  Inv'
<1>1. Tells(u, "delete", s, {s}) /\ file' = Without({s})
  BY DEF Delete
<1> QED
  BY <1>1, TellsKeeps

LEMMA ClearKeeps ==
  ASSUME NEW u \in Users, ObservatoryAssumption, Inv, Clear(u)
  PROVE  Inv'
<1>1. Tells(u, "clear", None, Sessions) /\ file' = Without(Sessions)
  BY DEF Clear
<1> QED
  BY <1>1, TellsKeeps

LEMMA InvNext ==
  ASSUME ObservatoryAssumption, Inv, [Next]_vars
  PROVE  Inv'
<1>1. ASSUME NEW s \in Sessions, Runs(s)
      PROVE  Inv'
  BY <1>1, RunsKeeps
<1>2. CASE Drop
  BY <1>2, DropKeeps
<1>3. ASSUME NEW c \in Conns,
             Dial(c) \/ Handle(c) \/ Lost(c) \/ Receive(c) \/ KilledSaving(c)
      PROVE  Inv'
  BY <1>3, DialKeeps, HandleKeeps, LostKeeps, ReceiveKeeps, KilledSavingKeeps
<1>4. ASSUME NEW k \in Callers, Timeout(k)
      PROVE  Inv'
  BY <1>4, TimeoutKeeps
<1>5. CASE SweepBegins
  BY <1>5, SweepBeginsKeeps
<1>6. ASSUME NEW u \in Users, NEW s \in Sessions, Download(u, s) \/ Delete(u, s)
      PROVE  Inv'
  BY <1>6, DownloadKeeps, DeleteKeeps
<1>7. ASSUME NEW u \in Users, Clear(u)
      PROVE  Inv'
  BY <1>7, ClearKeeps
<1>8. CASE Killed
  BY <1>8, KilledKeeps
<1>9. CASE UNCHANGED vars
  BY <1>9, InvStutters
<1> QED
  BY <1>1, <1>2, <1>3, <1>4, <1>5, <1>6, <1>7, <1>8, <1>9 DEF Next

THEOREM InvHolds == ObservatoryAssumption => (Spec => []Inv)
<1> SUFFICES ASSUME ObservatoryAssumption
             PROVE  Spec => []Inv
  OBVIOUS
<1>1. Init => Inv
  BY InvInit
<1>2. Inv /\ [Next]_vars => Inv'
  BY InvNext
<1> QED
  BY <1>1, <1>2, PTL DEF Spec

(* However the two ends lose the connection, a handshake replaces a stale    *)
(* socket, and requests time out while they are under way: whoever waits,    *)
(* waits on the one connection that is found (net.ts).                       *)
THEOREM RequestsFollowTheRoute == Spec => []RoutesAgree
<1>1. Inv => RoutesAgree
  <2> SUFFICES ASSUME Inv PROVE RoutesAgree
    OBVIOUS
  <2>1. TypeOK /\ \A c \in Conns : conns[c] = "ready" <=> route = c
    BY DEF Inv, BaseInv, RouteOK
  <2>2. ASSUME NEW k \in Callers
        PROVE  IF job[k] = Idle THEN link[k] = None ELSE link[k] # None /\ link[k] = route
    <3>1. job[k].op = "idle" <=> job[k] = Idle
      <4>1. Idle.op = "idle" /\ JobFit(k, job[k])
        BY DEF Idle, Inv, BaseInv, JobsOK
      <4> QED
        BY <4>1 DEF JobFit
    <3> QED
      BY <3>1 DEF Inv, BaseInv, RouteOK
  <2> QED
    BY <2>1, <2>2 DEF RoutesAgree
<1> QED
  BY <1>1, InvHolds, ObservatoryAssumption, PTL

(* No sweep archives the snapshot of a session that still runs, whatever     *)
(* other downloads do to the one snapshot of the pack (archive.ts).          *)
THEOREM OnlyWholeTracesAreKept == Spec => []ArchiveIsWhole
<1>1. Inv => ArchiveIsWhole
  BY DEF Inv, WholeInv, ArchiveIsWhole
<1> QED
  BY <1>1, InvHolds, ObservatoryAssumption, PTL

(* What the workbench deleted, and the pack confirmed, never comes back, but *)
(* by a sweep that was downloading it when the deletion began (app.ts).      *)
THEOREM DeletionsLast == Spec => []DeletedIsGone
<1>1. Inv => DeletedIsGone
  BY DEF Inv, BaseInv, TypeOK, DeleteInv, Carried, Done, Safe, DeletedIsGone
<1> QED
  BY <1>1, InvHolds, ObservatoryAssumption, PTL
=============================================================================
