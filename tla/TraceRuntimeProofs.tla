------------------------- MODULE TraceRuntimeProofs -------------------------
(* The runtime of the trace package: its manager, its bridge and its store,  *)
(* for any games, sinks, sockets, sessions and bounds.                       *)
EXTENDS MCTraceRuntime, SequenceLemmas, FiniteSetTheorems

-----------------------------------------------------------------------------
(* The manager.                                                              *)

ManagerTypes ==
  /\ sessions \in [Games -> M!Sessions \union {None}]
  /\ counter \in 0..MaxBegun
  /\ given \in [M!Sessions -> SUBSET M!Sinks]
  /\ calls \in [M!Sessions -> Nat] /\ pending \in [M!Sessions -> Nat]
  /\ heard \in [M!Sessions -> [M!Sinks -> Nat]]
  /\ completed \subseteq 1..counter

\* A game has a session of its own, begun before; who has not begun has called nobody.
SessionsApart ==
  /\ \A g \in Games : sessions[g] # None => sessions[g] \in 1..counter
  /\ \A g, h \in Games : sessions[g] = sessions[h] /\ sessions[g] # None => g = h
  /\ \A s \in M!Sessions : s > counter => calls[s] = 0 /\ given[s] = {}

HeardIn(s) == \A k \in M!Sinks : heard[s][k] = IF k \in given[s] THEN calls[s] ELSE 0

ManagerInv ==
  /\ ManagerTypes /\ SessionsApart
  /\ \A s \in M!Sessions : HeardIn(s)
  /\ M!HeedsWhileRunning /\ M!NothingIsRetained

\* Whatever its three cases are for, it is with the bound source while a session runs.
LEMMA RefreshIs ==
  ASSUME NEW running, NEW source, NEW with
  PROVE  M!Refresh(running, source, with) = IF running = {} THEN None ELSE source
BY DEF M!Refresh

LEMMA RunningBegan ==
  ASSUME ManagerInv
  PROVE  /\ M!Running \subseteq 1..counter /\ M!Running \subseteq M!Sessions
         /\ 1..counter \subseteq M!Sessions
BY RuntimeAssumption
   DEF ManagerInv, ManagerTypes, SessionsApart, M!Running, M!Sessions, M!ManagerAssumption

\* A call of the sinks S by the session s, which was given just these.
LEMMA CallIsHeard ==
  ASSUME ManagerInv, NEW s \in M!Sessions, NEW S \in SUBSET M!Sinks, M!CallSinks(s, S),
         given' \in [M!Sessions -> SUBSET M!Sinks], given'[s] = S,
         \A t \in M!Sessions : t # s => given'[t] = given[t],
         calls[s] = 0 \/ given[s] = S
  PROVE  /\ calls' \in [M!Sessions -> Nat] /\ pending' \in [M!Sessions -> Nat]
         /\ heard' \in [M!Sessions -> [M!Sinks -> Nat]]
         /\ \A t \in M!Sessions : HeardIn(t)'
         /\ \A t \in M!Sessions : t # s => calls'[t] = calls[t] /\ pending'[t] = pending[t]
<1>1. PICK outcome \in M!Outcomes :
        /\ calls' = [calls EXCEPT ![s] = @ + 1]
        /\ heard' = [heard EXCEPT ![s] =
                       [k \in M!Sinks |-> IF k \in M!Dispatch(S, outcome) THEN @[k] + 1 ELSE @[k]]]
        /\ pending' = [pending EXCEPT ![s] =
                         IF \E k \in S : outcome[k] = "promises" THEN @ + 1 ELSE @]
  BY DEF M!CallSinks
<1>2. /\ calls \in [M!Sessions -> Nat] /\ pending \in [M!Sessions -> Nat]
      /\ heard \in [M!Sessions -> [M!Sinks -> Nat]]
  BY DEF ManagerInv, ManagerTypes
<1>3. /\ calls' \in [M!Sessions -> Nat] /\ pending' \in [M!Sessions -> Nat]
      /\ calls'[s] = calls[s] + 1
      /\ \A t \in M!Sessions : t # s => calls'[t] = calls[t] /\ pending'[t] = pending[t]
  BY <1>1, <1>2
<1>4. heard' = [heard EXCEPT ![s] = [k \in M!Sinks |-> IF k \in S THEN @[k] + 1 ELSE @[k]]]
  BY <1>1 DEF M!Dispatch
<1>5. /\ heard' \in [M!Sessions -> [M!Sinks -> Nat]]
      /\ \A k \in M!Sinks : heard'[s][k] = IF k \in S THEN heard[s][k] + 1 ELSE heard[s][k]
      /\ \A t \in M!Sessions : t # s => heard'[t] = heard[t]
  BY <1>2, <1>4
<1>6. ASSUME NEW t \in M!Sessions, t # s
      PROVE  HeardIn(t)'
  BY <1>3, <1>5, <1>6 DEF ManagerInv, HeardIn
<1>7. HeardIn(s)'
  <2>1. HeardIn(s)
    BY DEF ManagerInv
  <2>2. ASSUME NEW k \in M!Sinks
        PROVE  heard'[s][k] = IF k \in given'[s] THEN calls'[s] ELSE 0
    <3>1. /\ heard[s][k] \in Nat /\ calls[s] \in Nat
          /\ heard[s][k] = IF k \in given[s] THEN calls[s] ELSE 0
      BY <1>2, <2>1 DEF HeardIn
    <3>2. heard'[s][k] = IF k \in S THEN heard[s][k] + 1 ELSE heard[s][k]
      BY <1>5
    <3>3. CASE calls[s] = 0
      BY <1>3, <3>1, <3>2, <3>3
    <3>4. CASE given[s] = S
      BY <1>3, <3>1, <3>2, <3>4
    <3> QED BY <3>3, <3>4
  <2> QED BY <2>2 DEF HeardIn
<1> QED BY <1>3, <1>5, <1>6, <1>7

LEMMA BeginKeeps ==
  ASSUME ManagerInv, NEW g \in Games, M!BeginSession(g)
  PROVE  ManagerInv'
<1> DEFINE s == counter + 1
<1>1. /\ sessions[g] = None /\ counter < MaxBegun /\ counter' = s
      /\ sessions' = [sessions EXCEPT ![g] = s]
      /\ given' = [given EXCEPT ![s] = M!SessionSinks]
      /\ M!CallSinks(s, M!SessionSinks)
      /\ heeding' = M!Refresh(M!Running \union {s}, feed, heeding)
      /\ UNCHANGED <<feed, completed>>
  BY DEF M!BeginSession
<1>2. /\ ManagerTypes /\ SessionsApart /\ MaxBegun \in Nat /\ None \notin Nat
      /\ M!Running \subseteq 1..counter
  BY RuntimeAssumption, RunningBegan DEF ManagerInv, M!ManagerAssumption
<1>3. s \in M!Sessions /\ s > counter /\ s \in Nat /\ s \notin 1..counter
  BY <1>1, <1>2 DEF M!Sessions, ManagerTypes
<1>4. M!SessionSinks \in SUBSET M!Sinks
  BY DEF M!SessionSinks, M!Sinks
<1>5. /\ given' \in [M!Sessions -> SUBSET M!Sinks] /\ given'[s] = M!SessionSinks
      /\ \A t \in M!Sessions : t # s => given'[t] = given[t]
  BY <1>1, <1>2, <1>3, <1>4 DEF ManagerTypes
<1>6. calls[s] = 0
  BY <1>2, <1>3 DEF SessionsApart
<1> HIDE DEF s
<1>7. /\ calls' \in [M!Sessions -> Nat] /\ pending' \in [M!Sessions -> Nat]
      /\ heard' \in [M!Sessions -> [M!Sinks -> Nat]]
      /\ \A t \in M!Sessions : HeardIn(t)'
      /\ \A t \in M!Sessions : t # s => calls'[t] = calls[t] /\ pending'[t] = pending[t]
  BY <1>1, <1>3, <1>4, <1>5, <1>6, CallIsHeard
<1>8. /\ sessions' \in [Games -> M!Sessions \union {None}] /\ sessions'[g] = s
      /\ \A h \in Games : h # g => sessions'[h] = sessions[h]
  BY <1>1, <1>2, <1>3 DEF ManagerTypes
<1>9. /\ counter' \in 0..MaxBegun /\ completed' \subseteq 1..counter'
      /\ 1..counter \subseteq 1..counter' /\ s \in 1..counter' /\ s # None
      /\ \A t \in M!Sessions : t > counter' => t > counter /\ t # s
      /\ \A t \in 1..counter : t \in M!Sessions /\ t # s
  BY <1>1, <1>2, <1>3 DEF ManagerTypes, s, M!Sessions
<1>10. ManagerTypes'
  BY <1>5, <1>7, <1>8, <1>9 DEF ManagerTypes
<1>11. SessionsApart'
  <2>1. \A h \in Games : sessions'[h] # None => sessions'[h] \in 1..counter'
    BY <1>2, <1>8, <1>9 DEF SessionsApart
  <2>2. \A h \in Games : h # g => sessions'[h] # s
    BY <1>2, <1>3, <1>8, <1>9 DEF SessionsApart
  <2>3. \A h, i \in Games : sessions'[h] = sessions'[i] /\ sessions'[h] # None => h = i
    BY <1>2, <1>8, <2>2 DEF SessionsApart
  <2>4. \A t \in M!Sessions : t > counter' => calls'[t] = 0 /\ given'[t] = {}
    BY <1>2, <1>5, <1>7, <1>9 DEF SessionsApart
  <2> QED BY <2>1, <2>3, <2>4 DEF SessionsApart
<1>12. M!Running' = M!Running \union {s}
  BY <1>1, <1>8, <1>9 DEF M!Running
<1>13. M!HeedsWhileRunning'
  BY <1>1, <1>12, RefreshIs DEF M!HeedsWhileRunning
<1>14. M!NothingIsRetained'
  BY <1>1, <1>2, <1>7, <1>9, <1>12 DEF ManagerInv, ManagerTypes, M!NothingIsRetained
<1> QED BY <1>7, <1>10, <1>11, <1>13, <1>14 DEF ManagerInv

\* A session that runs calls its sinks.
LEMMA RunningIsHeard ==
  ASSUME ManagerInv, NEW s \in M!Running, M!CallSinks(s, given[s]), UNCHANGED given
  PROVE  /\ s \in M!Sessions /\ s \in 1..counter
         /\ calls' \in [M!Sessions -> Nat] /\ pending' \in [M!Sessions -> Nat]
         /\ heard' \in [M!Sessions -> [M!Sinks -> Nat]]
         /\ \A t \in M!Sessions : HeardIn(t)'
         /\ \A t \in M!Sessions : t # s => calls'[t] = calls[t] /\ pending'[t] = pending[t]
<1>1. s \in M!Sessions /\ s \in 1..counter
  BY RunningBegan
<1>2. given[s] \in SUBSET M!Sinks /\ given' \in [M!Sessions -> SUBSET M!Sinks]
  BY <1>1 DEF ManagerInv, ManagerTypes
<1> QED BY <1>1, <1>2, CallIsHeard

LEMMA ChunkKeeps ==
  ASSUME ManagerInv, NEW s \in M!Sessions, M!Chunk(s)
  PROVE  ManagerInv'
<1>1. /\ s \in M!Running /\ M!CallSinks(s, given[s])
      /\ UNCHANGED <<given, feed, heeding, sessions, counter, completed>>
  BY DEF M!Chunk, M!sinkVars, M!feedVars
<1>2. /\ s \in 1..counter
      /\ calls' \in [M!Sessions -> Nat] /\ pending' \in [M!Sessions -> Nat]
      /\ heard' \in [M!Sessions -> [M!Sinks -> Nat]]
      /\ \A t \in M!Sessions : HeardIn(t)'
      /\ \A t \in M!Sessions : t # s => calls'[t] = calls[t] /\ pending'[t] = pending[t]
  BY <1>1, RunningIsHeard
<1>3. ManagerTypes'
  BY <1>1, <1>2 DEF ManagerInv, ManagerTypes
<1>4. SessionsApart'
  BY <1>1, <1>2 DEF ManagerInv, ManagerTypes, SessionsApart
<1>5. M!HeedsWhileRunning' /\ M!Running' = M!Running
  BY <1>1 DEF ManagerInv, M!HeedsWhileRunning, M!Running
<1>6. M!NothingIsRetained'
  <2>1. \A t \in completed : t \in M!Sessions /\ t # s
    BY <1>1, RunningBegan DEF ManagerInv, ManagerTypes, M!NothingIsRetained
  <2> QED BY <1>1, <1>2, <1>5, <2>1 DEF ManagerInv, M!NothingIsRetained
<1> QED BY <1>2, <1>3, <1>4, <1>5, <1>6 DEF ManagerInv

LEMMA EndKeeps ==
  ASSUME ManagerInv, NEW g \in Games, M!EndSession(g)
  PROVE  ManagerInv'
<1> DEFINE s == sessions[g]
<1>1. /\ s # None /\ sessions' = [sessions EXCEPT ![g] = None]
      /\ M!CallSinks(s, given[s])
      /\ completed' = IF M!Retain(s, pending'[s]) THEN completed \union {s} ELSE completed \ {s}
      /\ heeding' = M!Refresh(M!Running \ {s}, feed, heeding)
      /\ UNCHANGED <<given, feed, counter>>
  BY DEF M!EndSession, M!sinkVars
<1>2. s \in M!Running
  BY <1>1 DEF M!Running
<1>3. ManagerTypes /\ SessionsApart
  BY DEF ManagerInv
<1>4. /\ sessions' \in [Games -> M!Sessions \union {None}] /\ sessions'[g] = None
      /\ \A h \in Games : h # g => sessions'[h] = sessions[h] /\ sessions[h] # s
  BY <1>1, <1>3 DEF ManagerTypes, SessionsApart
<1>5. M!Running' = M!Running \ {s}
  BY <1>4 DEF M!Running
<1> HIDE DEF s
<1>6. /\ s \in M!Sessions /\ s \in 1..counter
      /\ calls' \in [M!Sessions -> Nat] /\ pending' \in [M!Sessions -> Nat]
      /\ heard' \in [M!Sessions -> [M!Sinks -> Nat]]
      /\ \A t \in M!Sessions : HeardIn(t)'
      /\ \A t \in M!Sessions : t # s => calls'[t] = calls[t] /\ pending'[t] = pending[t]
  BY <1>1, <1>2, RunningIsHeard
<1>7. ManagerTypes'
  BY <1>1, <1>3, <1>4, <1>6 DEF ManagerTypes
<1>8. SessionsApart'
  BY <1>1, <1>3, <1>4, <1>6 DEF ManagerTypes, SessionsApart
<1>9. M!HeedsWhileRunning'
  BY <1>1, <1>5, RefreshIs DEF M!HeedsWhileRunning
<1>10. M!NothingIsRetained'
  <2>1. \A t \in completed : t \in M!Sessions /\ t # s /\ t \notin M!Running /\ pending[t] > 0
    BY <1>2, RunningBegan DEF ManagerInv, ManagerTypes, M!NothingIsRetained
  <2>2. s \in completed' => pending'[s] > 0
    BY <1>1, <2>1 DEF M!Retain
  <2> QED BY <1>1, <1>5, <1>6, <2>1, <2>2 DEF M!NothingIsRetained
<1> QED BY <1>6, <1>7, <1>8, <1>9, <1>10 DEF ManagerInv

LEMMA DrainsKeeps ==
  ASSUME ManagerInv, NEW s \in M!Sessions, M!Drains(s)
  PROVE  ManagerInv'
<1>1. /\ pending[s] > 0 /\ pending' = [pending EXCEPT ![s] = @ - 1]
      /\ completed' = IF pending'[s] = 0 THEN completed \ {s} ELSE completed
      /\ UNCHANGED <<given, feed, heeding, sessions, counter, calls, heard>>
  BY DEF M!Drains, M!sinkVars, M!feedVars
<1>2. /\ pending' \in [M!Sessions -> Nat]
      /\ \A t \in M!Sessions : t # s => pending'[t] = pending[t]
  BY <1>1 DEF ManagerInv, ManagerTypes
<1>3. ManagerTypes' /\ SessionsApart' /\ \A t \in M!Sessions : HeardIn(t)'
  BY <1>1, <1>2 DEF ManagerInv, ManagerTypes, SessionsApart, HeardIn
<1>4. M!HeedsWhileRunning' /\ M!Running' = M!Running
  BY <1>1 DEF ManagerInv, M!HeedsWhileRunning, M!Running
<1>5. M!NothingIsRetained'
  <2>1. \A t \in completed : t \in M!Sessions
    BY RunningBegan DEF ManagerInv, ManagerTypes
  <2>2. pending'[s] = 0 \/ pending'[s] > 0
    BY <1>2
  <2> QED BY <1>1, <1>2, <1>4, <2>1, <2>2 DEF ManagerInv, M!NothingIsRetained
<1> QED BY <1>3, <1>4, <1>5 DEF ManagerInv

\* Steps that leave the sessions and what they called alone.
LEMMA SourcesKeep ==
  ASSUME ManagerInv, UNCHANGED <<given, sessions, counter, calls, heard, pending>>,
         \/ UNCHANGED <<feed, heeding>>
         \/ heeding' = M!Refresh(M!Running, feed', heeding),
         completed' \subseteq completed
  PROVE  ManagerInv'
<1>1. ManagerTypes' /\ SessionsApart' /\ \A t \in M!Sessions : HeardIn(t)'
  BY DEF ManagerInv, ManagerTypes, SessionsApart, HeardIn
<1>2. M!Running' = M!Running
  BY DEF M!Running
<1>3. M!HeedsWhileRunning'
  BY <1>2, RefreshIs DEF ManagerInv, M!HeedsWhileRunning
<1>4. M!NothingIsRetained'
  BY <1>2 DEF ManagerInv, M!NothingIsRetained
<1> QED BY <1>1, <1>3, <1>4 DEF ManagerInv

LEMMA ManagerKeeps ==
  ASSUME ManagerInv, M!Next
  PROVE  ManagerInv'
<1> USE DEF M!sinkVars, M!feedVars
<1>1. CASE \E on \in BOOLEAN : M!SetSink(on)
  BY <1>1, SourcesKeep DEF M!SetSink
<1>2. CASE \E f \in Feeds : M!BindConnectionSource(f)
  BY <1>2, SourcesKeep DEF M!BindConnectionSource
<1>3. CASE M!Toggle \/ M!Settled \/ \E s \in M!Sessions : M!Settles(s)
  BY <1>3, SourcesKeep DEF M!Toggle, M!Settled, M!Settles
<1>4. CASE M!AllSettled
  BY <1>4, SourcesKeep DEF M!AllSettled
<1>5. CASE \E g \in Games : M!BeginSession(g) \/ M!EndSession(g)
  BY <1>5, BeginKeeps, EndKeeps
<1>6. CASE \E s \in M!Sessions : M!Chunk(s) \/ M!Drains(s)
  BY <1>6, ChunkKeeps, DrainsKeeps
<1> QED BY <1>1, <1>2, <1>3, <1>4, <1>5, <1>6 DEF M!Next

LEMMA ManagerStarts ==
  ASSUME M!Init
  PROVE  ManagerInv
<1>1. ManagerTypes /\ SessionsApart /\ \A s \in M!Sessions : HeardIn(s)
  BY RuntimeAssumption
     DEF M!Init, ManagerTypes, SessionsApart, HeardIn, M!Sessions, M!Sinks, M!ManagerAssumption
<1>2. M!Running = {}
  BY DEF M!Init, M!Running
<1>3. M!HeedsWhileRunning /\ M!NothingIsRetained
  BY <1>2 DEF M!Init, M!HeedsWhileRunning, M!NothingIsRetained
<1> QED BY <1>1, <1>3 DEF ManagerInv

ManagerHolds == subject = "manager" => ManagerInv

\* Every sink and subscription of a session is served, and no ended session is kept.
THEOREM ServedAlways == Runtime => []SessionsAreServed
<1>1. RuntimeInit => ManagerHolds
  BY ManagerStarts DEF RuntimeInit, ManagerHolds
<1>2. ManagerHolds /\ [RuntimeNext]_runtimeVars => ManagerHolds'
  <2> SUFFICES ASSUME ManagerHolds, [RuntimeNext]_runtimeVars, subject' = "manager"
               PROVE  ManagerInv'
    BY DEF ManagerHolds
  <2>1. CASE subject = "manager" /\ M!Next
    BY <2>1, ManagerKeeps DEF ManagerHolds
  <2>2. CASE UNCHANGED <<subject, managerVars>>
    <3>1. ManagerInv
      BY <2>2 DEF ManagerHolds
    <3> QED BY <2>2, <3>1, SourcesKeep DEF managerVars
  <2> QED BY <2>1, <2>2 DEF RuntimeNext, runtimeVars
<1>3. ManagerHolds => SessionsAreServed
  <2> SUFFICES ASSUME ManagerInv
               PROVE  M!SessionsAreServed
    BY DEF ManagerHolds, SessionsAreServed
  <2>1. M!SinksHearAll
    BY RunningBegan DEF ManagerInv, HeardIn, M!SinksHearAll
  <2> QED BY <2>1 DEF ManagerInv, M!SessionsAreServed
<1> QED BY <1>1, <1>2, <1>3, PTL DEF Runtime

-----------------------------------------------------------------------------
(* The bridge: its operations.                                               *)

LEMMA PowerIsNat ==
  ASSUME NEW k \in Nat
  PROVE  2 ^ k \in Nat
<1>1. IsFiniteSet(1..k) /\ Cardinality(1..k) = k
  BY FS_Interval
<1>2. Cardinality(SUBSET (1..k)) = 2 ^ k /\ IsFiniteSet(SUBSET (1..k))
  BY <1>1, FS_SUBSET
<1> QED BY <1>2, FS_CardinalityType

LEMMA DelayIs ==
  ASSUME NEW n \in Nat
  PROVE  B!Delay(n) \in 0..Ceiling
<1> DEFINE k == IF n = 0 THEN 0 ELSE B!Lesser(n - 1, 30)
           x == Base * (2 ^ k)
<1>1. k \in Nat
  BY DEF B!Lesser
<1>2. Base \in Nat /\ Ceiling \in Nat
  BY RuntimeAssumption DEF B!BridgeAssumption
<1>3. 2 ^ k \in Nat
  BY <1>1, PowerIsNat
<1> HIDE DEF k
<1> DEFINE p == 2 ^ k
<1>4. p \in Nat
  BY <1>3
<1>5. B!Delay(n) = B!Lesser(Base * p, Ceiling)
  BY DEF B!Delay, k
<1> HIDE DEF p
<1>6. Base * p \in Nat
  BY <1>2, <1>4
<1> QED BY <1>2, <1>5, <1>6 DEF B!Lesser

\* What holds of the bridge's variables, an attempt being in flight or not.
Attempts(b) ==
  /\ b \in B!Bridge
  /\ b.stopped => b.socket = None /\ b.reconnect = None /\ b.dials = 0
  /\ ~b.told => b.failures = 0

\* ... and between two operations.
AtRest(b) ==
  /\ Attempts(b)
  /\ b.suspended => ~b.connecting
  /\ b.failures = MaxFailures => b.suspended
  /\ b.dials <= b.failures + (IF b.connecting THEN 1 ELSE 0)

LEMMA ConnectIs ==
  ASSUME NEW b \in B!Bridge
  PROVE  B!Connect(b) = IF b.stopped \/ b.suspended \/ b.connecting \/ B!Open(b.socket)
                        THEN b
                        ELSE [b EXCEPT !.connecting = TRUE, !.dials = b.dials + 1]
BY DEF B!Connect

LEMMA ScheduleIs ==
  ASSUME NEW b \in B!Bridge
  PROVE  /\ B!Schedule(b) \in B!Bridge
         /\ B!Schedule(b) = IF b.stopped \/ b.suspended \/ b.reconnect # None
                            THEN b ELSE [b EXCEPT !.reconnect = B!Delay(b.failures)]
<1>1. B!Delay(b.failures) \in 0..Ceiling
  BY DelayIs DEF B!Bridge
<1> QED BY <1>1 DEF B!Schedule, B!Bridge

LEMMA ClearedIs ==
  ASSUME NEW b, Attempts(b)
  PROVE  LET r == B!Cleared(b) IN
         /\ r \in B!Bridge /\ ~r.suspended /\ r.failures = 0 /\ ~r.told /\ r.dials = 0
         /\ r.reconnect = b.reconnect /\ r.socket = b.socket
         /\ r.connecting = b.connecting /\ r.stopped = b.stopped
<1>1. 0 \in 0..MaxFailures
  BY RuntimeAssumption DEF B!BridgeAssumption
<1>2. b \in B!Bridge
  BY DEF Attempts
<1> QED BY <1>1, <1>2 DEF B!Bridge, B!Cleared

LEMMA StartedIs ==
  ASSUME NEW b, Attempts(b)
  PROVE  LET r == B!Started(b) IN
         /\ Attempts(r)
         /\ r.reconnect = b.reconnect /\ r.socket = b.socket
         /\ ~B!Idle(b) => r = b
         /\ B!Idle(b) =>
              /\ ~r.stopped /\ ~r.suspended /\ r.failures = 0
              /\ r.connecting = (b.connecting \/ ~B!Open(b.socket))
              /\ r.dials = IF b.connecting \/ B!Open(b.socket) THEN 0 ELSE 1
<1> DEFINE r == B!Started(b)
           d == B!Cleared(b)
           c == [d EXCEPT !.stopped = FALSE]
<1>1. /\ d \in B!Bridge /\ ~d.suspended /\ d.failures = 0 /\ ~d.told /\ d.dials = 0
      /\ d.reconnect = b.reconnect /\ d.socket = b.socket /\ d.connecting = b.connecting
  BY ClearedIs
<1> HIDE DEF d
<1>2. /\ c \in B!Bridge /\ ~c.stopped /\ ~c.suspended /\ c.failures = 0 /\ ~c.told /\ c.dials = 0
      /\ c.reconnect = b.reconnect /\ c.socket = b.socket /\ c.connecting = b.connecting
  BY <1>1 DEF B!Bridge
<1> HIDE DEF c
<1>3. CASE B!Idle(b)
  <2>1. r = B!Connect(c)
    BY <1>3 DEF B!Started, c, d
  <2>2. r = IF c.connecting \/ B!Open(c.socket)
            THEN c ELSE [c EXCEPT !.connecting = TRUE, !.dials = c.dials + 1]
    BY <2>1, <1>2, ConnectIs
  <2>3. CASE c.connecting \/ B!Open(c.socket)
    BY <2>2, <2>3, <1>2, <1>3 DEF Attempts, B!Bridge
  <2>4. CASE ~(c.connecting \/ B!Open(c.socket))
    <3>1. r = [c EXCEPT !.connecting = TRUE, !.dials = 1]
      BY <2>2, <2>4, <1>2
    <3> HIDE DEF r
    <3>2. /\ r \in B!Bridge /\ ~r.stopped /\ ~r.suspended /\ r.failures = 0 /\ r.dials = 1
          /\ r.connecting /\ r.reconnect = b.reconnect /\ r.socket = b.socket
      BY <3>1, <1>2, 1 \in Nat DEF B!Bridge
    <3>3. Attempts(r)
      BY <3>2 DEF Attempts
    <3> QED BY <3>2, <3>3, <2>4, <1>2, <1>3 DEF r
  <2> QED BY <2>3, <2>4
<1>4. CASE ~B!Idle(b)
  BY <1>4 DEF B!Started
<1> QED BY <1>3, <1>4

LEMMA StoppedIs ==
  ASSUME NEW b, Attempts(b)
  PROVE  LET r == B!Stopped(b) IN
         /\ Attempts(r)
         /\ r.reconnect = None /\ r.socket = None
         /\ r.stopped /\ ~r.suspended /\ r.failures = 0 /\ r.dials = 0
         /\ r.connecting = b.connecting
<1> DEFINE d == B!Cleared(b)
           r == B!Stopped(b)
<1>1. d \in B!Bridge /\ ~d.suspended /\ d.failures = 0 /\ d.dials = 0 /\ d.connecting = b.connecting
  BY ClearedIs
<1>2. r = [d EXCEPT !.stopped = TRUE, !.reconnect = None, !.socket = None]
  BY DEF B!Stopped
<1> HIDE DEF d, r
<1>3. /\ r \in B!Bridge /\ r.stopped /\ ~r.suspended /\ r.failures = 0 /\ r.dials = 0
      /\ r.reconnect = None /\ r.socket = None /\ r.connecting = b.connecting
  BY <1>1, <1>2 DEF B!Bridge
<1>4. Attempts(r)
  BY <1>3 DEF Attempts
<1> QED BY <1>3, <1>4 DEF r

\* onError leaves an attempt in flight as it is.
LEMMA ReactedIs ==
  ASSUME NEW b, Attempts(b), b.connecting, NEW reaction
  PROVE  LET r == B!Reacted(b, reaction) IN
         /\ Attempts(r)
         /\ r.connecting
         /\ r.reconnect \in {b.reconnect, None} /\ r.socket \in {b.socket, None}
         /\ r = b \/ (r.dials = 0 /\ r.failures = 0 /\ ~r.suspended)
<1>1. /\ B!Started(b) = b \/ B!Idle(b)
      /\ Attempts(B!Stopped(b)) /\ B!Idle(B!Stopped(b))
  BY StartedIs, StoppedIs DEF B!Idle
<1>2. B!Started(b).connecting /\ B!Started(B!Stopped(b)).connecting
  BY <1>1, StartedIs, StoppedIs
<1>3. CASE reaction = "start"
  BY <1>1, <1>2, <1>3, StartedIs DEF B!Reacted
<1>4. CASE reaction = "stop"
  BY <1>4, StoppedIs DEF B!Reacted
<1>5. CASE reaction = "restart"
  <2> DEFINE t == B!Stopped(b)
  <2>1. /\ Attempts(t) /\ B!Idle(t) /\ t.connecting
        /\ t.reconnect = None /\ t.socket = None
    BY <1>1, StoppedIs
  <2>2. B!Reacted(b, reaction) = B!Started(t)
    BY <1>5 DEF B!Reacted
  <2> HIDE DEF t
  <2>3. /\ Attempts(B!Started(t)) /\ B!Started(t).connecting
        /\ B!Started(t).reconnect = None /\ B!Started(t).socket = None
        /\ B!Started(t).dials = 0 /\ B!Started(t).failures = 0 /\ ~B!Started(t).suspended
    BY <2>1, StartedIs
  <2> QED BY <2>2, <2>3
<1>6. CASE reaction \notin {"start", "stop", "restart"}
  BY <1>6 DEF B!Reacted
<1> QED BY <1>3, <1>4, <1>5, <1>6

\* An onError that throws ends fail() before it counts: with one failure allowed, the
\* bridge would not pause.
ThrowsEarly == "throw" \in FirstReport => MaxFailures > 1

LEMMA FailedIs ==
  ASSUME ThrowsEarly,
         NEW b, AtRest(b), b.connecting, NEW first \in FirstReport, NEW paused
  PROVE  LET r == B!Failed(b, first, paused) IN
         /\ AtRest(r) /\ ~r.connecting
         /\ r.socket \in {b.socket, None}
         /\ r.reconnect # None =>
              b.reconnect # None \/ (r.reconnect = B!Delay(r.failures) /\ ~r.suspended)
<1> DEFINE n == b.failures + 1
           counted == [b EXCEPT !.failures = n, !.told = TRUE]
           told == IF b.told THEN counted ELSE B!Reacted(counted, first)
           paus == [told EXCEPT !.suspended = TRUE]
           last == IF ~b.told /\ first = "throw" THEN told
                   ELSE IF told.failures >= MaxFailures THEN B!Reacted(paus, paused)
                   ELSE B!Schedule(told)
           r == B!Failed(b, first, paused)
<1>0. r = [last EXCEPT !.connecting = FALSE]
  BY DEF B!Failed
<1>1. MaxFailures \in Nat \ {0}
  BY RuntimeAssumption DEF B!BridgeAssumption
<1>2. /\ b \in B!Bridge /\ ~b.suspended /\ n \in 0..MaxFailures
      /\ b.dials <= b.failures + 1 /\ (~b.told => b.failures = 0)
      /\ b.stopped => b.socket = None /\ b.reconnect = None /\ b.dials = 0
  BY <1>1 DEF AtRest, Attempts, B!Bridge
<1> HIDE DEF n
<1>3. /\ counted \in B!Bridge /\ counted.failures = n /\ counted.told
      /\ counted.stopped = b.stopped /\ ~counted.suspended /\ counted.connecting
      /\ counted.reconnect = b.reconnect /\ counted.socket = b.socket /\ counted.dials = b.dials
  BY <1>2 DEF B!Bridge
<1>4. Attempts(counted) /\ counted.dials <= counted.failures
  BY <1>2, <1>3 DEF Attempts, n
<1>5. /\ Attempts(told) /\ told.connecting /\ ~told.suspended
      /\ told.reconnect \in {b.reconnect, None} /\ told.socket \in {b.socket, None}
      /\ told.dials <= told.failures
      /\ told = counted \/ told.failures = 0
  <2> HIDE DEF counted
  <2> QED BY <1>3, <1>4, ReactedIs
<1>6. ~b.told /\ first = "throw" => told.failures < MaxFailures
  <2>1. SUFFICES ASSUME ~b.told, first = "throw" PROVE told.failures < MaxFailures
    OBVIOUS
  <2>2. counted.failures = 1 /\ MaxFailures > 1
    BY <1>2, <1>3, <2>1 DEF ThrowsEarly, n
  <2> HIDE DEF counted
  <2> QED BY <1>1, <1>5, <2>2
<1> HIDE DEF told, counted
<1>7. /\ Attempts(last) /\ last.connecting
      /\ last.socket \in {b.socket, None}
      /\ last.dials <= last.failures
      /\ last.failures = MaxFailures => last.suspended
      /\ last.reconnect # None =>
              b.reconnect # None \/ (last.reconnect = B!Delay(last.failures) /\ ~last.suspended)
  <2>1. CASE ~b.told /\ first = "throw"
    BY <2>1, <1>1, <1>5, <1>6
  <2>2. CASE ~(~b.told /\ first = "throw") /\ told.failures >= MaxFailures
    <3>1. /\ paus \in B!Bridge /\ paus.suspended /\ paus.connecting
          /\ paus.reconnect = told.reconnect /\ paus.socket = told.socket
          /\ paus.dials = told.dials /\ paus.failures = told.failures
          /\ paus.stopped = told.stopped /\ paus.told = told.told
      BY <1>5 DEF Attempts, B!Bridge
    <3>2. Attempts(paus)
      BY <1>5, <3>1 DEF Attempts
    <3>3. last = B!Reacted(paus, paused)
      BY <2>2
    <3> HIDE DEF paus, last
    <3> DEFINE q == B!Reacted(paus, paused)
    <3>4. /\ Attempts(q) /\ q.connecting
          /\ q.reconnect \in {paus.reconnect, None} /\ q.socket \in {paus.socket, None}
          /\ q = paus \/ (q.dials = 0 /\ q.failures = 0 /\ ~q.suspended)
      BY <3>1, <3>2, ReactedIs
    <3> QED BY <3>1, <3>3, <3>4, <1>1, <1>5
  <2>3. CASE ~(~b.told /\ first = "throw") /\ ~(told.failures >= MaxFailures)
    <3>1. last = B!Schedule(told)
      BY <2>3
    <3>2. /\ told \in B!Bridge /\ told.failures < MaxFailures
      BY <1>1, <1>5, <2>3 DEF Attempts, B!Bridge
    <3>3. /\ last \in B!Bridge
          /\ last = IF told.stopped \/ told.suspended \/ told.reconnect # None
                    THEN told ELSE [told EXCEPT !.reconnect = B!Delay(told.failures)]
      BY <3>1, <3>2, ScheduleIs
    <3> HIDE DEF last
    <3>4. /\ last.stopped = told.stopped /\ last.suspended = told.suspended
          /\ last.connecting = told.connecting /\ last.failures = told.failures
          /\ last.told = told.told /\ last.socket = told.socket /\ last.dials = told.dials
          /\ last.reconnect # told.reconnect =>
               ~told.stopped /\ last.reconnect = B!Delay(told.failures)
      BY <3>2, <3>3 DEF B!Bridge
    <3>5. Attempts(last)
      BY <1>5, <3>3, <3>4 DEF Attempts
    <3>6. last.failures # MaxFailures /\ last.dials <= last.failures /\ ~last.suspended
      BY <1>5, <1>1, <3>2, <3>4 DEF B!Bridge
    <3>7. last.reconnect # None =>
            b.reconnect # None \/ last.reconnect = B!Delay(last.failures)
      <4>1. CASE last.reconnect = told.reconnect
        BY <4>1, <1>5
      <4>2. CASE last.reconnect # told.reconnect
        BY <4>2, <3>4
      <4> QED BY <4>1, <4>2
    <3> QED BY <1>5, <3>4, <3>5, <3>6, <3>7
  <2> QED BY <2>1, <2>2, <2>3
<1> HIDE DEF last, r
<1>8. /\ r \in B!Bridge /\ ~r.connecting /\ r.socket = last.socket /\ r.reconnect = last.reconnect
      /\ r.failures = last.failures /\ r.dials = last.dials /\ r.suspended = last.suspended
      /\ r.stopped = last.stopped /\ r.told = last.told
  BY <1>0, <1>7 DEF Attempts, B!Bridge
<1>9. AtRest(r)
  BY <1>7, <1>8 DEF AtRest, Attempts, B!Bridge
<1> QED BY <1>7, <1>8, <1>9 DEF r

-----------------------------------------------------------------------------
(* The bridge: its invariant.                                                *)

\* The open connection is the one the bridge knows of, and none is while it makes
\* another attempt.
OneConnection ==
  /\ \A c \in Sockets : B!Open(c) => c = bridge.socket
  /\ bridge.connecting => \A c \in Sockets : ~B!Open(c)

\* A timer that no close event has set is none of an attempt in flight or of a bridge
\* that has paused, and what is left of it is at least what the backoff still asks.
TimerIsDue ==
  /\ bridge.reconnect # None /\ (bridge.connecting \/ bridge.suspended) => stray
  /\ bridge.reconnect # None /\ ~bridge.connecting /\ ~stray
       => since + bridge.reconnect >= B!Delay(bridge.failures)

BridgeInv ==
  /\ AtRest(bridge)
  /\ conns \in [Sockets -> {"free", "open", "closing"}]
  /\ since \in 0..Ceiling
  /\ stray \in BOOLEAN
  /\ OneConnection
  /\ TimerIsDue

LEMMA BridgeNumbers ==
  ASSUME AtRest(bridge)
  PROVE  /\ Ceiling \in Nat /\ MaxFailures \in Nat \ {0} /\ None \notin Sockets /\ None \notin Nat
         /\ bridge.failures \in Nat /\ B!Delay(bridge.failures) \in 0..Ceiling
         /\ bridge.reconnect # None => bridge.reconnect \in 0..Ceiling
<1>1. /\ Ceiling \in Nat /\ MaxFailures \in Nat \ {0} /\ None \notin Sockets /\ None \notin Nat
  BY RuntimeAssumption DEF B!BridgeAssumption
<1>2. /\ bridge.failures \in Nat
      /\ bridge.reconnect # None => bridge.reconnect \in 0..Ceiling
  BY <1>1 DEF AtRest, Attempts, B!Bridge
<1> QED BY <1>1, <1>2, DelayIs

LEMMA BridgeStarts ==
  B!Init => BridgeInv
<1> SUFFICES ASSUME B!Init PROVE BridgeInv
  OBVIOUS
<1>1. /\ Ceiling \in Nat /\ MaxFailures \in Nat \ {0} /\ None \notin Sockets /\ None \notin Nat
  BY RuntimeAssumption DEF B!BridgeAssumption
<1>2. AtRest(bridge) /\ ~bridge.connecting /\ bridge.reconnect = None
  BY <1>1 DEF B!Init, AtRest, Attempts, B!Bridge
<1>3. conns = [c \in Sockets |-> "free"] /\ since = Ceiling /\ stray = FALSE
  BY DEF B!Init
<1>4. \A c \in Sockets : ~B!Open(c)
  BY <1>3 DEF B!Open
<1>5. OneConnection /\ TimerIsDue
  BY <1>2, <1>4 DEF OneConnection, TimerIsDue
<1>6. /\ conns \in [Sockets -> {"free", "open", "closing"}]
      /\ since \in 0..Ceiling /\ stray \in BOOLEAN
  <2>1. conns \in [Sockets -> {"free", "open", "closing"}]
    BY <1>3
  <2>2. since \in 0..Ceiling
    BY <1>1, <1>3
  <2> QED BY <2>1, <2>2, <1>3
<1> QED BY <1>2, <1>5, <1>6 DEF BridgeInv

LEMMA StartKeeps ==
  ASSUME BridgeInv, B!Start
  PROVE  BridgeInv'
<1> DEFINE r == B!Started(bridge)
<1>1. /\ bridge' = r /\ conns' = conns /\ since' = since /\ B!Idle(bridge)
      /\ stray' = (stray /\ bridge'.reconnect # None /\ bridge.reconnect # None)
  BY DEF B!Start, B!KeepsTimer
<1>2. /\ Attempts(r) /\ r.reconnect = bridge.reconnect /\ r.socket = bridge.socket
      /\ ~r.stopped /\ ~r.suspended /\ r.failures = 0
      /\ r.connecting = (bridge.connecting \/ ~B!Open(bridge.socket))
      /\ r.dials = IF bridge.connecting \/ B!Open(bridge.socket) THEN 0 ELSE 1
  BY <1>1, StartedIs DEF BridgeInv, AtRest
<1> HIDE DEF r
<1>3. AtRest(r)
  BY <1>2, BridgeNumbers DEF BridgeInv, AtRest, Attempts, B!Bridge
<1>4. \A c \in Sockets : B!Open(c)' = B!Open(c)
  BY <1>1 DEF B!Open
<1>5. OneConnection'
  BY <1>1, <1>2, <1>4 DEF BridgeInv, OneConnection
<1>6. bridge.reconnect # None => stray
  BY <1>1 DEF B!Idle, BridgeInv, TimerIsDue, AtRest, Attempts
<1>7. stray' \in BOOLEAN /\ (bridge'.reconnect # None => stray')
  BY <1>1, <1>2, <1>6 DEF BridgeInv
<1>8. TimerIsDue'
  BY <1>7 DEF TimerIsDue
<1> QED BY <1>1, <1>3, <1>5, <1>7, <1>8 DEF BridgeInv

LEMMA StopKeeps ==
  ASSUME BridgeInv, B!Stop
  PROVE  BridgeInv'
<1> DEFINE r == B!Stopped(bridge)
<1>1. /\ bridge' = r /\ since' = since
      /\ conns' = [c \in Sockets |->
                     IF c = bridge.socket /\ B!Open(c) THEN "closing" ELSE conns[c]]
      /\ stray' = (stray /\ bridge'.reconnect # None /\ bridge.reconnect # None)
  BY DEF B!Stop, B!KeepsTimer
<1>2. /\ Attempts(r) /\ r.reconnect = None /\ r.socket = None
      /\ r.stopped /\ ~r.suspended /\ r.failures = 0 /\ r.dials = 0
      /\ r.connecting = bridge.connecting
  BY StoppedIs DEF BridgeInv, AtRest
<1> HIDE DEF r
<1>3. AtRest(r)
  BY <1>2, RuntimeAssumption DEF AtRest, B!BridgeAssumption
<1>4. \A c \in Sockets : ~(conns'[c] = "open")
  <2>1. TAKE c \in Sockets
  <2>2. B!Open(c) => c = bridge.socket
    BY DEF BridgeInv, OneConnection
  <2>3. conns[c] = "open" => B!Open(c)
    BY BridgeNumbers DEF B!Open, BridgeInv
  <2>4. conns'[c] = IF c = bridge.socket /\ B!Open(c) THEN "closing" ELSE conns[c]
    BY <1>1
  <2> QED BY <2>2, <2>3, <2>4
<1>5. OneConnection' /\ conns' \in [Sockets -> {"free", "open", "closing"}]
  BY <1>1, <1>4 DEF OneConnection, B!Open, BridgeInv
<1>6. TimerIsDue' /\ stray' \in BOOLEAN
  BY <1>1, <1>2 DEF TimerIsDue, BridgeInv
<1> QED BY <1>1, <1>3, <1>5, <1>6 DEF BridgeInv

LEMMA OpensKeeps ==
  ASSUME BridgeInv, NEW c \in Sockets, B!Opens(c)
  PROVE  BridgeInv'
<1>1. /\ bridge.connecting /\ conns[c] = "free" /\ since' = since
      /\ stray' = (stray /\ bridge'.reconnect # None /\ bridge.reconnect # None)
  BY DEF B!Opens, B!KeepsTimer
<1>2. bridge \in B!Bridge /\ ~bridge.suspended /\ MaxFailures \in Nat \ {0}
  BY <1>1, BridgeNumbers DEF BridgeInv, AtRest, Attempts
<1>3. \A d \in Sockets : ~B!Open(d)
  BY <1>1 DEF BridgeInv, OneConnection
<1>4. bridge'.reconnect = bridge.reconnect /\ bridge'.suspended = bridge.suspended
      /\ ~bridge'.connecting /\ (bridge.stopped => bridge.reconnect = None)
      /\ AtRest(bridge') /\ conns' \in [Sockets -> {"free", "open", "closing"}]
      /\ OneConnection'
  <2>1. CASE bridge.stopped
    <3>1. bridge' = [bridge EXCEPT !.connecting = FALSE] /\ conns' = conns
      BY <2>1 DEF B!Opens
    <3>2. /\ bridge' \in B!Bridge /\ ~bridge'.connecting
          /\ bridge'.stopped = bridge.stopped /\ bridge'.suspended = bridge.suspended
          /\ bridge'.reconnect = bridge.reconnect /\ bridge'.failures = bridge.failures
          /\ bridge'.told = bridge.told /\ bridge'.socket = bridge.socket
          /\ bridge'.dials = bridge.dials
      BY <3>1, <1>2 DEF B!Bridge
    <3>3. bridge.failures < MaxFailures /\ bridge.dials = 0 /\ bridge.failures \in Nat
      BY <1>1, <1>2, <2>1 DEF BridgeInv, AtRest, Attempts, B!Bridge
    <3>4. AtRest(bridge')
      <4>1. Attempts(bridge')
        BY <3>2 DEF AtRest, Attempts, BridgeInv
      <4>2. bridge'.dials <= bridge'.failures /\ bridge'.failures # MaxFailures
            /\ ~bridge'.suspended
        BY <3>2, <3>3, <1>2, <2>1
      <4> QED BY <4>1, <4>2, <3>2, <3>3 DEF AtRest
    <3> QED BY <1>3, <3>1, <3>2, <3>4, <2>1
            DEF AtRest, Attempts, BridgeInv, OneConnection, B!Open
  <2>2. CASE ~bridge.stopped
    <3>1. /\ bridge' = [bridge EXCEPT !.connecting = FALSE, !.socket = c,
                                      !.failures = 0, !.told = FALSE, !.dials = 0]
          /\ conns' = [conns EXCEPT ![c] = "open"]
      BY <2>2 DEF B!Opens
    <3>2. /\ bridge' \in B!Bridge /\ ~bridge'.connecting /\ bridge'.socket = c
          /\ bridge'.failures = 0 /\ ~bridge'.told /\ bridge'.dials = 0
          /\ bridge'.stopped = bridge.stopped /\ bridge'.suspended = bridge.suspended
          /\ bridge'.reconnect = bridge.reconnect
      <4>1. 0 \in 0..MaxFailures /\ 0 \in Nat
        BY <1>2
      <4> QED BY <4>1, <3>1, <1>2 DEF B!Bridge
    <3>3. AtRest(bridge')
      BY <3>2, <1>2, <2>2 DEF AtRest, Attempts
    <3>4. OneConnection' /\ conns' \in [Sockets -> {"free", "open", "closing"}]
      BY <1>3, <3>1, <3>2 DEF OneConnection, B!Open, BridgeInv
    <3> QED BY <2>2, <3>2, <3>3, <3>4
  <2> QED BY <2>1, <2>2
<1>5. bridge.reconnect # None => stray
  BY <1>1 DEF BridgeInv, TimerIsDue
<1>6. stray' \in BOOLEAN /\ (bridge'.reconnect # None => stray')
  BY <1>1, <1>4, <1>5 DEF BridgeInv
<1>7. TimerIsDue'
  BY <1>6 DEF TimerIsDue
<1> QED BY <1>1, <1>4, <1>6, <1>7 DEF BridgeInv

LEMMA FailsKeeps ==
  ASSUME ThrowsEarly, BridgeInv, B!Fails
  PROVE  BridgeInv'
<1>1. /\ bridge.connecting /\ since' = 0 /\ conns' = conns
      /\ stray' = (stray /\ bridge'.reconnect # None /\ bridge.reconnect # None)
  BY DEF B!Fails, B!KeepsTimer
<1>2. PICK first \in FirstReport, paused \in PauseReport : bridge' = B!Failed(bridge, first, paused)
  BY DEF B!Fails
<1>3. /\ AtRest(bridge') /\ ~bridge'.connecting
      /\ bridge'.reconnect # None =>
           \/ bridge.reconnect # None
           \/ bridge'.reconnect = B!Delay(bridge'.failures) /\ ~bridge'.suspended
  BY <1>1, <1>2, FailedIs DEF BridgeInv
<1>4. \A c \in Sockets : ~B!Open(c) /\ ~B!Open(c)'
  BY <1>1 DEF BridgeInv, OneConnection, B!Open
<1>5. OneConnection'
  BY <1>3, <1>4 DEF OneConnection
<1>6. bridge.reconnect # None => stray
  BY <1>1 DEF BridgeInv, TimerIsDue
<1>7. stray' \in BOOLEAN
  BY <1>1 DEF BridgeInv
<1>8. Ceiling \in Nat /\ (B!Delay(bridge.failures) \in Nat)'
  BY <1>3, BridgeNumbers, DelayIs, RuntimeAssumption DEF B!BridgeAssumption, AtRest, Attempts, B!Bridge
<1>9. TimerIsDue'
  <2>1. CASE bridge'.reconnect = None
    BY <2>1 DEF TimerIsDue
  <2>2. CASE bridge'.reconnect # None /\ bridge.reconnect # None
    BY <2>2, <1>1, <1>6 DEF TimerIsDue
  <2>3. CASE bridge'.reconnect # None /\ bridge.reconnect = None
    <3>1. bridge'.reconnect = B!Delay(bridge'.failures) /\ ~bridge'.suspended
      BY <2>3, <1>3
    <3>2. B!Delay(bridge'.failures) = B!Delay(bridge.failures)'
      OBVIOUS
    <3> QED BY <3>1, <1>1, <1>3, <1>8 DEF TimerIsDue
  <2> QED BY <2>1, <2>2, <2>3
<1> QED BY <1>1, <1>3, <1>5, <1>7, <1>8, <1>9 DEF BridgeInv

LEMMA CloseEventKeeps ==
  ASSUME BridgeInv, NEW c \in Sockets, B!CloseEvent(c)
  PROVE  BridgeInv'
<1> DEFINE e == [bridge EXCEPT !.socket = IF bridge.socket = c THEN None ELSE bridge.socket]
<1>1. /\ conns[c] = "closing" /\ conns' = [conns EXCEPT ![c] = "free"] /\ since' = since
      /\ bridge' = B!Schedule(e)
      /\ stray' = IF bridge.reconnect = None
                  THEN bridge'.reconnect # None /\ bridge.connecting
                  ELSE stray
  BY DEF B!CloseEvent, B!Closed
<1>2. AtRest(bridge) /\ bridge \in B!Bridge
  BY DEF BridgeInv, AtRest, Attempts
<1>3. /\ e \in B!Bridge /\ e.socket = IF bridge.socket = c THEN None ELSE bridge.socket
      /\ e.stopped = bridge.stopped /\ e.suspended = bridge.suspended
      /\ e.connecting = bridge.connecting /\ e.reconnect = bridge.reconnect
      /\ e.failures = bridge.failures /\ e.told = bridge.told /\ e.dials = bridge.dials
  BY <1>2 DEF B!Bridge
<1> HIDE DEF e
<1>4. AtRest(e)
  BY <1>2, <1>3 DEF AtRest, Attempts
<1>5. /\ bridge' \in B!Bridge
      /\ bridge' = IF e.stopped \/ e.suspended \/ e.reconnect # None
                   THEN e ELSE [e EXCEPT !.reconnect = B!Delay(e.failures)]
  BY <1>1, <1>3, ScheduleIs
<1>6. /\ bridge'.stopped = e.stopped /\ bridge'.suspended = e.suspended
      /\ bridge'.connecting = e.connecting /\ bridge'.failures = e.failures
      /\ bridge'.told = e.told /\ bridge'.socket = e.socket /\ bridge'.dials = e.dials
      /\ e.reconnect # None => bridge'.reconnect = e.reconnect
      /\ bridge'.reconnect # e.reconnect =>
           ~e.stopped /\ ~e.suspended /\ bridge'.reconnect = B!Delay(e.failures)
  BY <1>3, <1>5 DEF B!Bridge
<1>7. AtRest(bridge')
  BY <1>4, <1>5, <1>6 DEF AtRest, Attempts
<1>8. \A d \in Sockets : B!Open(d)' => B!Open(d) /\ d # c
  BY <1>1 DEF B!Open, BridgeInv
<1>9. OneConnection'
  BY <1>3, <1>6, <1>8 DEF OneConnection, BridgeInv
<1>10. /\ Ceiling \in Nat /\ None \notin Nat /\ since \in Nat
       /\ B!Delay(bridge.failures) \in 0..Ceiling
  BY <1>2, BridgeNumbers DEF BridgeInv
<1>11. TimerIsDue'
  <2>1. B!Delay(bridge.failures)' = B!Delay(bridge.failures)
    BY <1>3, <1>6 DEF B!Delay
  <2>2. CASE bridge.reconnect # None
    <3>1. stray' = stray /\ bridge'.reconnect = bridge.reconnect
      BY <2>2, <1>1, <1>3, <1>6
    <3> QED BY <3>1, <2>1, <1>1, <1>3, <1>6 DEF TimerIsDue, BridgeInv
  <2>3. CASE bridge.reconnect = None /\ bridge'.reconnect = None
    BY <2>3 DEF TimerIsDue
  <2>4. CASE bridge.reconnect = None /\ bridge'.reconnect # None
    <3>1. /\ bridge'.reconnect = B!Delay(bridge.failures) /\ ~bridge'.suspended
          /\ stray' = bridge.connecting
      BY <2>4, <1>1, <1>2, <1>3, <1>6 DEF B!Bridge
    <3>2. bridge'.connecting = bridge.connecting /\ since' = since
      BY <1>1, <1>3, <1>6
    <3>3. since + B!Delay(bridge.failures) >= B!Delay(bridge.failures)
      BY <1>10
    <3>4. since' + bridge'.reconnect >= B!Delay(bridge.failures)'
      BY <2>1, <3>1, <3>2, <3>3
    <3> QED BY <3>1, <3>2, <3>4 DEF TimerIsDue
  <2> QED BY <2>2, <2>3, <2>4
<1>12. /\ conns' \in [Sockets -> {"free", "open", "closing"}]
       /\ since' \in 0..Ceiling /\ stray' \in BOOLEAN
  BY <1>1, <1>2 DEF BridgeInv, B!Bridge
<1> QED BY <1>7, <1>9, <1>11, <1>12 DEF BridgeInv

LEMMA DropsKeeps ==
  ASSUME BridgeInv, NEW c \in Sockets, B!Drops(c)
  PROVE  BridgeInv'
<1>1. conns' = [conns EXCEPT ![c] = "closing"] /\ UNCHANGED <<bridge, since, stray>>
  BY DEF B!Drops
<1>2. \A d \in Sockets : B!Open(d)' => B!Open(d)
  BY <1>1 DEF B!Open, BridgeInv
<1>3. OneConnection'
  BY <1>1, <1>2 DEF OneConnection, BridgeInv
<1>4. TimerIsDue'
  BY <1>1 DEF TimerIsDue, BridgeInv, B!Delay
<1> QED BY <1>1, <1>3, <1>4 DEF BridgeInv

LEMMA TimerFiresKeeps ==
  ASSUME BridgeInv, B!TimerFires
  PROVE  BridgeInv'
<1> DEFINE e == [bridge EXCEPT !.reconnect = None]
           r == B!Connect(e)
<1>1. /\ bridge.reconnect = 0 /\ bridge' = r /\ UNCHANGED <<conns, since>>
      /\ stray' = (stray /\ bridge'.reconnect # None /\ bridge.reconnect # None)
  BY DEF B!TimerFires, B!KeepsTimer
<1>2. AtRest(bridge) /\ bridge \in B!Bridge
  BY DEF BridgeInv, AtRest, Attempts
<1>3. /\ e \in B!Bridge /\ e.socket = bridge.socket
      /\ e.stopped = bridge.stopped /\ e.suspended = bridge.suspended
      /\ e.connecting = bridge.connecting /\ e.reconnect = None
      /\ e.failures = bridge.failures /\ e.told = bridge.told /\ e.dials = bridge.dials
  BY <1>2 DEF B!Bridge
<1> HIDE DEF e
<1>4. AtRest(e)
  BY <1>2, <1>3 DEF AtRest, Attempts
<1>5. r = IF e.stopped \/ e.suspended \/ e.connecting \/ B!Open(e.socket)
          THEN e ELSE [e EXCEPT !.connecting = TRUE, !.dials = e.dials + 1]
  BY <1>3, ConnectIs
<1> HIDE DEF r
<1>6. /\ r.reconnect = None /\ AtRest(r) /\ r.socket = bridge.socket
      /\ r.connecting => bridge.connecting \/ ~B!Open(bridge.socket)
  <2>1. CASE e.stopped \/ e.suspended \/ e.connecting \/ B!Open(e.socket)
    BY <2>1, <1>3, <1>4, <1>5
  <2>2. CASE ~(e.stopped \/ e.suspended \/ e.connecting \/ B!Open(e.socket))
    <3> DEFINE n == e.dials + 1
    <3>1. n \in Nat /\ e.dials <= e.failures /\ e.failures \in Nat
      BY <1>2, <1>3, <1>4, <2>2, BridgeNumbers DEF AtRest, B!Bridge
    <3>2. r = [e EXCEPT !.connecting = TRUE, !.dials = n]
      BY <1>5, <2>2
    <3>3. n <= e.failures + 1
      BY <3>1, <1>3 DEF B!Bridge
    <3> HIDE DEF n
    <3>4. /\ r \in B!Bridge /\ r.connecting /\ r.dials = n /\ r.socket = e.socket
          /\ r.stopped = e.stopped /\ r.suspended = e.suspended
          /\ r.reconnect = None /\ r.failures = e.failures /\ r.told = e.told
      BY <3>1, <3>2, <1>3 DEF B!Bridge
    <3>5. Attempts(r)
      BY <3>4, <1>4, <2>2 DEF AtRest, Attempts
    <3>6. AtRest(r)
      BY <3>3, <3>4, <3>5, <1>4, <2>2 DEF AtRest
    <3> QED BY <3>4, <3>6, <2>2, <1>3
  <2> QED BY <2>1, <2>2
<1>7. \A d \in Sockets : B!Open(d)' = B!Open(d)
  BY <1>1 DEF B!Open
<1>8. OneConnection'
  BY <1>1, <1>6, <1>7 DEF OneConnection, BridgeInv
<1>9. TimerIsDue' /\ stray' \in BOOLEAN
  BY <1>1, <1>6 DEF TimerIsDue, BridgeInv
<1> QED BY <1>1, <1>6, <1>8, <1>9 DEF BridgeInv

LEMMA TickKeeps ==
  ASSUME BridgeInv, B!Tick
  PROVE  BridgeInv'
<1> DEFINE n == IF bridge.reconnect = None THEN None ELSE bridge.reconnect - 1
<1>1. /\ bridge.reconnect # 0 /\ bridge' = [bridge EXCEPT !.reconnect = n] /\ conns' = conns
      /\ since' = B!Lesser(since + 1, Ceiling)
      /\ stray' = (stray /\ bridge'.reconnect # None /\ bridge.reconnect # None)
  BY DEF B!Tick, B!KeepsTimer
<1>2. AtRest(bridge) /\ bridge \in B!Bridge
  BY DEF BridgeInv, AtRest, Attempts
<1>3. /\ n \in {None} \union 0..Ceiling
      /\ bridge.reconnect = None => n = None
      /\ bridge.reconnect # None => n \in Nat /\ n + 1 = bridge.reconnect
  BY <1>1, <1>2, BridgeNumbers
<1> HIDE DEF n
<1>4. /\ bridge' \in B!Bridge /\ bridge'.socket = bridge.socket
      /\ bridge'.stopped = bridge.stopped /\ bridge'.suspended = bridge.suspended
      /\ bridge'.connecting = bridge.connecting /\ bridge'.reconnect = n
      /\ bridge'.failures = bridge.failures /\ bridge'.told = bridge.told
      /\ bridge'.dials = bridge.dials
  BY <1>1, <1>2, <1>3 DEF B!Bridge
<1>5. AtRest(bridge')
  BY <1>2, <1>3, <1>4 DEF AtRest, Attempts
<1>6. OneConnection'
  BY <1>1, <1>4 DEF OneConnection, BridgeInv, B!Open
<1>7. since' \in 0..Ceiling /\ (since' = since + 1 \/ since' = Ceiling)
  BY <1>1, <1>2, BridgeNumbers DEF B!Lesser, BridgeInv
<1>8. /\ Ceiling \in Nat /\ None \notin Nat /\ since \in Nat
      /\ B!Delay(bridge.failures) \in 0..Ceiling
  BY <1>2, BridgeNumbers DEF BridgeInv
<1>9. TimerIsDue'
  <2>1. B!Delay(bridge.failures)' = B!Delay(bridge.failures)
    BY <1>4 DEF B!Delay
  <2>2. CASE bridge.reconnect = None
    BY <2>2, <1>3, <1>4 DEF TimerIsDue
  <2>3. CASE bridge.reconnect # None
    <3>1. n \in Nat /\ n + 1 = bridge.reconnect /\ n # None
      BY <2>3, <1>3, <1>8
    <3>2. stray' = stray
      BY <1>1, <1>4, <2>3, <3>1 DEF BridgeInv
    <3>3. ~bridge.connecting /\ ~stray => since + bridge.reconnect >= B!Delay(bridge.failures)
      BY <2>3 DEF BridgeInv, TimerIsDue
    <3>4. ~bridge.connecting /\ ~stray => since' + n >= B!Delay(bridge.failures)
      BY <3>1, <3>3, <1>7, <1>8
    <3>5. bridge.connecting \/ bridge.suspended => stray
      BY <2>3 DEF BridgeInv, TimerIsDue
    <3> QED BY <3>2, <3>4, <3>5, <2>1, <1>4 DEF TimerIsDue
  <2> QED BY <2>2, <2>3
<1>10. stray' \in BOOLEAN
  BY <1>1 DEF BridgeInv
<1> QED BY <1>1, <1>5, <1>6, <1>7, <1>9, <1>10 DEF BridgeInv

\* A throwing onError aside, the bridge keeps its invariant.
LEMMA BridgeKeeps ==
  ThrowsEarly => (Runtime => [](subject = "bridge" => BridgeInv))
<1> SUFFICES ASSUME ThrowsEarly PROVE Runtime => [](subject = "bridge" => BridgeInv)
  OBVIOUS
<1>1. RuntimeInit => (subject = "bridge" => BridgeInv)
  BY BridgeStarts DEF RuntimeInit
<1>2. (subject = "bridge" => BridgeInv) /\ [RuntimeNext]_runtimeVars
        => (subject = "bridge" => BridgeInv)'
  <2> SUFFICES ASSUME subject = "bridge" => BridgeInv, [RuntimeNext]_runtimeVars,
                      subject' = "bridge"
               PROVE  BridgeInv'
    OBVIOUS
  <2>1. CASE UNCHANGED runtimeVars
    <3>1. BridgeInv /\ UNCHANGED bridgeVars
      BY <2>1 DEF runtimeVars
    <3> QED BY <3>1 DEF bridgeVars, BridgeInv, OneConnection, TimerIsDue, B!Open, B!Delay
  <2>2. CASE RuntimeNext
    <3>1. subject = "bridge" /\ B!Next
      BY <2>2 DEF RuntimeNext
    <3>2. BridgeInv
      BY <3>1
    <3>3. CASE B!Start
      BY <3>2, <3>3, StartKeeps
    <3>4. CASE B!Stop
      BY <3>2, <3>4, StopKeeps
    <3>5. ASSUME NEW c \in Sockets, B!Opens(c) \/ B!Drops(c) \/ B!CloseEvent(c)
          PROVE  BridgeInv'
      BY <3>2, <3>5, OpensKeeps, DropsKeeps, CloseEventKeeps
    <3>6. CASE B!Fails
      BY <3>2, <3>6, FailsKeeps
    <3>7. CASE B!TimerFires
      BY <3>2, <3>7, TimerFiresKeeps
    <3>8. CASE B!Tick
      BY <3>2, <3>8, TickKeeps
    <3> QED BY <3>1, <3>3, <3>4, <3>5, <3>6, <3>7, <3>8 DEF B!Next
  <2> QED BY <2>1, <2>2
<1> QED BY <1>1, <1>2, PTL DEF Runtime

\* However calls, timers, attempts and close events interleave, the bridge has one open
\* connection at most, none and no timer once stopped, and makes no more attempts in a
\* row than it may (serverNet.ts:221-235, 434-488).
THEOREM NothingEverLeaks ==
  ThrowsEarly => (Runtime => []NothingLeaks)
<1>1. (subject = "bridge" => BridgeInv) => NothingLeaks
  <2> SUFFICES ASSUME subject = "bridge", BridgeInv PROVE B!NothingLeaks
    BY DEF NothingLeaks
  <2>1. AtRest(bridge) /\ bridge \in B!Bridge
    BY DEF BridgeInv, AtRest, Attempts
  <2>2. B!TypeOK
    BY <2>1 DEF BridgeInv, B!TypeOK
  <2>3. B!NoneIsLeft
    BY DEF BridgeInv, OneConnection, AtRest, Attempts, B!NoneIsLeft
  <2>4. bridge.dials \in Nat /\ bridge.failures \in 0..MaxFailures /\ bridge.connecting \in BOOLEAN
    BY <2>1 DEF B!Bridge
  <2>5. MaxFailures \in Nat
    BY <2>1, BridgeNumbers
  <2>6. B!CapBoundsDials
    BY <2>1, <2>4, <2>5 DEF AtRest, B!CapBoundsDials
  <2> QED BY <2>2, <2>3, <2>6 DEF B!NothingLeaks
<1> QED BY <1>1, BridgeKeeps, PTL

\* A timer that no close event set never starts an attempt sooner than the backoff asks
\* (serverNet.ts:390-402).
THEOREM BackoffIsKept ==
  ThrowsEarly => (Runtime => BackoffKept)
<1>1. (subject = "bridge" => BridgeInv) => (subject = "bridge" => B!BackoffKept)
  <2> SUFFICES ASSUME BridgeInv, B!TimerFires, ~stray, ~bridge.connecting
               PROVE  since >= B!Delay(bridge.failures)
    BY DEF B!BackoffKept
  <2>1. bridge.reconnect = 0
    BY DEF B!TimerFires
  <2>2. since \in Nat /\ bridge.reconnect # None /\ B!Delay(bridge.failures) \in Nat
    BY <2>1, BridgeNumbers DEF BridgeInv
  <2> QED BY <2>1, <2>2 DEF BridgeInv, TimerIsDue
<1> QED BY <1>1, BridgeKeeps, PTL DEF Runtime, BackoffKept

-----------------------------------------------------------------------------
(* The store: numbers of sessions and bytes.                                 *)

\* The store's Cardinality is that of the theorems on finite sets.
LEMMA CardinalityIs ==
  ASSUME NEW S
  PROVE  H!Cardinality(S) = Cardinality(S)
BY DEF H!Cardinality, Cardinality

LEMMA SessionsFinite ==
  ASSUME NEW C \in SUBSET H!Sessions
  PROVE  /\ IsFiniteSet(C) /\ Cardinality(C) \in Nat /\ C \subseteq Nat
<1>1. H!Sessions = 1..MaxBegun /\ MaxBegun \in Nat
  BY RuntimeAssumption DEF H!HistoryAssumption, H!Sessions
<1>2. IsFiniteSet(H!Sessions)
  BY <1>1, FS_Interval
<1>3. IsFiniteSet(C)
  BY <1>2, FS_Subset
<1> QED BY <1>1, <1>3, FS_CardinalityType

\* What is left of C without those beyond the first n is n at most.
LEMMA BeyondBounds ==
  ASSUME NEW C \in SUBSET H!Sessions, NEW n \in Nat \ {0}
  PROVE  H!Cardinality(C \ H!Beyond(C, n)) <= n
<1> DEFINE D == C \ H!Beyond(C, n)
<1>1. CASE D = {}
  BY <1>1, FS_EmptySet, CardinalityIs
<1>2. CASE D # {}
  <2>0. D \subseteq C /\ D \in SUBSET Nat
    BY SessionsFinite
  <2>1. PICK m \in D : \A t \in D : t >= m
    <3> HIDE DEF D
    <3> QED BY <1>2, <2>0, LeastOf
  <2> DEFINE T == {t \in C : t > m}
  <2>2. m \in C /\ m \notin H!Beyond(C, n)
    BY <2>1
  <2>3. ~(H!Cardinality(T) >= n)
    BY <2>2 DEF H!Beyond
  <2>4. IsFiniteSet(T) /\ Cardinality(T) \in Nat
    BY SessionsFinite
  <2>5. Cardinality(T) < n
    BY <2>3, <2>4, CardinalityIs
  <2>6. IsFiniteSet(T \union {m}) /\ Cardinality(T \union {m}) <= Cardinality(T) + 1
    <3> HIDE DEF T
    <3>1. /\ IsFiniteSet(T \union {m})
          /\ Cardinality(T \union {m}) = IF m \in T THEN Cardinality(T) ELSE Cardinality(T) + 1
      BY <2>4, FS_AddElement
    <3>2. CASE m \in T
      BY <2>4, <3>1, <3>2
    <3>3. CASE m \notin T
      BY <2>4, <3>1, <3>3
    <3> QED BY <3>2, <3>3
  <2>7. D \subseteq T \union {m}
    BY <2>0, <2>1
  <2> HIDE DEF D, T
  <2>8. Cardinality(D) <= Cardinality(T \union {m})
    BY <2>6, <2>7, FS_Subset
  <2>9. Cardinality(D) \in Nat /\ Cardinality(T \union {m}) \in Nat
    BY <2>0, <2>6, <2>7, FS_Subset, FS_CardinalityType
  <2>10. Cardinality(D) <= n
    BY <2>4, <2>5, <2>6, <2>8, <2>9
  <2> QED BY <2>10, CardinalityIs DEF D
<1> QED BY <1>1, <1>2

KVs ==
  [flag : BOOLEAN, meta : [H!Sessions -> H!Metas],
   chunks : [H!Sessions -> SUBSET (0..MaxChunks - 1)]]

LEMMA HistoryNumbers ==
  /\ MaxBegun \in Nat /\ MaxChunks \in Nat /\ MaxBytes \in Nat \ {0}
  /\ Keeps \subseteq Nat \ {0} /\ Keeps # {}
  /\ H!Absent \in H!Metas /\ H!Absent.status = "absent"
  /\ H!Absent.count = 0 /\ H!Absent.bytes = 0
BY RuntimeAssumption DEF H!HistoryAssumption, H!Absent, H!Metas

\* A subset is no bigger.
LEMMA BytesGrow ==
  ASSUME NEW k \in KVs, NEW C \in SUBSET H!Sessions, NEW D \in SUBSET C
  PROVE  /\ H!BytesOf(k, D) <= H!BytesOf(k, C)
         /\ H!BytesOf(k, D) \in Nat /\ H!BytesOf(k, C) \in Nat
<1> DEFINE U(E) == UNION {{s} \X (1..k.meta[s].bytes) : s \in E}
           A == H!Sessions \X (1..MaxChunks)
<1>1. IsFiniteSet(A)
  <2>1. IsFiniteSet(H!Sessions) /\ IsFiniteSet(1..MaxChunks)
    BY SessionsFinite, FS_Interval, HistoryNumbers
  <2> QED BY <2>1, FS_Product
<1>2. U(C) \subseteq A
  <2>1. ASSUME NEW s \in C
        PROVE  {s} \X (1..k.meta[s].bytes) \subseteq A
    <3>1. k.meta[s].bytes \in 0..MaxChunks /\ MaxChunks \in Nat
      BY HistoryNumbers DEF KVs, H!Metas
    <3> QED BY <3>1
  <2> QED BY <2>1
<1>3. U(D) \subseteq U(C)
  OBVIOUS
<1>4. H!BytesOf(k, C) = Cardinality(U(C)) /\ H!BytesOf(k, D) = Cardinality(U(D))
  BY CardinalityIs DEF H!BytesOf
<1> HIDE DEF U, A
<1>5. IsFiniteSet(U(C)) /\ IsFiniteSet(U(D)) /\ Cardinality(U(D)) <= Cardinality(U(C))
  BY <1>1, <1>2, <1>3, FS_Subset
<1> QED BY <1>4, <1>5, FS_CardinalityType

\* What is left of C without those that do not fit does fit.
LEMMA OverBounds ==
  ASSUME NEW k \in KVs, NEW C \in SUBSET H!Sessions
  PROVE  H!BytesOf(k, C \ H!Over(k, C)) <= MaxBytes
<1> DEFINE D == C \ H!Over(k, C)
<1>0. D \subseteq C /\ D \in SUBSET Nat
  BY SessionsFinite
<1>1. CASE D = {}
  <2>1. H!BytesOf(k, {}) = 0
    <3>1. H!BytesOf(k, {}) = Cardinality({})
      BY CardinalityIs DEF H!BytesOf
    <3> QED BY <3>1, FS_EmptySet
  <2> QED BY <1>1, <2>1, HistoryNumbers
<1>2. CASE D # {}
  <2>1. PICK m \in D : \A t \in D : t >= m
    <3> HIDE DEF D
    <3> QED BY <1>2, <1>0, LeastOf
  <2> DEFINE T == {t \in C : t >= m}
  <2>2. ~(H!BytesOf(k, T) > MaxBytes)
    BY <2>1 DEF H!Over
  <2>3. D \subseteq T /\ T \in SUBSET H!Sessions
    BY <1>0, <2>1
  <2> HIDE DEF D, T
  <2>4. /\ H!BytesOf(k, D) <= H!BytesOf(k, T)
        /\ H!BytesOf(k, D) \in Nat /\ H!BytesOf(k, T) \in Nat
    BY <2>3, BytesGrow
  <2>5. H!BytesOf(k, D) <= MaxBytes
    BY <2>2, <2>4, HistoryNumbers
  <2> QED BY <2>5 DEF D
<1> QED BY <1>1, <1>2

-----------------------------------------------------------------------------
(* The store: what its operations make of the properties.                    *)

\* l is k without the sessions S.
Less(k, l, S) ==
  /\ l \in KVs /\ l.flag = k.flag
  /\ \A s \in S : l.meta[s] = H!Absent /\ l.chunks[s] = {}
  /\ \A s \in H!Sessions \ S : l.meta[s] = k.meta[s] /\ l.chunks[s] = k.chunks[s]

LEMMA DeletedIs ==
  ASSUME NEW k \in KVs, NEW S \in SUBSET H!Sessions
  PROVE  Less(k, H!Deleted(k, S), S)
<1> DEFINE r == H!Deleted(k, S)
           m == [s \in H!Sessions |-> IF s \in S THEN H!Absent ELSE k.meta[s]]
           c == [s \in H!Sessions |-> IF s \in S THEN {} ELSE k.chunks[s]]
<1>1. r = [k EXCEPT !.meta = m, !.chunks = c]
  BY DEF H!Deleted
<1>2. m \in [H!Sessions -> H!Metas] /\ c \in [H!Sessions -> SUBSET (0..MaxChunks - 1)]
  BY HistoryNumbers DEF KVs
<1>3. /\ \A s \in S : m[s] = H!Absent /\ c[s] = {}
      /\ \A s \in H!Sessions \ S : m[s] = k.meta[s] /\ c[s] = k.chunks[s]
  OBVIOUS
<1> HIDE DEF m, c, r
<1>4. r \in KVs /\ r.flag = k.flag /\ r.meta = m /\ r.chunks = c
  BY <1>1, <1>2 DEF KVs
<1> QED BY <1>3, <1>4 DEF Less, r

LEMMA CompletedLess ==
  ASSUME NEW k \in KVs, NEW l, NEW S \in SUBSET H!Sessions, Less(k, l, S), NEW a
  PROVE  /\ H!Completed(l, a) = H!Completed(k, a) \ S
         /\ H!Completed(k, a) \subseteq H!Sessions
BY HistoryNumbers DEF Less, H!Completed, H!Stored

LEMMA LessLess ==
  ASSUME NEW k, NEW l, NEW m, NEW S \in SUBSET H!Sessions, NEW T,
         Less(k, l, S), Less(l, m, T)
  PROVE  Less(k, m, S \union T)
BY DEF Less

\* Of completed sessions with no others, as many are left as may be.
LEMMA CleanedIs ==
  ASSUME NEW k \in KVs, NEW a, NEW n \in Nat \ {0}
  PROVE  LET r == H!Cleaned(k, a, n)
             C == H!Completed(r, a)
         IN  /\ \E S \in SUBSET H!Completed(k, a) : Less(k, r, S)
             /\ H!Cardinality(C) <= n /\ H!BytesOf(r, C) <= MaxBytes
<1> DEFINE S1 == H!Completed(k, a) \intersect old
           k1 == H!Deleted(k, S1)
           D1 == H!Completed(k1, a)
           S2 == H!Beyond(D1, n)
           k2 == H!Deleted(k1, S2)
           D2 == H!Completed(k2, a)
           S3 == H!Over(k2, D2)
           r == H!Deleted(k2, S3)
           C == H!Completed(r, a)
<1>0. H!Cleaned(k, a, n) = r
  BY DEF H!Cleaned
<1>1. \A j : H!Completed(j, a) \subseteq H!Sessions
  BY DEF H!Completed, H!Stored
<1>2. S1 \subseteq H!Sessions /\ S1 \subseteq H!Completed(k, a)
  BY <1>1
<1>3. Less(k, k1, S1)
  <2> HIDE DEF S1
  <2> QED BY <1>2, DeletedIs
<1>4. D1 \subseteq H!Sessions /\ S2 \subseteq D1
  <2> HIDE DEF k1
  <2> QED BY <1>1 DEF H!Beyond
<1>5. Less(k1, k2, S2)
  <2> HIDE DEF D1, S2, k1
  <2>1. k1 \in KVs
    BY <1>3 DEF Less
  <2> QED BY <2>1, <1>4, DeletedIs
<1>6. D2 \subseteq H!Sessions /\ S3 \subseteq D2
  <2> HIDE DEF k2
  <2> QED BY <1>1 DEF H!Over
<1>7. Less(k2, r, S3)
  <2> HIDE DEF D2, S3, k2
  <2>1. k2 \in KVs
    BY <1>5 DEF Less
  <2> QED BY <2>1, <1>6, DeletedIs
<1> HIDE DEF S1, k1, S2, k2, S3, r
<1>8. k1 \in KVs /\ k2 \in KVs /\ r \in KVs
  BY <1>3, <1>5, <1>7 DEF Less
<1>9. D1 = H!Completed(k, a) \ S1 /\ D2 = D1 \ S2 /\ C = D2 \ S3
  BY <1>2, <1>3, <1>4, <1>5, <1>6, <1>7, <1>8, CompletedLess
<1>10. Less(k, r, S1 \union S2 \union S3)
  <2>1. Less(k, k2, S1 \union S2)
    BY <1>2, <1>3, <1>5, LessLess
  <2>2. S1 \union S2 \in SUBSET H!Sessions
    BY <1>2, <1>4
  <2> QED BY <2>1, <2>2, <1>7, LessLess
<1>11. S1 \union S2 \union S3 \subseteq H!Completed(k, a)
  BY <1>2, <1>4, <1>6, <1>9
<1>12. H!Cardinality(D2) <= n
  BY <1>4, <1>9, BeyondBounds DEF S2
<1>13. H!Cardinality(C) <= n
  <2>1. /\ IsFiniteSet(D2) /\ Cardinality(D2) \in Nat /\ Cardinality(C) \in Nat
    BY <1>6, <1>9, SessionsFinite
  <2>2. Cardinality(C) <= Cardinality(D2)
    BY <2>1, <1>9, FS_Subset
  <2>3. Cardinality(D2) <= n
    BY <1>12, CardinalityIs
  <2>4. Cardinality(C) <= n
    BY <2>1, <2>2, <2>3
  <2> QED BY <2>4, CardinalityIs
<1>14. H!BytesOf(r, C) <= MaxBytes
  <2>1. H!BytesOf(k2, C) <= MaxBytes
    BY <1>6, <1>8, <1>9, OverBounds DEF S3
  <2>2. C \subseteq H!Sessions \ S3
    BY <1>6, <1>9
  <2>3. \A s \in C : r.meta[s] = k2.meta[s]
    BY <2>2, <1>7 DEF Less
  <2>4. H!BytesOf(r, C) = H!BytesOf(k2, C)
    <3> HIDE DEF C
    <3>1. {{s} \X (1..r.meta[s].bytes) : s \in C} = {{s} \X (1..k2.meta[s].bytes) : s \in C}
      BY <2>3
    <3> QED BY <3>1 DEF H!BytesOf
  <2> QED BY <2>1, <2>4
<1> HIDE DEF C
<1>15. \E S \in SUBSET H!Completed(k, a) : Less(k, r, S)
  BY <1>10, <1>11
<1> QED BY <1>0, <1>13, <1>14, <1>15 DEF C

\* A finished session is as it was, or gone.
Kept(k, l) ==
  \A s \in H!Sessions : k.meta[s].status \in {"ended", "interrupted"} =>
    \/ l.meta[s] = k.meta[s] /\ l.chunks[s] = k.chunks[s]
    \/ l.meta[s] = H!Absent /\ l.chunks[s] = {}

Unchanged(k, l) ==
  \A s \in H!Sessions : k.meta[s].status \in {"ended", "interrupted"} =>
    l.meta[s] = k.meta[s] /\ l.chunks[s] = k.chunks[s]

\* The active sessions a of the open sessions o are recorded as running, the other open
\* sessions not at all; what is recorded of a session is all of it, of the b that began
\* and the chunks z they sealed.
Whole(k, a, b, o, z) ==
  /\ a \subseteq o
  /\ \A s \in H!Sessions :
       /\ k.chunks[s] = 0..(k.meta[s].count - 1) /\ k.meta[s].bytes = k.meta[s].count
       /\ k.meta[s].status # "absent" => k.meta[s].count = z[s] /\ s <= b
       /\ k.meta[s].status = "absent" => k.meta[s].count = 0
       /\ s \in a => k.meta[s].status = "running"
       /\ s \in o \ a => k.meta[s].status = "absent"

NoneStale(k, a) ==
  \A s \in H!Sessions : k.meta[s].status = "running" => s \in a

LEMMA LessIs ==
  ASSUME NEW k \in KVs, NEW l, NEW a, NEW S \in SUBSET (H!Sessions \ a), Less(k, l, S)
  PROVE  /\ \A b, o, z : Whole(k, a, b, o, z) => Whole(l, a, b, o, z)
         /\ NoneStale(k, a) => NoneStale(l, a)
         /\ \A j : Unchanged(j, k) => Kept(j, l)
<1>1. \A s \in S : s \in H!Sessions /\ s \notin a
  OBVIOUS
<1>2. ASSUME NEW b, NEW o, NEW z, Whole(k, a, b, o, z)
      PROVE  Whole(l, a, b, o, z)
  <2>1. ASSUME NEW s \in S
        PROVE  /\ l.chunks[s] = 0..(l.meta[s].count - 1) /\ l.meta[s].bytes = l.meta[s].count
               /\ l.meta[s].status = "absent" /\ l.meta[s].count = 0
    <3>1. l.meta[s] = H!Absent /\ l.chunks[s] = {}
      BY DEF Less
    <3>2. 0..(0 - 1) = {}
      OBVIOUS
    <3> QED BY <3>1, <3>2, HistoryNumbers
  <2>2. \A s \in H!Sessions \ S : l.meta[s] = k.meta[s] /\ l.chunks[s] = k.chunks[s]
    BY DEF Less
  <2> QED BY <1>1, <1>2, <2>1, <2>2 DEF Whole
<1>3. NoneStale(k, a) => NoneStale(l, a)
  BY <1>1, HistoryNumbers DEF Less, NoneStale
<1>4. ASSUME NEW j, Unchanged(j, k)
      PROVE  Kept(j, l)
  BY <1>4 DEF Unchanged, Kept, Less
<1> QED BY <1>2, <1>3, <1>4

LEMMA RecoveredIs ==
  ASSUME NEW k \in KVs, NEW a
  PROVE  LET r == H!Recovered(k, a) IN
         /\ r \in KVs /\ r.flag = k.flag
         /\ \A b, o, z : Whole(k, a, b, o, z) => Whole(r, a, b, o, z)
         /\ NoneStale(r, a)
         /\ Unchanged(k, r)
<1> DEFINE r == H!Recovered(k, a)
           m == [s \in H!Sessions |-> IF s \notin a /\ k.meta[s].status = "running"
                                      THEN [k.meta[s] EXCEPT !.status = "interrupted"]
                                      ELSE k.meta[s]]
<1>1. r = [k EXCEPT !.meta = m]
  BY DEF H!Recovered
<1>2. ASSUME NEW s \in H!Sessions
      PROVE  /\ m[s] \in H!Metas /\ m[s].count = k.meta[s].count /\ m[s].bytes = k.meta[s].bytes
             /\ s \notin a /\ k.meta[s].status = "running" => m[s].status = "interrupted"
             /\ ~(s \notin a /\ k.meta[s].status = "running") => m[s] = k.meta[s]
  <2>1. k.meta[s] \in H!Metas
    BY DEF KVs
  <2> QED BY <2>1 DEF H!Metas
<1>3. m \in [H!Sessions -> H!Metas]
  <2>1. m = [s \in H!Sessions |-> m[s]]
    OBVIOUS
  <2> HIDE DEF m
  <2> QED BY <1>2, <2>1
<1> HIDE DEF m, r
<1>4. r \in KVs /\ r.flag = k.flag /\ r.meta = m /\ r.chunks = k.chunks
  BY <1>1, <1>3 DEF KVs
<1>5. ASSUME NEW b, NEW o, NEW z, Whole(k, a, b, o, z)
      PROVE  Whole(r, a, b, o, z)
  BY <1>2, <1>4, <1>5 DEF Whole
<1>6. NoneStale(r, a)
  BY <1>2, <1>4 DEF NoneStale
<1>7. Unchanged(k, r)
  BY <1>2, <1>4 DEF Unchanged
<1> QED BY <1>4, <1>5, <1>6, <1>7 DEF r

-----------------------------------------------------------------------------
(* The store: what its operations make of it, of the properties and of the   *)
(* callbacks that wait for worldLoad.                                        *)

Words == {"maintain", "on", "off"}

Stores == [on : BOOLEAN, recover : BOOLEAN, waiting : BOOLEAN, timer : BOOLEAN,
           keep : Keeps, active : SUBSET H!Sessions]

Worlds == [store : Stores, waiters : Seq(Words), kv : KVs]

Bounded(w) ==
  LET C == H!Completed(w.kv, w.store.active)
  IN  H!Cardinality(C) <= w.store.keep /\ H!BytesOf(w.kv, C) <= MaxBytes

WholeNow(w) == Whole(w.kv, w.store.active, begun, open, sealed)

LEMMA MaintainedIs ==
  ASSUME NEW w \in Worlds, WholeNow(w),
         w.store.recover \/ NoneStale(w.kv, w.store.active)
  PROVE  LET r == H!Maintained(w) IN
         /\ r \in Worlds /\ WholeNow(r) /\ Bounded(r)
         /\ NoneStale(r.kv, r.store.active)
         /\ ~r.store.recover /\ r.store.timer
         /\ r.store.on = w.store.on /\ r.store.waiting = w.store.waiting
         /\ r.store.keep = w.store.keep /\ r.store.active = w.store.active
         /\ r.waiters = w.waiters
         /\ r.kv.flag = w.kv.flag /\ Kept(w.kv, r.kv)
<1> DEFINE a == w.store.active
           n == w.store.keep
           k == IF w.store.recover THEN H!Recovered(w.kv, a) ELSE w.kv
           c == H!Cleaned(k, a, n)
           r == H!Maintained(w)
<1>1. r = [w EXCEPT !.kv = c, !.store.recover = FALSE, !.store.timer = TRUE]
  BY DEF H!Maintained
<1>2. /\ w.kv \in KVs /\ w.store \in Stores /\ w.waiters \in Seq(Words)
      /\ n \in Nat \ {0}
  BY HistoryNumbers DEF Worlds, Stores
<1>3. /\ k \in KVs /\ k.flag = w.kv.flag /\ NoneStale(k, a) /\ Unchanged(w.kv, k)
      /\ Whole(k, a, begun, open, sealed)
  <2>1. CASE w.store.recover
    <3> HIDE DEF a
    <3>1. Whole(w.kv, a, begun, open, sealed)
      BY DEF WholeNow, a
    <3>2. k = H!Recovered(w.kv, a)
      BY <2>1
    <3> QED BY <1>2, <3>1, <3>2, RecoveredIs
  <2>2. CASE ~w.store.recover
    BY <2>2, <1>2 DEF WholeNow, Unchanged
  <2> QED BY <2>1, <2>2
<1> HIDE DEF k
<1>4. PICK S \in SUBSET H!Completed(k, a) : Less(k, c, S)
  BY <1>2, <1>3, CleanedIs
<1>5. /\ H!Cardinality(H!Completed(c, a)) <= n
      /\ H!BytesOf(c, H!Completed(c, a)) <= MaxBytes
  <2> HIDE DEF a, n
  <2> QED BY <1>2, <1>3, CleanedIs
<1>6. c \in KVs /\ c.flag = k.flag
  BY <1>4 DEF Less
<1>7. /\ Whole(c, a, begun, open, sealed) /\ NoneStale(c, a) /\ Kept(w.kv, c)
  <2> HIDE DEF a, c
  <2>1. S \in SUBSET (H!Sessions \ a)
    BY DEF H!Completed, H!Stored
  <2> QED BY <1>3, <1>4, <2>1, LessIs
<1> HIDE DEF c, r
<1>8. /\ r \in Worlds /\ r.kv = c /\ r.waiters = w.waiters
      /\ ~r.store.recover /\ r.store.timer
      /\ r.store.on = w.store.on /\ r.store.waiting = w.store.waiting
      /\ r.store.keep = w.store.keep /\ r.store.active = w.store.active
  <2>1. r = [store |-> [w.store EXCEPT !.recover = FALSE, !.timer = TRUE],
             waiters |-> w.waiters, kv |-> c]
    BY <1>1 DEF Worlds
  <2> DEFINE t == [w.store EXCEPT !.recover = FALSE, !.timer = TRUE]
  <2>2. /\ t \in Stores /\ ~t.recover /\ t.timer
        /\ t.on = w.store.on /\ t.waiting = w.store.waiting
        /\ t.keep = w.store.keep /\ t.active = w.store.active
    BY <1>2 DEF Stores
  <2> HIDE DEF t
  <2>3. r = [store |-> t, waiters |-> w.waiters, kv |-> c]
    BY <2>1 DEF t
  <2> QED BY <1>2, <1>6, <2>2, <2>3 DEF Worlds
<1>9. Bounded(r)
  BY <1>5, <1>8 DEF Bounded
<1> QED BY <1>3, <1>6, <1>7, <1>8, <1>9 DEF WholeNow, r

Has(q, c) == \E i \in 1..Len(q) : q[i] = c

Once(q, c) == \A i, j \in 1..Len(q) : q[i] = c /\ q[j] = c => i = j

LEMMA AppendIs ==
  ASSUME NEW q \in Seq(Words), NEW c \in Words
  PROVE  LET r == Append(q, c) IN
         /\ r \in Seq(Words) /\ Has(r, c)
         /\ \A d : d # c => (Has(r, d) <=> Has(q, d)) /\ (Once(q, d) => Once(r, d))
         /\ ~Has(q, c) => Once(r, c)
<1> DEFINE r == Append(q, c)
           n == Len(q)
<1>1. /\ r \in Seq(Words) /\ Len(r) = n + 1 /\ n \in Nat /\ r[n + 1] = c
      /\ \A i \in 1..n : r[i] = q[i]
  BY PushFacts
<1> HIDE DEF r
<1>2. n + 1 \in 1..Len(r) /\ \A i \in 1..Len(r) : i \in 1..n \/ i = n + 1
  BY <1>1
<1>3. \A i \in 1..n : i \in 1..Len(r)
  BY <1>1
<1>4. Has(r, c)
  BY <1>1, <1>2 DEF Has
<1>5. ASSUME NEW d, d # c
      PROVE  (Has(r, d) <=> Has(q, d)) /\ (Once(q, d) => Once(r, d))
  BY <1>1, <1>2, <1>3, <1>5 DEF Has, Once
<1>6. ~Has(q, c) => Once(r, c)
  BY <1>1, <1>2 DEF Has, Once
<1> QED BY <1>1, <1>4, <1>5, <1>6 DEF r

LEMMA WithoutIs ==
  ASSUME NEW q \in Seq(Words), Once(q, "maintain")
  PROVE  LET r == H!Without(q, "maintain") IN
         r \in Seq(Words) /\ ~Has(r, "maintain")
<1> DEFINE r == H!Without(q, "maintain")
           k == CHOOSE i \in 1..Len(q) : q[i] = "maintain"
<1>1. "maintain" \in H!Range(q) <=> Has(q, "maintain")
  <2>1. q \in [1..Len(q) -> Words]
    BY SeqDef, LenProperties
  <2>2. H!Range(q) = {q[i] : i \in DOMAIN q}
    BY DEF H!Range
  <2> QED BY <2>1, <2>2 DEF Has
<1>2. CASE ~Has(q, "maintain")
  BY <1>1, <1>2 DEF H!Without
<1>3. CASE Has(q, "maintain")
  <2>1. k \in 1..Len(q) /\ q[k] = "maintain"
    BY <1>3 DEF Has
  <2>2. r = RemoveAt(q, k)
    BY <1>1, <1>3 DEF H!Without, H!RemoveAt, RemoveAt
  <2> HIDE DEF k, r
  <2>3. /\ r \in Seq(Words) /\ Len(r) = Len(q) - 1
        /\ \A i \in 1..(Len(q) - 1) : r[i] = IF i < k THEN q[i] ELSE q[i + 1]
    BY <2>1, <2>2, RemoveAtFacts
  <2>4. ASSUME NEW i \in 1..Len(r)
        PROVE  r[i] # "maintain"
    <3>1. Len(q) \in Nat /\ k \in Nat /\ i \in Nat /\ i <= Len(q) - 1
      BY <2>1, <2>3, LenProperties
    <3>2. CASE i < k
      <4>1. r[i] = q[i] /\ i \in 1..Len(q) /\ i # k
        BY <3>1, <3>2, <2>3
      <4> QED BY <4>1, <2>1 DEF Once
    <3>3. CASE ~(i < k)
      <4>1. r[i] = q[i + 1] /\ i + 1 \in 1..Len(q) /\ i + 1 # k
        BY <3>1, <3>3, <2>3
      <4> QED BY <4>1, <2>1 DEF Once
    <3> QED BY <3>2, <3>3
  <2> QED BY <2>3, <2>4 DEF Has, r
<1> QED BY <1>2, <1>3

\* The store is enabled with maintenance done or still to come; before worldLoad it is
\* to come, once.
Fits(w) ==
  /\ w \in Worlds /\ WholeNow(w)
  /\ w.store.on /\ ~w.store.recover => NoneStale(w.kv, w.store.active)
  /\ w.store.on /\ ~Has(w.waiters, "maintain") =>
       Bounded(w) /\ w.store.timer /\ ~w.store.recover
  /\ ~ready => /\ w.store.waiting <=> w.store.on
               /\ w.store.on <=> Has(w.waiters, "maintain")
               /\ Once(w.waiters, "maintain")

\* What no operation of the store touches.
Same(w, r) ==
  /\ r.store.active = w.store.active
  /\ r.kv.flag = w.kv.flag /\ Kept(w.kv, r.kv)

LEMMA SameStore ==
  ASSUME NEW w
  PROVE  Kept(w.kv, w.kv)
BY DEF Kept

LEMMA TurnedOnIs ==
  ASSUME NEW w, Fits(w)
  PROVE  LET r == H!TurnedOn(w) IN
         /\ Fits(r) /\ r.store.on /\ Same(w, r)
         /\ w.store.on => r = w
         /\ ready => r.waiters = w.waiters
<1> DEFINE r == H!TurnedOn(w)
           v == [w EXCEPT !.store.on = TRUE, !.store.recover = TRUE]
           t == [w.store EXCEPT !.on = TRUE, !.recover = TRUE]
<1>0. w \in Worlds /\ w.store \in Stores /\ w.waiters \in Seq(Words) /\ w.kv \in KVs
  BY DEF Fits, Worlds
<1>1. CASE w.store.on
  BY <1>1, SameStore DEF H!TurnedOn, Same
<1>2. CASE ~w.store.on
  <2>1. r = H!Scheduled(v)
    BY <1>2 DEF H!TurnedOn
  <2>2. v = [store |-> t, waiters |-> w.waiters, kv |-> w.kv]
    <3> DEFINE t1 == [w.store EXCEPT !.on = TRUE]
               v1 == [w EXCEPT !.store = t1]
    <3>2. v1 = [store |-> t1, waiters |-> w.waiters, kv |-> w.kv]
      <4> HIDE DEF t1
      <4> QED BY <1>0 DEF Worlds
    <3>3. t = [t1 EXCEPT !.recover = TRUE] /\ v = [v1 EXCEPT !.store = [v1.store EXCEPT !.recover = TRUE]]
      OBVIOUS
    <3> HIDE DEF t, v, v1, t1
    <3>4. v = [v1 EXCEPT !.store = t]
      BY <3>2, <3>3
    <3> QED BY <3>2, <3>4
  <2>3. /\ t \in Stores /\ t.on /\ t.recover /\ t.waiting = w.store.waiting
        /\ t.active = w.store.active /\ t.keep = w.store.keep
    BY <1>0 DEF Stores
  <2> HIDE DEF v, t, r
  <2>4. /\ v \in Worlds /\ v.store = t /\ v.waiters = w.waiters /\ v.kv = w.kv
        /\ WholeNow(v)
    BY <1>0, <2>2, <2>3 DEF Worlds, Fits, WholeNow
  <2>5. CASE ready
    <3>1. r = H!Maintained(v)
      BY <2>1, <2>3, <2>4, <2>5 DEF H!Scheduled
    <3> DEFINE m == H!Maintained(v)
    <3>2. /\ m \in Worlds /\ WholeNow(m) /\ Bounded(m)
          /\ NoneStale(m.kv, m.store.active)
          /\ ~m.store.recover /\ m.store.timer
          /\ m.store.on = v.store.on /\ m.store.active = v.store.active
          /\ m.waiters = v.waiters
          /\ m.kv.flag = v.kv.flag /\ Kept(v.kv, m.kv)
      BY <2>3, <2>4, MaintainedIs
    <3> HIDE DEF m
    <3>3. Fits(m)
      BY <3>2, <2>5 DEF Fits
    <3>4. Same(w, m)
      BY <3>2, <2>3, <2>4 DEF Same
    <3>5. r = m
      BY <3>1 DEF m
    <3> QED BY <3>2, <3>3, <3>4, <3>5, <2>3, <2>4, <1>2 DEF r
  <2>6. CASE ~ready
    <3>1. ~w.store.waiting /\ ~Has(w.waiters, "maintain")
      BY <2>6, <1>2 DEF Fits
    <3> DEFINE q == Append(w.waiters, "maintain")
               u == [t EXCEPT !.waiting = TRUE]
    <3>2. r = [v EXCEPT !.store.waiting = TRUE, !.waiters = Append(v.waiters, "maintain")]
      BY <2>1, <2>3, <2>4, <2>6, <3>1 DEF H!Scheduled
    <3>3. r = [store |-> u, waiters |-> q, kv |-> w.kv]
      BY <3>2, <2>4 DEF Worlds
    <3>4. q \in Seq(Words) /\ Has(q, "maintain") /\ Once(q, "maintain")
      BY <3>1, <1>0, AppendIs DEF Words
    <3>5. /\ u \in Stores /\ u.on /\ u.recover /\ u.waiting
          /\ u.active = w.store.active
      BY <2>3 DEF Stores
    <3> HIDE DEF q, u
    <3>6. /\ r \in Worlds /\ r.store = u /\ r.waiters = q /\ r.kv = w.kv
      BY <1>0, <3>3, <3>4, <3>5 DEF Worlds
    <3>7. WholeNow(r)
      BY <3>5, <3>6 DEF WholeNow, Fits
    <3>8. Fits(r)
      BY <3>4, <3>5, <3>6, <3>7 DEF Fits
    <3>9. Same(w, r)
      BY <3>5, <3>6, SameStore DEF Same
    <3> QED BY <2>6, <3>5, <3>6, <3>8, <3>9, <1>2 DEF r
  <2> QED BY <2>5, <2>6
<1> QED BY <1>1, <1>2

LEMMA TurnedOffIs ==
  ASSUME NEW w, Fits(w)
  PROVE  LET r == H!TurnedOff(w) IN
         /\ Fits(r) /\ ~r.store.on /\ Same(w, r)
         /\ ~w.store.on => r = w
         /\ ready => r.waiters = w.waiters
<1> DEFINE r == H!TurnedOff(w)
           t == [w.store EXCEPT !.on = FALSE, !.recover = FALSE, !.waiting = FALSE,
                                !.timer = FALSE]
           q == IF ready THEN w.waiters ELSE H!Without(w.waiters, "maintain")
<1>0. w \in Worlds /\ w.store \in Stores /\ w.waiters \in Seq(Words) /\ w.kv \in KVs
  BY DEF Fits, Worlds
<1>1. CASE ~w.store.on
  BY <1>1, SameStore DEF H!TurnedOff, Same
<1>2. CASE w.store.on
  <2>1. r = [w EXCEPT !.store.on = FALSE, !.store.recover = FALSE, !.store.waiting = FALSE,
                      !.store.timer = FALSE, !.waiters = q]
    BY <1>2 DEF H!TurnedOff
  <2>2. r = [store |-> t, waiters |-> q, kv |-> w.kv]
    BY <1>0, <2>1 DEF Worlds
  <2>3. t \in Stores /\ ~t.on /\ ~t.waiting /\ t.active = w.store.active
    BY <1>0 DEF Stores
  <2>4. q \in Seq(Words) /\ (~ready => ~Has(q, "maintain")) /\ (ready => q = w.waiters)
    BY <1>0, WithoutIs DEF Fits
  <2>5. ~Has(q, "maintain") => Once(q, "maintain")
    BY DEF Has, Once
  <2> HIDE DEF t, q, r
  <2>6. /\ r \in Worlds /\ r.store = t /\ r.waiters = q /\ r.kv = w.kv
    BY <1>0, <2>2, <2>3, <2>4 DEF Worlds
  <2>7. WholeNow(r)
    BY <2>3, <2>6 DEF WholeNow, Fits
  <2>8. Fits(r)
    BY <2>3, <2>4, <2>5, <2>6, <2>7 DEF Fits
  <2>9. Same(w, r)
    BY <2>3, <2>6, SameStore DEF Same
  <2> QED BY <2>3, <2>4, <2>6, <2>8, <2>9, <1>2 DEF r
<1> QED BY <1>1, <1>2

LEMMA TurnedIs ==
  ASSUME NEW w, Fits(w), NEW to \in BOOLEAN
  PROVE  LET r == H!Turned(w, to) IN
         /\ Fits(r) /\ r.store.on = to /\ Same(w, r)
         /\ w.store.on = to => r = w
         /\ ready => r.waiters = w.waiters
<1>1. H!TurnedOn(w).store.on \in BOOLEAN /\ H!TurnedOff(w).store.on \in BOOLEAN
  BY TurnedOnIs, TurnedOffIs DEF Fits, Worlds, Stores
<1>2. CASE to
  BY <1>1, <1>2, TurnedOnIs DEF H!Turned
<1>3. CASE ~to
  BY <1>1, <1>3, TurnedOffIs DEF H!Turned
<1> QED BY <1>2, <1>3

-----------------------------------------------------------------------------
(* The store: its invariant.                                                 *)

\* The last enable() or disable() is in force, and stored, or about to be.
Pending(w, choice) ==
  \/ (w.kv.flag <=> choice = "on") /\ \A i \in 1..Len(w.waiters) : w.waiters[i] = "maintain"
  \/ \E i \in 1..Len(w.waiters) :
       /\ w.waiters[i] = choice
       /\ \A j \in 1..Len(w.waiters) : j > i => w.waiters[j] = "maintain"

InForce(w, choice) ==
  choice # "none" => (w.store.on <=> choice = "on") /\ Pending(w, choice)

SessionsFit ==
  /\ begun \in 0..MaxBegun /\ open \subseteq 1..begun /\ old \subseteq 1..begun
  /\ sealed \in [H!Sessions -> 0..MaxChunks]
  /\ \A s \in H!Sessions : s > begun => sealed[s] = 0

HistoryInv ==
  /\ SessionsFit
  /\ ready \in BOOLEAN /\ chosen \in {"none", "on", "off"}
  /\ Fits(H!World)
  /\ InForce(H!World, chosen)

LEMMA WorldIs ==
  /\ H!World.store = store /\ H!World.waiters = waiters /\ H!World.kv = kv
  /\ H!World = [store |-> store, waiters |-> waiters, kv |-> kv]
BY DEF H!World

LEMMA HistoryTypes ==
  ASSUME HistoryInv
  PROVE  /\ H!World \in Worlds /\ store \in Stores /\ waiters \in Seq(Words) /\ kv \in KVs
         /\ Whole(kv, store.active, begun, open, sealed)
         /\ store.active \subseteq open
         /\ begun \in Nat /\ \A s \in H!Sessions : s \in Nat
<1>1. H!World \in Worlds /\ WholeNow(H!World)
  BY DEF HistoryInv, Fits
<1>2. store \in Stores /\ waiters \in Seq(Words) /\ kv \in KVs
  BY <1>1, WorldIs DEF Worlds
<1>3. Whole(kv, store.active, begun, open, sealed)
  BY <1>1, WorldIs DEF WholeNow
<1>4. begun \in Nat /\ \A s \in H!Sessions : s \in Nat
  BY HistoryNumbers DEF HistoryInv, SessionsFit, H!Sessions
<1> QED BY <1>1, <1>2, <1>3, <1>4 DEF Whole

LEMMA BecomesIs ==
  ASSUME NEW w, Fits(w), H!Becomes(w), UNCHANGED <<begun, open, sealed, ready>>
  PROVE  /\ Fits(H!World)'
         /\ \A c : InForce(w, c) => InForce(H!World, c)'
         /\ kv' = w.kv
<1>1. w = [store |-> w.store, waiters |-> w.waiters, kv |-> w.kv]
  BY DEF Fits, Worlds
<1>2. H!World' = w
  BY <1>1 DEF H!World, H!Becomes
<1>3. WholeNow(H!World)'
  BY <1>2 DEF Fits, WholeNow
<1>4. Fits(H!World)'
  BY <1>2, <1>3 DEF Fits
<1>5. \A c : InForce(w, c) => InForce(H!World, c)'
  BY <1>2
<1> QED BY <1>4, <1>5 DEF H!Becomes

\* The flag is of no concern to the sessions.
LEMMA FlagIs ==
  ASSUME NEW w, Fits(w), NEW to \in BOOLEAN
  PROVE  LET r == [w EXCEPT !.kv.flag = to] IN
         /\ Fits(r) /\ r.store = w.store /\ r.waiters = w.waiters
         /\ r.kv.flag = to /\ Kept(w.kv, r.kv)
<1> DEFINE k == [w.kv EXCEPT !.flag = to]
           r == [w EXCEPT !.kv.flag = to]
<1>0. w \in Worlds /\ w.store \in Stores /\ w.waiters \in Seq(Words) /\ w.kv \in KVs
  BY DEF Fits, Worlds
<1>1. k \in KVs /\ k.flag = to /\ k.meta = w.kv.meta /\ k.chunks = w.kv.chunks
  BY <1>0 DEF KVs
<1>2. r = [w EXCEPT !.kv = k]
  OBVIOUS
<1> HIDE DEF k, r
<1>3. r \in Worlds /\ r.store = w.store /\ r.waiters = w.waiters /\ r.kv = k
  BY <1>0, <1>1, <1>2 DEF Worlds
<1>4. WholeNow(r) /\ (NoneStale(w.kv, w.store.active) => NoneStale(r.kv, r.store.active))
  BY <1>1, <1>3 DEF Fits, WholeNow, Whole, NoneStale
<1>5. Bounded(w) => Bounded(r)
  BY <1>1, <1>3 DEF Bounded, H!Completed, H!Stored, H!BytesOf
<1>6. Fits(r)
  BY <1>3, <1>4, <1>5 DEF Fits
<1>7. Kept(w.kv, r.kv)
  BY <1>1, <1>3 DEF Kept
<1> QED BY <1>1, <1>3, <1>6, <1>7 DEF r

LEMMA ChooseKeeps ==
  ASSUME HistoryInv, NEW to \in BOOLEAN, H!Choose(to)
  PROVE  HistoryInv' /\ Kept(kv, kv')
<1> DEFINE v == H!Turned(H!World, to)
           w == H!Persisted(v, to)
           c == H!Word(to)
<1>1. /\ H!Becomes(w) /\ chosen' = c /\ UNCHANGED <<begun, open, sealed, ready, old>>
      /\ ready => waiters = <<>>
  BY DEF H!Choose, H!sessionVars
<1>2. /\ Fits(v) /\ v.store.on = to /\ Kept(kv, v.kv)
      /\ ready => v.waiters = waiters
  BY TurnedIs, WorldIs DEF HistoryInv, Same
<1>3. c \in {"on", "off"} /\ c \in Words /\ c # "maintain" /\ (c = "on" <=> to)
  BY DEF H!Word, Words
<1> HIDE DEF v, c
<1>4. Fits(w) /\ Kept(kv, w.kv) /\ InForce(w, c)
  <2>1. CASE ready
    <3> DEFINE r == [v EXCEPT !.kv.flag = to]
    <3>1. w = r
      BY <2>1 DEF H!Persisted
    <3>2. Fits(r) /\ r.store = v.store /\ r.waiters = v.waiters /\ r.kv.flag = to /\ Kept(v.kv, r.kv)
      BY <1>2, FlagIs
    <3>3. r.kv.meta = v.kv.meta /\ r.kv.chunks = v.kv.chunks
      <4>1. v \in Worlds /\ v.kv \in KVs
        BY <1>2 DEF Fits, Worlds
      <4> QED BY <4>1 DEF Worlds, KVs
    <3> HIDE DEF r
    <3>4. Kept(kv, r.kv)
      BY <1>2, <3>3 DEF Kept
    <3>5. r.waiters = <<>>
      BY <2>1, <1>1, <1>2, <3>2
    <3>6. InForce(r, c)
      BY <1>2, <1>3, <3>2, <3>5 DEF InForce, Pending
    <3> QED BY <3>1, <3>2, <3>4, <3>6
  <2>2. CASE ~ready
    <3> DEFINE q == Append(v.waiters, c)
    <3>1. w = [v EXCEPT !.waiters = q]
      BY <2>2 DEF H!Persisted, c
    <3>2. v \in Worlds /\ v.waiters \in Seq(Words)
      BY <1>2 DEF Fits, Worlds
    <3>3. /\ q \in Seq(Words)
          /\ Has(q, "maintain") <=> Has(v.waiters, "maintain")
          /\ Once(v.waiters, "maintain") => Once(q, "maintain")
      BY <3>2, <1>3, AppendIs
    <3>4. /\ Len(q) = Len(v.waiters) + 1 /\ Len(v.waiters) \in Nat
          /\ q[Len(v.waiters) + 1] = c
      BY <3>2, <1>3, PushFacts
    <3> HIDE DEF q, w
    <3>5. /\ w \in Worlds /\ w.store = v.store /\ w.waiters = q /\ w.kv = v.kv
      BY <3>1, <3>2, <3>3 DEF Worlds
    <3>6. WholeNow(w) /\ (Bounded(v) => Bounded(w))
      BY <1>2, <3>5 DEF Fits, WholeNow, Bounded
    <3>7. Fits(w)
      BY <1>2, <3>3, <3>5, <3>6 DEF Fits
    <3>8. Pending(w, c)
      <4>1. Len(q) \in 1..Len(q) /\ q[Len(q)] = c /\ ~(\E j \in 1..Len(q) : j > Len(q))
        BY <3>4
      <4> QED BY <4>1, <3>5 DEF Pending
    <3> QED BY <1>2, <1>3, <3>5, <3>7, <3>8 DEF InForce
  <2> QED BY <2>1, <2>2
<1> HIDE DEF w
<1>5. Fits(H!World)' /\ InForce(H!World, c)' /\ kv' = w.kv
  BY <1>1, <1>4, BecomesIs
<1>6. InForce(H!World, chosen)'
  BY <1>1, <1>5 DEF InForce, Pending
<1>7. SessionsFit'
  BY <1>1 DEF HistoryInv, SessionsFit
<1> QED BY <1>1, <1>3, <1>4, <1>5, <1>6, <1>7 DEF HistoryInv

\* What leaves the choice of the pack alone keeps it in force.
LEMMA InForceIs ==
  ASSUME NEW w, NEW r, NEW c, InForce(w, c),
         r.store.on = w.store.on, r.waiters = w.waiters, r.kv.flag = w.kv.flag
  PROVE  InForce(r, c)
BY DEF InForce, Pending

LEMMA StoreStep ==
  ASSUME HistoryInv, NEW w, Fits(w), InForce(w, chosen), Kept(kv, w.kv), H!Becomes(w),
         UNCHANGED <<begun, open, sealed, ready, old, chosen>>
  PROVE  HistoryInv' /\ Kept(kv, kv')
<1>1. Fits(H!World)' /\ kv' = w.kv /\ InForce(H!World', chosen)
  BY BecomesIs
<1>2. InForce(H!World, chosen)'
  BY <1>1 DEF InForce, Pending
<1>3. SessionsFit'
  BY DEF HistoryInv, SessionsFit
<1> QED BY <1>1, <1>2, <1>3 DEF HistoryInv

LEMMA RestoreKeeps ==
  ASSUME HistoryInv, H!Restore
  PROVE  HistoryInv' /\ Kept(kv, kv')
<1> DEFINE w == H!Turned(H!World, kv.flag)
<1>1. /\ ready /\ waiters = <<>> /\ H!Becomes(w)
      /\ UNCHANGED <<begun, open, sealed, ready, old, chosen>>
  BY DEF H!Restore, H!sessionVars
<1>2. kv.flag \in BOOLEAN
  BY HistoryTypes DEF KVs
<1>3. /\ Fits(w) /\ Kept(kv, w.kv)
      /\ store.on = kv.flag => w = H!World
  BY <1>2, TurnedIs, WorldIs DEF HistoryInv, Same
<1>4. InForce(w, chosen)
  <2>1. CASE chosen = "none"
    BY <2>1 DEF InForce
  <2>2. CASE chosen # "none"
    <3>1. (store.on <=> chosen = "on") /\ (kv.flag <=> chosen = "on")
      BY <2>2, <1>1, WorldIs DEF HistoryInv, InForce, Pending
    <3>2. store.on \in BOOLEAN
      BY HistoryTypes DEF Stores
    <3>3. w = H!World
      BY <3>1, <3>2, <1>2, <1>3
    <3> QED BY <3>3 DEF HistoryInv
  <2> QED BY <2>1, <2>2
<1> QED BY <1>1, <1>3, <1>4, StoreStep

LEMMA ConfigureKeeps ==
  ASSUME HistoryInv, NEW n \in Keeps, NEW retimed \in BOOLEAN, H!Configure(n, retimed)
  PROVE  HistoryInv' /\ Kept(kv, kv')
<1> DEFINE a == [H!World EXCEPT !.store.keep = n]
           v == IF retimed THEN [a EXCEPT !.store.timer = FALSE] ELSE a
           w == H!Scheduled(v)
           t == [store EXCEPT !.keep = n]
           u == IF retimed THEN [t EXCEPT !.timer = FALSE] ELSE t
<1>1. H!Becomes(w) /\ UNCHANGED <<begun, open, sealed, ready, old, chosen>>
  BY DEF H!Configure, H!sessionVars
<1>2. store \in Stores /\ waiters \in Seq(Words) /\ kv \in KVs
  BY HistoryTypes
<1>3. t \in Stores /\ t.on = store.on /\ t.recover = store.recover /\ t.waiting = store.waiting
      /\ t.active = store.active
  BY <1>2 DEF Stores
<1>4. /\ u \in Stores /\ u.on = store.on /\ u.recover = store.recover
      /\ u.waiting = store.waiting /\ u.active = store.active
  <2> HIDE DEF t
  <2> QED BY <1>3 DEF Stores
<1>5. a = [store |-> t, waiters |-> waiters, kv |-> kv]
  BY DEF H!World
<1>6. v = [store |-> u, waiters |-> waiters, kv |-> kv]
  <2> HIDE DEF a, t
  <2> QED BY <1>5
<1> HIDE DEF t, u, a, v, w
<1>7. v \in Worlds /\ v.store = u /\ v.waiters = waiters /\ v.kv = kv
  BY <1>2, <1>4, <1>6 DEF Worlds
<1>8. /\ WholeNow(v)
      /\ u.on /\ ~u.recover => NoneStale(v.kv, u.active)
      /\ ~ready => /\ u.waiting <=> u.on
                   /\ u.on <=> Has(v.waiters, "maintain")
                   /\ Once(v.waiters, "maintain")
  BY <1>4, <1>7, WorldIs DEF HistoryInv, Fits, WholeNow
<1>9. /\ Fits(w) /\ w.store.on = store.on /\ w.waiters = waiters
      /\ w.kv.flag = kv.flag /\ Kept(kv, w.kv)
  <2>1. CASE u.on /\ ready
    <3>1. w = H!Maintained(v)
      BY <2>1, <1>7 DEF w, H!Scheduled
    <3>2. v.store.recover \/ NoneStale(v.kv, v.store.active)
      BY <2>1, <1>7, <1>8
    <3> DEFINE m == H!Maintained(v)
    <3>3. /\ m \in Worlds /\ WholeNow(m) /\ Bounded(m)
          /\ NoneStale(m.kv, m.store.active)
          /\ ~m.store.recover /\ m.store.timer
          /\ m.store.on = v.store.on
          /\ m.waiters = v.waiters
          /\ m.kv.flag = v.kv.flag /\ Kept(v.kv, m.kv)
      BY <1>7, <1>8, <3>2, MaintainedIs
    <3> HIDE DEF m
    <3>4. Fits(m)
      BY <2>1, <3>3 DEF Fits
    <3> QED BY <3>1, <3>3, <3>4, <1>4, <1>7 DEF m
  <2>2. CASE ~(u.on /\ ready)
    <3>1. w = v
      BY <2>2, <1>7, <1>8 DEF w, H!Scheduled
    <3>2. Fits(v)
      BY <2>2, <1>7, <1>8 DEF Fits
    <3>3. Kept(kv, v.kv)
      BY <1>7 DEF Kept
    <3> QED BY <3>1, <3>2, <3>3, <1>4, <1>7
  <2> QED BY <2>1, <2>2
<1>10. InForce(w, chosen)
  BY <1>9, InForceIs, WorldIs DEF HistoryInv
<1> QED BY <1>1, <1>9, <1>10, StoreStep

LEMMA TailIs ==
  ASSUME NEW q \in Seq(Words), q # <<>>
  PROVE  /\ Tail(q) \in Seq(Words) /\ Head(q) \in Words /\ Head(q) = q[1]
         /\ Len(Tail(q)) = Len(q) - 1 /\ Len(q) \in Nat \ {0}
         /\ \A i \in 1..Len(Tail(q)) : Tail(q)[i] = q[i + 1] /\ i + 1 \in 1..Len(q)
         /\ \A d : d # Head(q) => (Has(Tail(q), d) <=> Has(q, d))
<1> DEFINE r == Tail(q)
<1>1. /\ r \in Seq(Words) /\ Head(q) = q[1] /\ Len(r) = Len(q) - 1 /\ Len(q) \in Nat \ {0}
      /\ \A i \in 1..Len(r) : r[i] = q[i + 1]
  BY HeadTailProperties, LenProperties, EmptySeq
<1>2. Head(q) \in Words
  <2>1. 1 \in 1..Len(q)
    BY <1>1
  <2> QED BY <1>1, <2>1, ElementOfSeq
<1> HIDE DEF r
<1>3. \A i \in 1..Len(r) : i + 1 \in 1..Len(q)
  BY <1>1
<1>4. ASSUME NEW d, d # Head(q)
      PROVE  Has(r, d) <=> Has(q, d)
  <2>1. ASSUME NEW i \in 1..Len(q), q[i] = d
        PROVE  Has(r, d)
    <3>1. i # 1
      BY <2>1, <1>1, <1>4
    <3>2. i - 1 \in 1..Len(r) /\ (i - 1) + 1 = i
      BY <3>1, <1>1
    <3>3. r[i - 1] = q[i]
      BY <3>2, <1>1
    <3> QED BY <2>1, <3>2, <3>3 DEF Has
  <2> QED BY <2>1, <1>1, <1>3 DEF Has
<1> QED BY <1>1, <1>2, <1>3, <1>4 DEF r

LEMMA DrainKeeps ==
  ASSUME HistoryInv, H!Drain
  PROVE  HistoryInv' /\ Kept(kv, kv')
<1> DEFINE q == Tail(waiters)
           c == Head(waiters)
           v == [H!World EXCEPT !.waiters = q]
           w == H!Called(v, c)
<1>1. /\ ready /\ waiters # <<>>
      /\ H!Becomes(w) /\ UNCHANGED <<begun, open, sealed, ready, old, chosen>>
  BY DEF H!Drain, H!sessionVars, H!World
<1>2. store \in Stores /\ waiters \in Seq(Words) /\ kv \in KVs
  BY HistoryTypes
<1>3. /\ q \in Seq(Words) /\ c \in Words /\ c = waiters[1]
      /\ Len(q) = Len(waiters) - 1 /\ Len(waiters) \in Nat \ {0}
      /\ \A i \in 1..Len(q) : q[i] = waiters[i + 1] /\ i + 1 \in 1..Len(waiters)
      /\ \A d : d # c => (Has(q, d) <=> Has(waiters, d))
  BY <1>1, <1>2, TailIs
<1>4. v = [store |-> store, waiters |-> q, kv |-> kv]
  <2> HIDE DEF q
  <2> QED BY DEF H!World
<1> HIDE DEF q, c, v, w
<1>5. v \in Worlds /\ v.store = store /\ v.waiters = q /\ v.kv = kv
  BY <1>2, <1>3, <1>4 DEF Worlds
<1>6. /\ WholeNow(v)
      /\ store.on /\ ~store.recover => NoneStale(kv, store.active)
      /\ store.on /\ ~Has(waiters, "maintain") =>
           Bounded(H!World) /\ store.timer /\ ~store.recover
  BY <1>5, WorldIs DEF HistoryInv, Fits, WholeNow
<1>7. CASE c = "maintain"
  <2> DEFINE e == [v EXCEPT !.store.waiting = FALSE]
             t == [store EXCEPT !.waiting = FALSE]
  <2>1. w = IF e.store.on THEN H!Maintained(e) ELSE e
    BY <1>7 DEF w, H!Called
  <2>2. /\ t \in Stores /\ t.on = store.on /\ t.recover = store.recover
        /\ t.active = store.active
    BY <1>2 DEF Stores
  <2>3. e = [store |-> t, waiters |-> q, kv |-> kv]
    <3>1. e = [v EXCEPT !.store = t]
      BY <1>5
    <3> HIDE DEF e, t
    <3> QED BY <1>5, <3>1 DEF Worlds
  <2> HIDE DEF e, t
  <2>4. e \in Worlds /\ e.store = t /\ e.waiters = q /\ e.kv = kv
    BY <1>2, <1>3, <2>2, <2>3 DEF Worlds
  <2>5. WholeNow(e)
    BY <1>5, <1>6, <2>2, <2>4 DEF WholeNow
  <2>6. /\ Fits(w) /\ w.store.on = store.on /\ w.waiters = q
        /\ w.kv.flag = kv.flag /\ Kept(kv, w.kv)
    <3>1. CASE store.on
      <4> DEFINE m == H!Maintained(e)
      <4>1. w = m
        BY <2>1, <2>2, <2>4, <3>1
      <4>2. e.store.recover \/ NoneStale(e.kv, e.store.active)
        BY <1>6, <2>2, <2>4, <3>1
      <4>3. /\ m \in Worlds /\ WholeNow(m) /\ Bounded(m)
            /\ NoneStale(m.kv, m.store.active)
            /\ ~m.store.recover /\ m.store.timer
            /\ m.store.on = e.store.on
            /\ m.waiters = e.waiters
            /\ m.kv.flag = e.kv.flag /\ Kept(e.kv, m.kv)
        BY <2>4, <2>5, <4>2, MaintainedIs
      <4> HIDE DEF m
      <4>4. Fits(m)
        BY <1>1, <4>3 DEF Fits
      <4> QED BY <4>1, <4>3, <4>4, <2>2, <2>4
    <3>2. CASE ~store.on
      <4>1. w = e
        BY <2>1, <2>2, <2>4, <3>2
      <4>2. Fits(e)
        BY <1>1, <2>2, <2>4, <2>5, <3>2 DEF Fits
      <4>3. Kept(kv, e.kv)
        BY <2>4 DEF Kept
      <4> QED BY <4>1, <4>2, <4>3, <2>2, <2>4
    <3> QED BY <3>1, <3>2
  <2>7. InForce(w, chosen)
    <3>1. SUFFICES ASSUME chosen # "none" PROVE Pending(w, chosen)
      BY <2>6, WorldIs DEF HistoryInv, InForce
    <3>2. Pending(H!World, chosen) /\ chosen # "maintain"
      BY <3>1 DEF HistoryInv, InForce
    <3>3. CASE /\ kv.flag <=> chosen = "on"
               /\ \A i \in 1..Len(waiters) : waiters[i] = "maintain"
      BY <3>3, <1>3, <2>6 DEF Pending
    <3>4. ASSUME NEW i \in 1..Len(waiters), waiters[i] = chosen,
                 \A j \in 1..Len(waiters) : j > i => waiters[j] = "maintain"
          PROVE  Pending(w, chosen)
      <4>1. i # 1
        BY <1>3, <1>7, <3>2, <3>4
      <4>2. i - 1 \in 1..Len(q) /\ (i - 1) + 1 = i
        BY <4>1, <1>3
      <4>3. q[i - 1] = chosen
        BY <4>2, <1>3, <3>4
      <4>4. ASSUME NEW j \in 1..Len(q), j > i - 1
            PROVE  q[j] = "maintain"
        BY <4>2, <4>4, <1>3, <3>4
      <4> QED BY <4>2, <4>3, <4>4, <2>6 DEF Pending
    <3> QED BY <3>2, <3>3, <3>4, WorldIs DEF Pending
  <2> QED BY <2>6, <2>7, <1>1, StoreStep
<1>8. CASE c \in {"on", "off"}
  <2> DEFINE to == c = "on"
             r == [v EXCEPT !.kv.flag = to]
  <2>0. to \in BOOLEAN
    OBVIOUS
  <2>1. w = r
    BY <1>8 DEF w, H!Called
  <2>2. Fits(v)
    <3>1. Bounded(H!World) => Bounded(v)
      BY <1>5, WorldIs DEF Bounded
    <3>2. Has(q, "maintain") <=> Has(waiters, "maintain")
      BY <1>3, <1>8
    <3> QED BY <3>1, <3>2, <1>1, <1>5, <1>6 DEF Fits
  <2> HIDE DEF to
  <2>3. Fits(r) /\ r.store = v.store /\ r.waiters = v.waiters /\ r.kv.flag = to /\ Kept(v.kv, r.kv)
    BY <2>0, <2>2, FlagIs
  <2> HIDE DEF r
  <2>4. InForce(w, chosen)
    <3>1. SUFFICES ASSUME chosen # "none" PROVE Pending(w, chosen)
      BY <1>5, <2>1, <2>3, WorldIs DEF HistoryInv, InForce
    <3>2. Pending(H!World, chosen) /\ chosen \in {"on", "off"}
      BY <3>1 DEF HistoryInv, InForce
    <3>3. ~(\A i \in 1..Len(waiters) : waiters[i] = "maintain")
      <4>1. 1 \in 1..Len(waiters)
        BY <1>3
      <4> QED BY <4>1, <1>3, <1>8
    <3>4. PICK i \in 1..Len(waiters) :
            /\ waiters[i] = chosen
            /\ \A j \in 1..Len(waiters) : j > i => waiters[j] = "maintain"
      BY <3>2, <3>3, WorldIs DEF Pending
    <3>5. CASE i = 1
      <4>1. to <=> chosen = "on"
        BY <3>4, <3>5, <1>3 DEF to
      <4>2. ASSUME NEW j \in 1..Len(q)
            PROVE  q[j] = "maintain"
        BY <1>3, <3>4, <3>5
      <4> QED BY <4>1, <4>2, <1>5, <2>1, <2>3 DEF Pending
    <3>6. CASE i # 1
      <4>2. i - 1 \in 1..Len(q) /\ (i - 1) + 1 = i
        BY <3>6, <1>3
      <4>3. q[i - 1] = chosen
        BY <4>2, <1>3, <3>4
      <4>4. ASSUME NEW j \in 1..Len(q), j > i - 1
            PROVE  q[j] = "maintain"
        BY <4>2, <4>4, <1>3, <3>4
      <4> QED BY <4>2, <4>3, <4>4, <1>5, <2>1, <2>3 DEF Pending
    <3> QED BY <3>5, <3>6
  <2>5. Fits(w) /\ Kept(kv, w.kv)
    BY <1>5, <2>1, <2>3
  <2> QED BY <2>4, <2>5, <1>1, StoreStep
<1> QED BY <1>3, <1>7, <1>8 DEF Words

LEMMA LessBounded ==
  ASSUME NEW k \in KVs, NEW l, NEW a, NEW S \in SUBSET H!Sessions, Less(k, l, S),
         NEW n \in Nat, H!Cardinality(H!Completed(k, a)) <= n,
         H!BytesOf(k, H!Completed(k, a)) <= MaxBytes
  PROVE  /\ H!Cardinality(H!Completed(l, a)) <= n
         /\ H!BytesOf(l, H!Completed(l, a)) <= MaxBytes
<1> DEFINE C == H!Completed(k, a)
           D == H!Completed(l, a)
<1>1. D = C \ S /\ C \subseteq H!Sessions
  BY CompletedLess
<1>2. \A s \in D : l.meta[s] = k.meta[s]
  BY <1>1 DEF Less
<1>3. H!BytesOf(l, D) = H!BytesOf(k, D)
  <2> HIDE DEF D
  <2>1. {{s} \X (1..l.meta[s].bytes) : s \in D} = {{s} \X (1..k.meta[s].bytes) : s \in D}
    BY <1>2
  <2> QED BY <2>1 DEF H!BytesOf
<1>4. C \in SUBSET H!Sessions /\ D \in SUBSET C /\ D \in SUBSET H!Sessions
  BY <1>1
<1>5. H!Cardinality(C) <= n /\ H!BytesOf(k, C) <= MaxBytes
  OBVIOUS
<1> HIDE DEF C, D
<1>6. IsFiniteSet(C) /\ Cardinality(C) \in Nat /\ Cardinality(D) \in Nat
  BY <1>4, SessionsFinite
<1>7. Cardinality(D) <= Cardinality(C)
  BY <1>4, <1>6, FS_Subset
<1>8. H!BytesOf(k, D) <= H!BytesOf(k, C) /\ H!BytesOf(k, D) \in Nat /\ H!BytesOf(k, C) \in Nat
  BY <1>4, BytesGrow
<1>9. Cardinality(C) <= n
  BY <1>5, CardinalityIs
<1>10. Cardinality(D) <= n
  BY <1>6, <1>7, <1>9
<1>11. H!BytesOf(k, D) <= MaxBytes
  BY <1>5, <1>8, HistoryNumbers
<1> QED BY <1>3, <1>10, <1>11, CardinalityIs DEF D

\* A step of the sessions or of what is stored of them.
LEMMA RecordsStep ==
  ASSUME HistoryInv, SessionsFit', UNCHANGED <<ready, waiters, chosen>>,
         kv' \in KVs, kv'.flag = kv.flag, store' \in Stores,
         store'.on = store.on, store'.recover = store.recover,
         store'.waiting = store.waiting, store'.timer = store.timer,
         Whole(kv', store'.active, begun', open', sealed'),
         NoneStale(kv, store.active) => NoneStale(kv', store'.active),
         Bounded(H!World) => Bounded(H!World)'
  PROVE  HistoryInv'
<1>1. H!World' = [store |-> store', waiters |-> waiters, kv |-> kv']
  BY DEF H!World
<1>2. /\ H!World'.store = store' /\ H!World'.waiters = waiters /\ H!World'.kv = kv'
  BY <1>1
<1>3. H!World' \in Worlds
  BY <1>1, HistoryTypes DEF Worlds
<1>4. WholeNow(H!World)'
  BY <1>2 DEF WholeNow
<1>5. Fits(H!World)
  BY DEF HistoryInv
<1>6. Fits(H!World)'
  BY <1>2, <1>3, <1>4, <1>5, WorldIs DEF Fits
<1>7. InForce(H!World, chosen)'
  BY <1>2, WorldIs DEF HistoryInv, InForce, Pending
<1> QED BY <1>6, <1>7 DEF HistoryInv

LEMMA CollectKeeps ==
  ASSUME HistoryInv, NEW S \in SUBSET (H!Sessions \ store.active), Less(kv, kv', S),
         UNCHANGED <<begun, open, sealed, ready, waiters, store, old, chosen>>
  PROVE  HistoryInv' /\ Kept(kv, kv')
<1>1. /\ kv \in KVs /\ store \in Stores /\ Whole(kv, store.active, begun, open, sealed)
  BY HistoryTypes
<1>2. kv' \in KVs /\ kv'.flag = kv.flag
  BY DEF Less
<1>3. /\ Whole(kv', store.active, begun, open, sealed)
      /\ NoneStale(kv, store.active) => NoneStale(kv', store.active)
      /\ Unchanged(kv, kv) => Kept(kv, kv')
  BY <1>1, LessIs
<1>4. Kept(kv, kv')
  BY <1>3 DEF Unchanged
<1>5. Bounded(H!World) => Bounded(H!World)'
  <2>1. store.keep \in Nat
    BY <1>1, HistoryNumbers DEF Stores
  <2>2. ASSUME H!Cardinality(H!Completed(kv, store.active)) <= store.keep,
               H!BytesOf(kv, H!Completed(kv, store.active)) <= MaxBytes
        PROVE  /\ H!Cardinality(H!Completed(kv', store.active)) <= store.keep
               /\ H!BytesOf(kv', H!Completed(kv', store.active)) <= MaxBytes
    BY <2>1, <2>2, <1>1, LessBounded
  <2>3. H!World'.store = store /\ H!World'.kv = kv'
    BY DEF H!World
  <2> QED BY <2>2, <2>3, WorldIs DEF Bounded
<1>6. SessionsFit'
  BY DEF HistoryInv, SessionsFit
<1>7. HistoryInv'
  BY <1>1, <1>2, <1>3, <1>5, <1>6, RecordsStep
<1> QED BY <1>4, <1>7

LEMMA DeleteKeeps ==
  ASSUME HistoryInv, NEW s \in H!Sessions, H!Delete(s)
  PROVE  HistoryInv' /\ Kept(kv, kv')
<1> DEFINE S == {s} \ store.active
<1>1. /\ kv' = H!Deleted(kv, S)
      /\ UNCHANGED <<begun, open, sealed, ready, waiters, store, old, chosen>>
  BY DEF H!Delete, H!sessionVars
<1>2. S \in SUBSET (H!Sessions \ store.active) /\ S \in SUBSET H!Sessions
  OBVIOUS
<1> HIDE DEF S
<1>3. Less(kv, kv', S)
  BY <1>1, <1>2, HistoryTypes, DeletedIs
<1> QED BY <1>1, <1>2, <1>3, CollectKeeps

LEMMA ClearKeeps ==
  ASSUME HistoryInv, H!Clear
  PROVE  HistoryInv' /\ Kept(kv, kv')
<1> DEFINE S == H!Completed(kv, store.active)
<1>1. /\ kv' = H!Deleted(kv, S)
      /\ UNCHANGED <<begun, open, sealed, ready, waiters, store, old, chosen>>
  BY DEF H!Clear, H!sessionVars
<1>2. S \in SUBSET (H!Sessions \ store.active) /\ S \in SUBSET H!Sessions
  BY DEF H!Completed, H!Stored
<1> HIDE DEF S
<1>3. Less(kv, kv', S)
  BY <1>1, <1>2, HistoryTypes, DeletedIs
<1> QED BY <1>1, <1>2, <1>3, CollectKeeps

LEMMA SweepKeeps ==
  ASSUME HistoryInv, H!Sweep
  PROVE  HistoryInv' /\ Kept(kv, kv')
<1>1. /\ kv' = H!Cleaned(kv, store.active, store.keep)
      /\ UNCHANGED <<begun, open, sealed, ready, waiters, store, old, chosen>>
  BY DEF H!Sweep, H!sessionVars
<1>2. kv \in KVs /\ store.keep \in Nat \ {0}
  BY HistoryTypes, HistoryNumbers DEF Stores
<1>3. PICK S \in SUBSET H!Completed(kv, store.active) : Less(kv, kv', S)
  BY <1>1, <1>2, CleanedIs
<1>4. S \in SUBSET (H!Sessions \ store.active)
  BY DEF H!Completed, H!Stored
<1> QED BY <1>1, <1>3, <1>4, CollectKeeps

LEMMA WorldLoadKeeps ==
  ASSUME HistoryInv, H!WorldLoad
  PROVE  HistoryInv' /\ Kept(kv, kv')
<1>1. ready' = TRUE /\ UNCHANGED <<begun, open, sealed, waiters, store, kv, old, chosen>>
  BY DEF H!WorldLoad, H!sessionVars
<1>2. H!World' = H!World
  BY <1>1 DEF H!World
<1>3. WholeNow(H!World)'
  BY <1>1, <1>2 DEF HistoryInv, Fits, WholeNow
<1>4. Fits(H!World)'
  BY <1>1, <1>2, <1>3 DEF HistoryInv, Fits
<1>5. InForce(H!World, chosen)'
  BY <1>1, <1>2 DEF HistoryInv, InForce, Pending
<1>6. SessionsFit'
  BY <1>1 DEF HistoryInv, SessionsFit
<1> QED BY <1>1, <1>4, <1>5, <1>6 DEF HistoryInv, Kept

LEMMA AgeKeeps ==
  ASSUME HistoryInv, NEW s \in H!Sessions, H!Age(s)
  PROVE  HistoryInv' /\ Kept(kv, kv')
<1>1. /\ old' = old \union {s} /\ s <= begun
      /\ UNCHANGED <<begun, open, sealed, ready, waiters, store, kv, chosen>>
  BY DEF H!Age, H!sessionVars
<1>2. H!World' = H!World
  BY <1>1 DEF H!World
<1>3. s \in 1..begun
  BY <1>1, HistoryNumbers, HistoryTypes DEF H!Sessions
<1>4. SessionsFit'
  BY <1>1, <1>3 DEF HistoryInv, SessionsFit
<1>5. Fits(H!World)' /\ InForce(H!World, chosen)'
  BY <1>1, <1>2 DEF HistoryInv, Fits, WholeNow, InForce, Pending
<1> QED BY <1>1, <1>4, <1>5 DEF HistoryInv, Kept

\* A store as the constructor leaves it.
LEMMA FreshIs ==
  ASSUME NEW k \in KVs, NEW n \in Keeps
  PROVE  LET w == [store |-> H!Fresh(n), waiters |-> <<>>, kv |-> k] IN
         /\ w \in Worlds /\ w.kv = k /\ w.waiters = <<>>
         /\ ~w.store.on /\ ~w.store.waiting /\ w.store.active = {}
         /\ ~Has(<<>>, "maintain") /\ Once(<<>>, "maintain")
<1>1. /\ H!Fresh(n) \in Stores /\ ~H!Fresh(n).on /\ ~H!Fresh(n).waiting
      /\ H!Fresh(n).active = {}
  BY DEF H!Fresh, Stores
<1>2. <<>> \in Seq(Words) /\ ~Has(<<>>, "maintain") /\ Once(<<>>, "maintain")
  BY DEF Has, Once
<1> QED BY <1>1, <1>2 DEF Worlds

LEMMA ReloadKeeps ==
  ASSUME HistoryInv, H!Reload
  PROVE  HistoryInv' /\ Kept(kv, kv')
<1>1. /\ open' = {} /\ ready' = FALSE /\ waiters' = <<>> /\ chosen' = "none"
      /\ UNCHANGED <<begun, sealed, kv, old>>
  BY DEF H!Reload
<1>2. PICK n \in Keeps : store' = H!Fresh(n)
  BY DEF H!Reload
<1>3. Whole(kv', {}, begun', open', sealed') /\ kv' \in KVs
  BY <1>1, HistoryTypes DEF Whole
<1>4. Fits(H!World)'
  <2> DEFINE w == [store |-> H!Fresh(n), waiters |-> <<>>, kv |-> kv]
  <2>1. /\ w \in Worlds /\ w.kv = kv /\ w.waiters = <<>>
        /\ ~w.store.on /\ ~w.store.waiting /\ w.store.active = {}
        /\ ~Has(<<>>, "maintain") /\ Once(<<>>, "maintain")
    BY <1>1, <1>3, FreshIs
  <2>2. H!World' = w
    BY <1>1, <1>2 DEF H!World
  <2> HIDE DEF w
  <2>3. WholeNow(H!World)'
    BY <1>1, <1>3, <2>1, <2>2 DEF WholeNow
  <2> QED BY <1>1, <2>1, <2>2, <2>3 DEF Fits
<1>5. SessionsFit'
  BY <1>1 DEF HistoryInv, SessionsFit
<1>6. InForce(H!World, chosen)'
  BY <1>1 DEF InForce
<1> QED BY <1>1, <1>4, <1>5, <1>6 DEF HistoryInv, Kept

LEMMA HistoryStarts ==
  H!Init => HistoryInv
<1> SUFFICES ASSUME H!Init PROVE HistoryInv
  OBVIOUS
<1> DEFINE k == [flag |-> FALSE, meta |-> [s \in H!Sessions |-> H!Absent],
                 chunks |-> [s \in H!Sessions |-> {}]]
<1>1. /\ begun = 0 /\ open = {} /\ sealed = [s \in H!Sessions |-> 0] /\ old = {}
      /\ ready = FALSE /\ waiters = <<>> /\ chosen = "none" /\ kv = k
  BY DEF H!Init
<1>2. PICK n \in Keeps : store = H!Fresh(n)
  BY DEF H!Init
<1>3. k \in KVs
  BY HistoryNumbers DEF KVs
<1>4. Whole(k, {}, begun, open, sealed)
  <2>1. 0..(0 - 1) = {}
    OBVIOUS
  <2> QED BY <1>1, <2>1, HistoryNumbers DEF Whole
<1> HIDE DEF k
<1>5. Fits(H!World)
  <2> DEFINE w == [store |-> H!Fresh(n), waiters |-> <<>>, kv |-> k]
  <2>1. /\ w \in Worlds /\ w.kv = k /\ w.waiters = <<>>
        /\ ~w.store.on /\ ~w.store.waiting /\ w.store.active = {}
        /\ ~Has(<<>>, "maintain") /\ Once(<<>>, "maintain")
    BY <1>3, FreshIs
  <2>2. H!World = w
    BY <1>1, <1>2 DEF H!World
  <2> HIDE DEF w
  <2>3. WholeNow(H!World)
    BY <1>4, <2>1, <2>2 DEF WholeNow
  <2> QED BY <1>1, <2>1, <2>2, <2>3 DEF Fits
<1>6. SessionsFit
  BY <1>1, HistoryNumbers DEF SessionsFit
<1> QED BY <1>1, <1>5, <1>6 DEF HistoryInv, InForce

-----------------------------------------------------------------------------
(* The store: the steps of the sessions.                                     *)

\* Sessions with the same status are completed alike, and count alike.
LEMMA SameBounds ==
  ASSUME NEW k, NEW l, NEW a, NEW b,
         \A t \in H!Sessions :
           (t \in H!Completed(l, b) <=> t \in H!Completed(k, a))
           /\ (t \in H!Completed(k, a) => l.meta[t] = k.meta[t])
  PROVE  /\ H!Completed(l, b) = H!Completed(k, a)
         /\ H!BytesOf(l, H!Completed(l, b)) = H!BytesOf(k, H!Completed(k, a))
<1> DEFINE C == H!Completed(k, a)
<1>1. C \subseteq H!Sessions /\ H!Completed(l, b) \subseteq H!Sessions
  BY DEF H!Completed, H!Stored
<1>2. H!Completed(l, b) = C /\ \A t \in C : l.meta[t] = k.meta[t]
  BY <1>1
<1> HIDE DEF C
<1>3. {{t} \X (1..l.meta[t].bytes) : t \in C} = {{t} \X (1..k.meta[t].bytes) : t \in C}
  BY <1>2
<1>4. H!BytesOf(l, C) = H!BytesOf(k, C)
  BY <1>3 DEF H!BytesOf
<1> QED BY <1>2, <1>4 DEF C

LEMMA BeginSessionKeeps ==
  ASSUME HistoryInv, H!Begin
  PROVE  HistoryInv' /\ Kept(kv, kv')
<1> DEFINE s == begun + 1
           m == [H!Absent EXCEPT !.status = "running"]
<1>1. /\ begun < MaxBegun /\ begun' = s /\ open' = open \union {s}
      /\ UNCHANGED <<sealed, ready, waiters, old, chosen>>
  BY DEF H!Begin
<1>2. /\ store \in Stores /\ kv \in KVs /\ Whole(kv, store.active, begun, open, sealed)
      /\ begun \in Nat /\ \A t \in H!Sessions : t \in Nat
  BY HistoryTypes
<1>3. s \in H!Sessions /\ s \in Nat /\ s > begun
  BY <1>1, <1>2, HistoryNumbers DEF H!Sessions
<1>4. kv.meta[s].status = "absent" /\ sealed[s] = 0 /\ s \notin open
  <2>1. open \subseteq 1..begun /\ sealed[s] = 0
    BY <1>3 DEF HistoryInv, SessionsFit
  <2>2. ~(s <= begun)
    BY <1>2
  <2> QED BY <1>2, <1>3, <2>1, <2>2 DEF Whole
<1>5. SessionsFit'
  <2>1. /\ begun' \in 0..MaxBegun /\ open' \subseteq 1..begun' /\ old' \subseteq 1..begun'
    BY <1>1, <1>2, HistoryNumbers DEF HistoryInv, SessionsFit
  <2>2. \A t \in H!Sessions : t > begun' => sealed'[t] = 0
    BY <1>1, <1>2 DEF HistoryInv, SessionsFit
  <2> QED BY <1>1, <2>1, <2>2 DEF HistoryInv, SessionsFit
<1>6. CASE ~H!Accepts
  <2>1. UNCHANGED <<store, kv>>
    BY <1>6 DEF H!Begin
  <2>2. Whole(kv, store.active, begun', open', sealed)
    BY <1>1, <1>2, <1>4 DEF Whole
  <2>3. H!World' = H!World
    BY <1>1, <2>1 DEF H!World
  <2>4. Bounded(H!World) => Bounded(H!World)'
    BY <2>3 DEF Bounded
  <2>5. HistoryInv'
    BY <1>1, <1>2, <1>5, <2>1, <2>2, <2>4, RecordsStep
  <2> QED BY <2>1, <2>5 DEF Kept
<1>7. CASE H!Accepts
  <2>1. /\ store' = [store EXCEPT !.active = store.active \union {s}]
        /\ kv' = [kv EXCEPT !.meta[s] = m]
    BY <1>1, <1>7 DEF H!Begin
  <2>2. m \in H!Metas /\ m.status = "running" /\ m.count = 0 /\ m.bytes = 0
    BY HistoryNumbers DEF H!Metas, H!Absent
  <2> HIDE DEF s, m
  <2>3. /\ store' \in Stores /\ store'.active = store.active \union {s}
        /\ store'.on = store.on /\ store'.recover = store.recover
        /\ store'.waiting = store.waiting /\ store'.timer = store.timer
        /\ store'.keep = store.keep
    BY <1>2, <1>3, <2>1 DEF Stores
  <2>4. /\ kv' \in KVs /\ kv'.flag = kv.flag /\ kv'.chunks = kv.chunks
        /\ kv'.meta[s] = m /\ \A t \in H!Sessions \ {s} : kv'.meta[t] = kv.meta[t]
    BY <1>2, <1>3, <2>1, <2>2 DEF KVs
  <2>5. Whole(kv', store'.active, begun', open', sealed')
    <3>1. kv.chunks[s] = 0..(0 - 1)
      <4>1. s \in H!Sessions /\ kv.meta[s].status = "absent"
        BY <1>3, <1>4
      <4> QED BY <4>1, <1>2 DEF Whole
    <3>2. store'.active \subseteq open'
      BY <1>1, <1>2, <2>3 DEF Whole
    <3>3. begun' \in Nat /\ s <= begun'
      BY <1>1, <1>3
    <3>4. ASSUME NEW t \in H!Sessions \ {s}
          PROVE  /\ kv'.chunks[t] = 0..(kv'.meta[t].count - 1) /\ kv'.meta[t].bytes = kv'.meta[t].count
                 /\ kv'.meta[t].status # "absent" => kv'.meta[t].count = sealed'[t] /\ t <= begun'
                 /\ kv'.meta[t].status = "absent" => kv'.meta[t].count = 0
                 /\ t \in store'.active => kv'.meta[t].status = "running"
                 /\ t \in open' \ store'.active => kv'.meta[t].status = "absent"
      <4>1. t <= begun => t <= begun'
        BY <1>1, <1>2 DEF s
      <4>2. (t \in store'.active <=> t \in store.active) /\ (t \in open' <=> t \in open)
        BY <1>1, <2>3
      <4> QED BY <4>1, <4>2, <1>1, <1>2, <2>4 DEF Whole
    <3>5. /\ kv'.chunks[s] = 0..(kv'.meta[s].count - 1) /\ kv'.meta[s].bytes = kv'.meta[s].count
          /\ kv'.meta[s].status = "running" /\ kv'.meta[s].count = sealed'[s]
          /\ s \in store'.active
      BY <1>1, <1>4, <2>2, <2>3, <2>4, <3>1
    <3> QED BY <3>2, <3>3, <3>4, <3>5 DEF Whole
  <2>6. NoneStale(kv, store.active) => NoneStale(kv', store'.active)
    BY <2>3, <2>4 DEF NoneStale
  <2>7. \A t \in H!Sessions :
          (t \in H!Completed(kv', store'.active) <=> t \in H!Completed(kv, store.active))
          /\ (t \in H!Completed(kv, store.active) => kv'.meta[t] = kv.meta[t])
    BY <1>4, <2>2, <2>3, <2>4 DEF H!Completed, H!Stored
  <2>8. Bounded(H!World) => Bounded(H!World)'
    <3>1. H!World'.store = store' /\ H!World'.kv = kv'
      BY DEF H!World
    <3>2. /\ H!Completed(kv', store'.active) = H!Completed(kv, store.active)
          /\ H!BytesOf(kv', H!Completed(kv', store'.active)) = H!BytesOf(kv, H!Completed(kv, store.active))
      BY <2>7, SameBounds
    <3> QED BY <2>3, <3>1, <3>2, WorldIs DEF Bounded
  <2>9. HistoryInv'
    BY <1>1, <1>5, <2>3, <2>4, <2>5, <2>6, <2>8, RecordsStep
  <2>10. Kept(kv, kv')
    BY <1>4, <2>4 DEF Kept
  <2> QED BY <2>9, <2>10
<1> QED BY <1>6, <1>7

\* A chunk of an active session is the one that is due.
LEMMA ChunkedIs ==
  ASSUME HistoryInv, NEW s \in open, sealed[s] < MaxChunks
  PROVE  LET r == H!Chunked(kv, s, sealed[s], TRUE) IN
         /\ s \in H!Sessions /\ r \in KVs /\ r.flag = kv.flag
         /\ \A t \in H!Sessions \ {s} : r.meta[t] = kv.meta[t] /\ r.chunks[t] = kv.chunks[t]
         /\ s \notin store.active => r = kv
         /\ s \in store.active =>
              /\ r.meta[s].status = "running" /\ kv.meta[s].status = "running"
              /\ r.meta[s].count = sealed[s] + 1 /\ r.meta[s].bytes = sealed[s] + 1
              /\ r.chunks[s] = 0..sealed[s]
<1> DEFINE r == H!Chunked(kv, s, sealed[s], TRUE)
           i == sealed[s]
<1>1. /\ kv \in KVs /\ Whole(kv, store.active, begun, open, sealed)
  BY HistoryTypes
<1>2. s \in H!Sessions /\ i \in Nat /\ i + 1 \in 0..MaxChunks /\ MaxChunks \in Nat
  BY HistoryNumbers DEF HistoryInv, SessionsFit, H!Sessions
<1>3. CASE s \notin store.active
  BY <1>1, <1>2, <1>3 DEF H!Chunked
<1>4. CASE s \in store.active
  <2>1. /\ kv.meta[s].status = "running" /\ kv.meta[s].count = i /\ kv.meta[s].bytes = i
        /\ kv.chunks[s] = 0..(i - 1)
    BY <1>1, <1>2, <1>4 DEF Whole
  <2> DEFINE m == [kv.meta[s] EXCEPT !.count = i + 1, !.bytes = i + 1]
             c == kv.chunks[s] \union {i}
             M1 == [kv.meta EXCEPT ![s] = m]
             C1 == [kv.chunks EXCEPT ![s] = c]
  <2>2. r = [kv EXCEPT !.meta = M1, !.chunks = C1]
    BY <1>1, <1>2, <1>4, <2>1 DEF H!Chunked, KVs
  <2>3. /\ m \in H!Metas /\ m.status = "running" /\ m.count = i + 1 /\ m.bytes = i + 1
    <3>1. kv.meta[s] \in H!Metas
      BY <1>1, <1>2 DEF KVs
    <3> QED BY <1>2, <2>1, <3>1 DEF H!Metas
  <2>4. c = 0..i /\ c \in SUBSET (0..MaxChunks - 1)
    BY <1>2, <2>1
  <2> HIDE DEF m, c
  <2>5. /\ M1 \in [H!Sessions -> H!Metas] /\ C1 \in [H!Sessions -> SUBSET (0..MaxChunks - 1)]
        /\ M1[s] = m /\ C1[s] = c
        /\ \A t \in H!Sessions \ {s} : M1[t] = kv.meta[t] /\ C1[t] = kv.chunks[t]
    BY <1>1, <1>2, <2>3, <2>4 DEF KVs
  <2> HIDE DEF M1, C1, r
  <2>6. r \in KVs /\ r.flag = kv.flag /\ r.meta = M1 /\ r.chunks = C1
    BY <1>1, <2>2, <2>5 DEF KVs
  <2> QED BY <1>2, <1>4, <2>1, <2>3, <2>4, <2>5, <2>6 DEF r
<1> QED BY <1>3, <1>4

LEMMA SealKeeps ==
  ASSUME HistoryInv, NEW s \in H!Sessions, H!Seal(s)
  PROVE  HistoryInv' /\ Kept(kv, kv')
<1> DEFINE r == H!Chunked(kv, s, sealed[s], TRUE)
<1>1. /\ s \in open /\ sealed[s] < MaxChunks
      /\ kv' = r /\ sealed' = [sealed EXCEPT ![s] = sealed[s] + 1]
      /\ UNCHANGED <<begun, open, ready, waiters, store, old, chosen>>
  BY DEF H!Seal
<1>2. /\ store \in Stores /\ kv \in KVs /\ Whole(kv, store.active, begun, open, sealed)
      /\ begun \in Nat /\ \A t \in H!Sessions : t \in Nat
  BY HistoryTypes
<1>3. /\ r \in KVs /\ r.flag = kv.flag
      /\ \A t \in H!Sessions \ {s} : r.meta[t] = kv.meta[t] /\ r.chunks[t] = kv.chunks[t]
      /\ s \notin store.active => r = kv
      /\ s \in store.active =>
           /\ r.meta[s].status = "running" /\ kv.meta[s].status = "running"
           /\ r.meta[s].count = sealed[s] + 1 /\ r.meta[s].bytes = sealed[s] + 1
           /\ r.chunks[s] = 0..sealed[s]
  BY <1>1, ChunkedIs
<1> HIDE DEF r
<1>4. sealed[s] \in Nat /\ sealed[s] + 1 \in 0..MaxChunks /\ s <= begun
  BY <1>1, HistoryNumbers DEF HistoryInv, SessionsFit
<1>5. SessionsFit'
  <2>1. sealed' \in [H!Sessions -> 0..MaxChunks]
    BY <1>1, <1>4 DEF HistoryInv, SessionsFit
  <2>2. \A t \in H!Sessions : t > begun => sealed'[t] = 0
    BY <1>1, <1>2, <1>4 DEF HistoryInv, SessionsFit
  <2> QED BY <1>1, <2>1, <2>2 DEF HistoryInv, SessionsFit
<1>6. \A t \in H!Sessions \ {s} : sealed'[t] = sealed[t]
  BY <1>1 DEF HistoryInv, SessionsFit
<1>7. sealed'[s] = sealed[s] + 1
  BY <1>1 DEF HistoryInv, SessionsFit
<1>8. Whole(kv', store.active, begun, open, sealed')
  <2>1. CASE s \in store.active
    <3>1. r.meta[s].count - 1 = sealed[s]
      BY <2>1, <1>3, <1>4
    <3>2. r.chunks[s] = 0..(r.meta[s].count - 1)
      BY <2>1, <3>1, <1>3
    <3> QED BY <2>1, <3>2, <1>1, <1>2, <1>3, <1>4, <1>6, <1>7 DEF Whole
  <2>2. CASE s \notin store.active
    <3>1. kv.meta[s].status = "absent"
      BY <2>2, <1>1, <1>2 DEF Whole
    <3> QED BY <2>2, <3>1, <1>1, <1>2, <1>3, <1>6 DEF Whole
  <2> QED BY <2>1, <2>2
<1>9. \A t \in H!Sessions : kv'.meta[t].status = kv.meta[t].status
                          /\ (t # s \/ t \notin store.active => kv'.meta[t] = kv.meta[t] /\ kv'.chunks[t] = kv.chunks[t])
  BY <1>1, <1>3
<1>10. NoneStale(kv, store.active) => NoneStale(kv', store.active)
  BY <1>9 DEF NoneStale
<1>11. \A t \in H!Sessions :
          (t \in H!Completed(kv', store.active) <=> t \in H!Completed(kv, store.active))
          /\ (t \in H!Completed(kv, store.active) => kv'.meta[t] = kv.meta[t])
  BY <1>9 DEF H!Completed, H!Stored
<1>12. Bounded(H!World) => Bounded(H!World)'
  <2>1. H!World'.store = store /\ H!World'.kv = kv'
    BY <1>1 DEF H!World
  <2> QED BY <1>11, <2>1, SameBounds, WorldIs DEF Bounded
<1>13. HistoryInv'
  BY <1>1, <1>2, <1>3, <1>5, <1>8, <1>10, <1>12, RecordsStep
<1>14. Kept(kv, kv')
  <2>1. s \in store.active => kv.meta[s].status = "running"
    BY <1>2 DEF Whole
  <2> QED BY <1>9, <2>1 DEF Kept
<1> QED BY <1>13, <1>14

LEMMA EndSessionKeeps ==
  ASSUME HistoryInv, NEW s \in H!Sessions, H!End(s)
  PROVE  HistoryInv' /\ Kept(kv, kv')
<1>1. PICK n \in {sealed[s], sealed[s] + 1} :
        /\ s \in open /\ open' = open \ {s} /\ n <= MaxChunks
        /\ sealed' = [sealed EXCEPT ![s] = n]
        /\ kv' = H!Ended(IF n > sealed[s] THEN H!Chunked(kv, s, sealed[s], TRUE) ELSE kv, s, n)
        /\ store' = [store EXCEPT !.active = store.active \ {s}]
        /\ UNCHANGED <<begun, ready, waiters, old, chosen>>
  BY DEF H!End
<1> DEFINE mid == IF n > sealed[s] THEN H!Chunked(kv, s, sealed[s], TRUE) ELSE kv
           a == store.active \ {s}
<1>2. /\ store \in Stores /\ kv \in KVs /\ Whole(kv, store.active, begun, open, sealed)
      /\ begun \in Nat /\ \A t \in H!Sessions : t \in Nat
  BY HistoryTypes
<1>3. sealed[s] \in Nat /\ n \in 0..MaxChunks /\ n \in Nat /\ s <= begun /\ MaxChunks \in Nat
      /\ (n > sealed[s] => n = sealed[s] + 1 /\ sealed[s] < MaxChunks)
      /\ (~(n > sealed[s]) => n = sealed[s])
  BY <1>1, HistoryNumbers DEF HistoryInv, SessionsFit
<1>4. /\ mid \in KVs /\ mid.flag = kv.flag
      /\ \A t \in H!Sessions \ {s} : mid.meta[t] = kv.meta[t] /\ mid.chunks[t] = kv.chunks[t]
      /\ s \notin store.active => mid = kv
      /\ s \in store.active =>
           /\ mid.meta[s].status = "running" /\ kv.meta[s].status = "running"
           /\ mid.meta[s].bytes = n /\ mid.chunks[s] = 0..(n - 1)
  <2>1. CASE n > sealed[s]
    <3> DEFINE r == H!Chunked(kv, s, sealed[s], TRUE)
    <3>1. /\ r \in KVs /\ r.flag = kv.flag
          /\ \A t \in H!Sessions \ {s} : r.meta[t] = kv.meta[t] /\ r.chunks[t] = kv.chunks[t]
          /\ s \notin store.active => r = kv
          /\ s \in store.active =>
               /\ r.meta[s].status = "running" /\ kv.meta[s].status = "running"
               /\ r.meta[s].count = sealed[s] + 1 /\ r.meta[s].bytes = sealed[s] + 1
               /\ r.chunks[s] = 0..sealed[s]
      BY <1>1, <1>3, <2>1, ChunkedIs
    <3>2. mid = r
      BY <2>1
    <3>3. n = sealed[s] + 1 /\ n - 1 = sealed[s]
      BY <1>3, <2>1
    <3> HIDE DEF mid, r
    <3> QED BY <3>1, <3>2, <3>3
  <2>2. CASE ~(n > sealed[s])
    <3>1. mid = kv /\ n = sealed[s]
      BY <1>3, <2>2
    <3>2. s \in store.active =>
            /\ kv.meta[s].status = "running"
            /\ kv.meta[s].bytes = n /\ kv.chunks[s] = 0..(n - 1)
      BY <1>2, <3>1 DEF Whole
    <3> HIDE DEF mid
    <3> QED BY <1>2, <3>1, <3>2
  <2> QED BY <2>1, <2>2
<1>5. kv' = H!Ended(mid, s, n)
  BY <1>1
<1> HIDE DEF mid
<1>6. /\ store' \in Stores /\ store'.active = a
      /\ store'.on = store.on /\ store'.recover = store.recover
      /\ store'.waiting = store.waiting /\ store'.timer = store.timer
      /\ store'.keep = store.keep
  BY <1>1, <1>2 DEF Stores
<1>7. \A t \in H!Sessions : sealed'[t] = IF t = s THEN n ELSE sealed[t]
  BY <1>1 DEF HistoryInv, SessionsFit
<1>8. SessionsFit'
  <2>1. sealed' \in [H!Sessions -> 0..MaxChunks]
    BY <1>1, <1>3 DEF HistoryInv, SessionsFit
  <2>2. \A t \in H!Sessions : t > begun => sealed'[t] = 0
    BY <1>2, <1>3, <1>7 DEF HistoryInv, SessionsFit
  <2> QED BY <1>1, <2>1, <2>2 DEF HistoryInv, SessionsFit
<1>9. CASE s \notin store.active
  <2>1. kv' = kv
    BY <1>4, <1>5, <1>9 DEF H!Ended
  <2>2. a = store.active /\ kv.meta[s].status = "absent"
    BY <1>1, <1>2, <1>9 DEF Whole
  <2> HIDE DEF a
  <2>3. Whole(kv', a, begun, open', sealed')
    <3>1. \A t \in H!Sessions : kv'.meta[t].status # "absent" => t # s
      BY <2>1, <2>2
    <3>2. /\ open' \subseteq open /\ s \notin open' /\ a \subseteq open'
      BY <1>1, <1>2, <1>9, <2>2 DEF Whole
    <3>3. \A t \in H!Sessions : t # s => sealed'[t] = sealed[t]
      BY <1>7
    <3> QED BY <1>2, <2>1, <2>2, <3>1, <3>2, <3>3 DEF Whole
  <2>4. Bounded(H!World) => Bounded(H!World)'
    <3>1. H!World'.store = store' /\ H!World'.kv = kv'
      BY DEF H!World
    <3> QED BY <1>6, <2>1, <2>2, <3>1, WorldIs DEF Bounded
  <2>5. HistoryInv'
    BY <1>1, <1>2, <1>6, <1>8, <2>1, <2>2, <2>3, <2>4, RecordsStep
  <2> QED BY <2>1, <2>5 DEF Kept
<1>10. CASE s \in store.active
  <2> DEFINE m == [mid.meta[s] EXCEPT !.status = "ended", !.count = n]
             fin == [mid EXCEPT !.meta[s] = m]
  <2>1. m \in H!Metas /\ m.status = "ended" /\ m.count = n /\ m.bytes = n
    <3>1. mid.meta[s] \in H!Metas /\ mid.meta[s].bytes = n
      BY <1>4, <1>10 DEF KVs
    <3> QED BY <1>3, <3>1 DEF H!Metas
  <2>2. kv' = H!Cleaned(fin, a, store.keep)
    <3>1. fin = [mid EXCEPT !.meta[s].status = "ended", !.meta[s].count = n]
      BY <1>4 DEF KVs
    <3> QED BY <1>5, <1>10, <3>1 DEF H!Ended
  <2> HIDE DEF m
  <2>3. /\ fin \in KVs /\ fin.flag = mid.flag /\ fin.chunks = mid.chunks
        /\ fin.meta[s] = m /\ \A t \in H!Sessions \ {s} : fin.meta[t] = mid.meta[t]
    BY <1>4, <2>1 DEF KVs
  <2> HIDE DEF fin
  <2>4. Whole(fin, a, begun, open', sealed')
    <3>1. ASSUME NEW t \in H!Sessions \ {s}
          PROVE  /\ fin.chunks[t] = 0..(fin.meta[t].count - 1)
                 /\ fin.meta[t].bytes = fin.meta[t].count
                 /\ fin.meta[t].status # "absent" => fin.meta[t].count = sealed'[t] /\ t <= begun
                 /\ fin.meta[t].status = "absent" => fin.meta[t].count = 0
                 /\ t \in a => fin.meta[t].status = "running"
                 /\ t \in open' \ a => fin.meta[t].status = "absent"
      <4>1. fin.meta[t] = kv.meta[t] /\ fin.chunks[t] = kv.chunks[t] /\ sealed'[t] = sealed[t]
        BY <1>4, <1>7, <2>3
      <4>2. (t \in a <=> t \in store.active) /\ (t \in open' <=> t \in open)
        BY <1>1
      <4> QED BY <4>1, <4>2, <1>2 DEF Whole
    <3>2. /\ fin.chunks[s] = 0..(fin.meta[s].count - 1)
          /\ fin.meta[s].bytes = fin.meta[s].count /\ fin.meta[s].status = "ended"
          /\ fin.meta[s].count = sealed'[s] /\ s <= begun /\ s \notin a /\ s \notin open'
      BY <1>1, <1>3, <1>4, <1>7, <1>10, <2>1, <2>3
    <3>3. a \subseteq open'
      BY <1>1, <1>2 DEF Whole
    <3> HIDE DEF a
    <3> QED BY <3>1, <3>2, <3>3 DEF Whole
  <2>5. NoneStale(kv, store.active) => NoneStale(fin, a)
    BY <1>4, <2>1, <2>3 DEF NoneStale
  <2>6. Unchanged(kv, fin)
    BY <1>4, <1>10, <2>3 DEF Unchanged
  <2> HIDE DEF a
  <2>7. store.keep \in Nat \ {0}
    BY <1>2, HistoryNumbers DEF Stores
  <2>8. PICK S \in SUBSET H!Completed(fin, a) : Less(fin, kv', S)
    BY <2>2, <2>3, <2>7, CleanedIs
  <2>9. /\ H!Cardinality(H!Completed(kv', a)) <= store.keep
        /\ H!BytesOf(kv', H!Completed(kv', a)) <= MaxBytes
    BY <2>2, <2>3, <2>7, CleanedIs
  <2>10. S \in SUBSET (H!Sessions \ a)
    BY DEF H!Completed, H!Stored
  <2>11. /\ Whole(kv', a, begun, open', sealed')
         /\ NoneStale(fin, a) => NoneStale(kv', a)
         /\ Kept(kv, kv')
    BY <2>3, <2>4, <2>6, <2>8, <2>10, LessIs
  <2>12. kv' \in KVs /\ kv'.flag = kv.flag
    BY <1>4, <2>3, <2>8 DEF Less
  <2>13. Bounded(H!World)'
    <3>1. H!World'.store = store' /\ H!World'.kv = kv'
      BY DEF H!World
    <3> QED BY <1>6, <2>9, <3>1 DEF Bounded
  <2>14. HistoryInv'
    BY <1>1, <1>6, <1>8, <2>5, <2>11, <2>12, <2>13, RecordsStep
  <2> QED BY <2>11, <2>14
<1> QED BY <1>9, <1>10

LEMMA HistoryStep ==
  ASSUME HistoryInv, H!Next
  PROVE  HistoryInv' /\ Kept(kv, kv')
<1>1. ASSUME NEW to \in BOOLEAN, H!Choose(to)
      PROVE  HistoryInv' /\ Kept(kv, kv')
  BY <1>1, ChooseKeeps
<1>2. ASSUME NEW n \in Keeps, NEW retimed \in BOOLEAN, H!Configure(n, retimed)
      PROVE  HistoryInv' /\ Kept(kv, kv')
  BY <1>2, ConfigureKeeps
<1>3. ASSUME NEW s \in H!Sessions, H!Seal(s) \/ H!End(s) \/ H!Delete(s) \/ H!Age(s)
      PROVE  HistoryInv' /\ Kept(kv, kv')
  BY <1>3, SealKeeps, EndSessionKeeps, DeleteKeeps, AgeKeeps
<1>4. CASE H!Restore \/ H!Begin \/ H!Clear
  BY <1>4, RestoreKeeps, BeginSessionKeeps, ClearKeeps
<1>5. CASE H!Sweep \/ H!WorldLoad \/ H!Drain \/ H!Reload
  BY <1>5, SweepKeeps, WorldLoadKeeps, DrainKeeps, ReloadKeeps
<1> QED BY <1>1, <1>2, <1>3, <1>4, <1>5 DEF H!Next

LEMMA HistoryKeeps ==
  Runtime => [](subject = "history" => HistoryInv)
<1>1. RuntimeInit => (subject = "history" => HistoryInv)
  BY HistoryStarts DEF RuntimeInit
<1>2. (subject = "history" => HistoryInv) /\ [RuntimeNext]_runtimeVars
        => (subject = "history" => HistoryInv)'
  <2> SUFFICES ASSUME subject = "history" => HistoryInv, [RuntimeNext]_runtimeVars,
                      subject' = "history"
               PROVE  HistoryInv'
    OBVIOUS
  <2>1. CASE UNCHANGED runtimeVars
    <3>1. /\ HistoryInv /\ H!World' = H!World
          /\ UNCHANGED <<begun, open, sealed, ready, old, chosen>>
      BY <2>1 DEF runtimeVars, historyVars, H!World
    <3> QED BY <3>1 DEF HistoryInv, SessionsFit, Fits, WholeNow, InForce, Pending
  <2>2. CASE RuntimeNext
    <3>1. subject = "history" /\ H!Next
      BY <2>2 DEF RuntimeNext
    <3> QED BY <3>1, HistoryStep
  <2> QED BY <2>1, <2>2
<1> QED BY <1>1, <1>2, PTL DEF Runtime

\* Whatever is toggled, configured, deleted and reloaded in between: what the metadata
\* counts of a session is stored, and all of it; a record says running as long as its
\* session does; the completed ones stay within number and size; and the last choice of
\* the pack is in force (historyStore.ts).
THEOREM HistoryStaysSound ==
  Runtime => []HistoryIsSound
<1>1. (subject = "history" => HistoryInv) => HistoryIsSound
  <2> SUFFICES ASSUME subject = "history", HistoryInv PROVE H!HistoryIsSound
    BY DEF HistoryIsSound
  <2>1. /\ store \in Stores /\ kv \in KVs /\ waiters \in Seq(Words)
        /\ Whole(kv, store.active, begun, open, sealed) /\ Fits(H!World)
    BY HistoryTypes DEF HistoryInv
  <2>2. "maintain" \in H!Range(waiters) <=> Has(waiters, "maintain")
    <3>1. waiters \in [1..Len(waiters) -> Words]
      BY <2>1, SeqDef, LenProperties
    <3>2. H!Range(waiters) = {waiters[i] : i \in DOMAIN waiters}
      BY DEF H!Range
    <3> QED BY <3>1, <3>2 DEF Has
  <2>3. H!StoredIsWhole
    BY <2>1 DEF Whole, H!StoredIsWhole, H!StoredIsReadable, H!NothingIsLost, H!Stored
  <2>4. H!TypeOK
    <3>1. waiters \in Seq({"maintain", "restore", "on", "off"})
      BY <2>1 DEF Words
    <3>2. store.active \subseteq open
      BY <2>1 DEF Whole
    <3> QED BY <2>1, <3>1, <3>2
            DEF HistoryInv, SessionsFit, Stores, KVs, H!TypeOK
  <2>5. H!ActiveIsKept
    <3>1. store.active \subseteq H!Sessions
      BY <2>1 DEF Stores
    <3> QED BY <2>1, <3>1 DEF Whole, H!ActiveIsKept
  <2>6. H!StaleIsRecovered
    BY <2>1, <2>2, WorldIs DEF Fits, NoneStale, H!StaleIsRecovered, H!Settled
  <2>7. H!RetentionHolds
    BY <2>1, <2>2, WorldIs DEF Fits, Bounded, H!RetentionHolds, H!Settled
  <2>8. H!ChoiceSticks
    <3> SUFFICES ASSUME waiters = <<>>, chosen # "none"
                 PROVE  chosen = H!Word(store.on) /\ kv.flag = store.on
      BY DEF H!ChoiceSticks
    <3>1. (store.on <=> chosen = "on") /\ (kv.flag <=> chosen = "on")
      BY WorldIs DEF HistoryInv, InForce, Pending
    <3>2. store.on \in BOOLEAN /\ kv.flag \in BOOLEAN /\ chosen \in {"none", "on", "off"}
      BY <2>1 DEF Stores, KVs, HistoryInv
    <3> QED BY <3>1, <3>2 DEF H!Word
  <2> QED BY <2>3, <2>4, <2>5, <2>6, <2>7, <2>8 DEF H!HistoryIsSound, H!RunningIsActive
<1> QED BY <1>1, HistoryKeeps, PTL

\* No operation of the store changes a finished session, but to delete it as a whole.
THEOREM FinishedStaysFrozen ==
  Runtime => FinishedIsFrozen
<1>1. (subject = "history" => HistoryInv) /\ [RuntimeNext]_runtimeVars
        => [subject = "history" => H!FinishedIsFrozen]_runtimeVars
  <2> SUFFICES ASSUME subject = "history" => HistoryInv, RuntimeNext, subject = "history"
               PROVE  H!FinishedIsFrozen
    OBVIOUS
  <2>1. HistoryInv /\ H!Next
    BY DEF RuntimeNext
  <2>2. Kept(kv, kv')
    BY <2>1, HistoryStep
  <2> QED BY <2>2 DEF Kept, H!FinishedIsFrozen
<1> QED BY <1>1, HistoryKeeps, PTL DEF Runtime, FinishedIsFrozen
=============================================================================
