----------------------------- MODULE TraceBridge -----------------------------
(***************************************************************************)
(* createServerNetTraceBridge (trace/src/serverNet.ts): the connection of a  *)
(* behavior pack on a Bedrock Dedicated Server to the Observatory.           *)
(*                                                                          *)
(* `bridge` holds the variables of the closure.  websocket.connect() is      *)
(* awaited, so an attempt is in flight from Connect to Opens or Fails, and   *)
(* start(), stop(), the timer and the close events of earlier sockets come   *)
(* between.  Times are ticks.  The requests served on the socket are not     *)
(* modelled here: they change nothing of this.                               *)
(***************************************************************************)
EXTENDS Naturals, FiniteSets

CONSTANTS
  Sockets,      \* bound: sockets that exist at once
  None,
  Base,         \* reconnectTicks
  Ceiling,      \* maxReconnectTicks
  MaxFailures,  \* maxConsecutiveFailures
  FirstReport,  \* what onError does when told of the first failure, and
  PauseReport,  \* when told that the bridge has paused: members of Reactions
  LateCloses    \* a socket's close event may come after it was closed

Reactions == {"nothing", "start", "stop", "restart", "throw"}

BridgeAssumption ==
  /\ Base \in Nat \ {0} /\ Ceiling \in Nat /\ Base <= Ceiling
  /\ MaxFailures \in Nat \ {0}
  /\ None \notin Sockets /\ None \notin Nat
  /\ FirstReport \subseteq Reactions /\ PauseReport \subseteq Reactions
  /\ LateCloses \in BOOLEAN

VARIABLES
  bridge,  \* the variables of the closure; reconnect: ticks the timer has left,
           \* dials: attempts since it last connected, was started or stopped
  conns,   \* what the host knows of each socket
  since,   \* ticks since an attempt failed, up to Ceiling
  stray    \* history: the timer was set by a close event while an attempt was in flight

vars == <<bridge, conns, since, stray>>

Bridge == [stopped : BOOLEAN, suspended : BOOLEAN, connecting : BOOLEAN,
           reconnect : {None} \union 0..Ceiling, failures : 0..MaxFailures,
           told : BOOLEAN, socket : {None} \union Sockets, dials : Nat]

Open(c) == c # None /\ conns[c] = "open"

Lesser(a, b) == IF a < b THEN a ELSE b

\* reconnectDelayTicks()
Delay(failures) ==
  Lesser(Base * (2 ^ (IF failures = 0 THEN 0 ELSE Lesser(failures - 1, 30))), Ceiling)

\* Mutant: a pending timer is replaced, not kept, and the delay does not grow.
ScheduleFlat(b) ==
  IF b.stopped \/ b.suspended THEN b ELSE [b EXCEPT !.reconnect = Base]

\* scheduleReconnect()
Schedule(b) ==
  IF b.stopped \/ b.suspended \/ b.reconnect # None
  THEN b
  ELSE [b EXCEPT !.reconnect = Delay(b.failures)]

\* connect(), up to its await
Connect(b) ==
  IF b.stopped \/ b.suspended \/ b.connecting \/ Open(b.socket)
  THEN b
  ELSE [b EXCEPT !.connecting = TRUE, !.dials = @ + 1]

Cleared(b) ==
  [b EXCEPT !.suspended = FALSE, !.failures = 0, !.told = FALSE, !.dials = 0]

Idle(b) == b.stopped \/ b.suspended

\* start()
Started(b) ==
  IF Idle(b) THEN Connect([Cleared(b) EXCEPT !.stopped = FALSE]) ELSE b

\* stop(), which also closes the socket
Stopped(b) ==
  [Cleared(b) EXCEPT !.stopped = TRUE, !.reconnect = None, !.socket = None]

\* What onError makes of the bridge when it is told of a failure.
Reacted(b, reaction) ==
  CASE reaction = "start"   -> Started(b)
    [] reaction = "stop"    -> Stopped(b)
    [] reaction = "restart" -> Started(Stopped(b))
    [] OTHER                -> b

(* fail() and then the `finally` of connect().  onError does `first` when it *)
(* is told of the first failure and `paused` when it is told of the pause;   *)
(* one that throws ends fail() there.                                        *)
Failed(b, first, paused) ==
  LET counted == [b EXCEPT !.failures = @ + 1, !.told = TRUE]
      told == IF b.told THEN counted ELSE Reacted(counted, first)
      last == IF ~b.told /\ first = "throw"
              THEN told
              ELSE IF told.failures >= MaxFailures
              THEN Reacted([told EXCEPT !.suspended = TRUE], paused)
              ELSE Schedule(told)
  IN [last EXCEPT !.connecting = FALSE]

\* Mutant: the close event of another socket than the last one is waited for.
ClosedQuietly(b, c) == [b EXCEPT !.socket = IF @ = c THEN None ELSE @]

\* the close event of a socket
Closed(b, c) == Schedule([b EXCEPT !.socket = IF @ = c THEN None ELSE @])

Settled == LateCloses \/ \A c \in Sockets : conns[c] # "closing"

\* The pending timer, if there is one, is still the one that was pending before.
KeepsTimer == stray' = (stray /\ bridge'.reconnect # None /\ bridge.reconnect # None)

-----------------------------------------------------------------------------
(* The pack's calls *)

Start ==
  /\ Settled
  /\ Idle(bridge)
  /\ bridge' = Started(bridge)
  /\ KeepsTimer
  /\ UNCHANGED <<conns, since>>

Stop ==
  /\ Settled
  /\ bridge' = Stopped(bridge)
  /\ conns' = [c \in Sockets |->
                 IF c = bridge.socket /\ Open(c) THEN "closing" ELSE conns[c]]
  /\ KeepsTimer
  /\ UNCHANGED since

-----------------------------------------------------------------------------
(* The answers to websocket.connect() *)

\* Mutant: a connection that comes after stop() is kept.
OpensAnyway(c) ==
  /\ Settled
  /\ bridge.connecting /\ conns[c] = "free"
  /\ bridge' = [bridge EXCEPT !.connecting = FALSE, !.socket = c,
                              !.failures = 0, !.told = FALSE, !.dials = 0]
  /\ conns' = [conns EXCEPT ![c] = "open"]
  /\ KeepsTimer
  /\ UNCHANGED since

\* A connection that comes after stop() is closed before anyone listens to it.
Opens(c) ==
  /\ Settled
  /\ bridge.connecting /\ conns[c] = "free"
  /\ IF bridge.stopped
     THEN /\ bridge' = [bridge EXCEPT !.connecting = FALSE]
          /\ UNCHANGED conns
     ELSE /\ bridge' = [bridge EXCEPT !.connecting = FALSE, !.socket = c,
                                      !.failures = 0, !.told = FALSE, !.dials = 0]
          /\ conns' = [conns EXCEPT ![c] = "open"]
  /\ KeepsTimer
  /\ UNCHANGED since

Fails ==
  /\ Settled
  /\ bridge.connecting
  /\ \E first \in FirstReport, paused \in PauseReport :
       bridge' = Failed(bridge, first, paused)
  /\ since' = 0
  /\ KeepsTimer
  /\ UNCHANGED conns

-----------------------------------------------------------------------------
(* The sockets and the clock *)

\* The Observatory, or the network, drops the connection.
Drops(c) ==
  /\ Settled
  /\ conns[c] = "open"
  /\ conns' = [conns EXCEPT ![c] = "closing"]
  /\ UNCHANGED <<bridge, since, stray>>

CloseEvent(c) ==
  /\ conns[c] = "closing"
  /\ conns' = [conns EXCEPT ![c] = "free"]
  /\ bridge' = Closed(bridge, c)
  /\ stray' = IF bridge.reconnect = None
              THEN bridge'.reconnect # None /\ bridge.connecting
              ELSE stray
  /\ UNCHANGED since

TimerFires ==
  /\ Settled
  /\ bridge.reconnect = 0
  /\ bridge' = Connect([bridge EXCEPT !.reconnect = None])
  /\ KeepsTimer
  /\ UNCHANGED <<conns, since>>

Tick ==
  /\ Settled
  /\ bridge.reconnect # 0
  /\ bridge' = [bridge EXCEPT !.reconnect = IF @ = None THEN None ELSE @ - 1]
  /\ since' = Lesser(since + 1, Ceiling)
  /\ KeepsTimer
  /\ UNCHANGED conns

Init ==
  /\ bridge = [stopped |-> TRUE, suspended |-> FALSE, connecting |-> FALSE,
               reconnect |-> None, failures |-> 0, told |-> FALSE,
               socket |-> None, dials |-> 0]
  /\ conns = [c \in Sockets |-> "free"]
  /\ since = Ceiling
  /\ stray = FALSE

Next ==
  \/ Start
  \/ Stop
  \/ \E c \in Sockets : Opens(c) \/ Drops(c) \/ CloseEvent(c)
  \/ Fails
  \/ TimerFires
  \/ Tick

Spec == Init /\ [][Next]_vars

(* The host keeps its clock going, runs what is due and delivers the close   *)
(* events.  Nothing is assumed of the Observatory, nor that attempts end.    *)
FairSpec ==
  Spec /\ WF_vars(Tick) /\ WF_vars(TimerFires)
       /\ \A c \in Sockets : WF_vars(CloseEvent(c))

-----------------------------------------------------------------------------

\* The types of the variables (serverNet.ts:269-275).
TypeOK ==
  /\ bridge \in Bridge
  /\ conns \in [Sockets -> {"free", "open", "closing"}]
  /\ since \in 0..Ceiling
  /\ stray \in BOOLEAN

\* No connection is open but the one the bridge would close: stop() and start()
\* while an attempt is in flight, and close events of earlier sockets, leave no
\* socket behind that still serves requests (serverNet.ts:434-445, 473-488).
\* After stop() there is no connection and no timer, whatever attempt was in flight
\* and whatever close event is still to come: "Disconnect and stop reconnecting."
\* (serverNet.ts:235).
NoneIsLeft ==
  /\ \A c \in Sockets : Open(c) => c = bridge.socket
  /\ bridge.stopped => bridge.socket = None /\ bridge.reconnect = None

\* However timers, close events and calls interleave, the bridge never makes
\* more than MaxFailures attempts in a row that do not connect, unless it is
\* started again: more have been seen to abort the server (serverNet.ts:221-229).
CapBoundsDials == bridge.dials <= MaxFailures

NothingLeaks == TypeOK /\ NoneIsLeft /\ CapBoundsDials

\* A timer never starts an attempt sooner after the last one failed than the
\* backoff says (serverNet.ts:390-402, docs server-net-export.md:67-68), but for one
\* that a close event has set while that attempt was in flight (serverNet.ts:444).
BackoffKept ==
  TimerFires /\ ~stray /\ ~bridge.connecting /\ bridge'.connecting
    => since >= Delay(bridge.failures)

\* The bridge is neither stopped nor paused, and has no connection and no attempt.
Waits == ~Idle(bridge) /\ ~Open(bridge.socket) /\ ~bridge.connecting

\* A bridge that waits makes another attempt (serverNet.ts:396-402, 442-445).
Redials == []<>~Waits

=============================================================================
