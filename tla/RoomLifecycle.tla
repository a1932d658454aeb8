---------------------------- MODULE RoomLifecycle ----------------------------
(***************************************************************************)
(* A room that closes itself: the root state of a game with the components  *)
(* docs/room-lifecycle.md combines, DisconnectTimeoutComponent              *)
(* (releaseOnTimeout) and AutoStopComponent (gameComponent/common), on the  *)
(* players' connections, their membership and the server's ticks.           *)
(*                                                                          *)
(* A delay of the state's runner that elapses in a tick is `due`; its       *)
(* script runs in that tick, in any order with the others, and with game    *)
(* code between.  Cancelling a due script may come too late to stop it      *)
(* (runDelay() in RunnerManager): it is removed from `due`, or not.         *)
(* A connection event is delivered to the component while it is `event`.    *)
(* A delay whose entry in `timers` a late script deleted is not followed.   *)
(***************************************************************************)
EXTENDS Naturals, FiniteSets

CONSTANTS
  Players,
  None,
  Timeout,    \* ticks of grace
  Interval,   \* AutoStopComponent.CHECK_INTERVAL_TICKS
  Scoped,     \* both components watch a groupSet whose members change
  Loading,    \* a player is on the server for a while before the spawn event
  Callbacks,  \* what onOffline does: "returns", "throws", "leaves" (the player out)
  Vetoes,     \* what canStop() does: "yes", "no", "throws"
  Reenters    \* subscribers before the component in a delivery run game code

ASSUME RoomAssumption ==
  /\ None \notin Nat /\ None \notin Players /\ None \notin {"online", "offline"} \X Players
  /\ Timeout \in Nat \ {0} /\ Interval \in Nat \ {0}
  /\ Scoped \in BOOLEAN /\ Loading \in BOOLEAN /\ Reenters \in BOOLEAN
  /\ Callbacks \subseteq {"returns", "throws", "leaves"} /\ Callbacks # {}
  /\ Vetoes \subseteq {"yes", "no", "throws"} /\ Vetoes # {}

VARIABLES
  server,     \* "off", "loading" (found by getPlayer), "on" (spawned)
  away,       \* ticks since the player was last there, spawned; counted to Timeout
  members,    \* participants of the game
  group,      \* members of the groupSet
  active,     \* the game is active
  attached,   \* the state is entered, its components attached
  timers,     \* DisconnectTimeoutComponent.timers, by the ticks left; 0 is due
  joinChecks, \* players whose "joined" notification is looked at in the next tick
  pending,    \* AutoStopComponent.pendingCheck
  periodic,   \* AutoStopComponent.periodicCheck, by the ticks left; 0 is due
  canStop,    \* what the options' canStop() would do now
  due,        \* scripts whose delay has elapsed in this tick
  event       \* the connection event being delivered

connection == <<server, away>>
timing == <<timers, joinChecks, due>>
checks == <<pending, periodic>>
vars == <<connection, members, group, active, attached, timing, checks, canStop, event>>

Script(what, p) == <<what, p>>

Scripts == {"timeout", "join"} \X Players \union {"pending", "periodic"} \X {None}

Quiet == due = {} /\ event = None

\* Game code may run: between events and scripts, and inside a delivery if Reenters.
MayCall == active /\ (event # None => Reenters)

Scope == members \intersect group

-----------------------------------------------------------------------------
(* Timers *)

\* startTimeout(): once per player.
Start(ts, P) == [p \in Players |-> IF p \in P /\ ts[p] = None THEN Timeout ELSE ts[p]]

\* cancelTimeout(): of a script that is due, perhaps too late.
CancelTimeout(p) ==
  /\ timers' = [timers EXCEPT ![p] = None]
  /\ IF timers[p] # None
     THEN \E late \in BOOLEAN : due' = IF late THEN due ELSE due \ {Script("timeout", p)}
     ELSE UNCHANGED due

\* Mutant: the auto-stop timers are not cancelled.
DetachKeepsChecks(scripts) ==
  /\ attached' = FALSE
  /\ timers' = [p \in Players |-> None]
  /\ joinChecks' = {}
  /\ due' \in SUBSET scripts
  /\ UNCHANGED checks

\* The state exits: both onDetach, and the runner is disposed of, which may be too
\* late for some of the due scripts.
Detach(scripts) ==
  /\ attached' = FALSE
  /\ timers' = [p \in Players |-> None]
  /\ joinChecks' = {}
  /\ pending' = FALSE /\ periodic' = None
  /\ due' \in SUBSET scripts

\* stopGame(): the states exit and the participation is cleared.
StopGame(scripts) ==
  /\ active' = FALSE
  /\ members' = {}
  /\ Detach(scripts)
  /\ UNCHANGED <<connection, group, canStop>>

\* reconcile(): one pending check at a time.
Reconcile == pending' = attached

-----------------------------------------------------------------------------
(* Game code *)

\* join(): wrappers and groups come after, so the component looks a tick later.
Join(p) ==
  /\ MayCall
  /\ p \notin members
  /\ members' = members \union {p}
  /\ joinChecks' = IF attached THEN joinChecks \union {p} ELSE joinChecks
  /\ Reconcile
  /\ UNCHANGED <<connection, group, active, attached, timers, due, periodic, canStop, event>>

\* leave(): both components hear of it.
Leave(p) ==
  /\ MayCall
  /\ p \in members
  /\ members' = members \ {p}
  /\ IF attached THEN CancelTimeout(p) ELSE UNCHANGED <<timers, due>>
  /\ Reconcile
  /\ UNCHANGED <<connection, group, active, attached, joinChecks, periodic, canStop, event>>

\* A player enters or leaves the group; all offline members in it are looked at.
GroupChanges(p) ==
  /\ MayCall /\ Scoped
  /\ group' = IF p \in group THEN group \ {p} ELSE group \union {p}
  /\ timers' = IF attached
               THEN Start(timers, {q \in members \intersect group' : server[q] = "off"})
               ELSE timers
  /\ Reconcile
  /\ UNCHANGED <<connection, members, active, attached, joinChecks, due, periodic, canStop, event>>

\* What canStop() depends on changes; nobody need call reconcile().
VetoChanges ==
  /\ MayCall
  /\ canStop' \in Vetoes
  /\ UNCHANGED <<connection, members, group, active, attached, timing, checks, event>>

ExitState ==
  /\ MayCall /\ attached
  /\ Detach(due)
  /\ UNCHANGED <<connection, members, group, active, canStop, event>>

GameStops == MayCall /\ StopGame(due) /\ UNCHANGED event

-----------------------------------------------------------------------------
(* Connections *)

\* publish() has taken its snapshot of the callbacks.
Publish(kind, p) == event' = IF attached THEN <<kind, p>> ELSE None

Connect(p) ==
  /\ Quiet
  /\ \/ /\ server[p] = "off" /\ Loading
        /\ server' = [server EXCEPT ![p] = "loading"]
        /\ UNCHANGED event
     \/ /\ IF Loading THEN server[p] = "loading" ELSE server[p] = "off"
        /\ server' = [server EXCEPT ![p] = "on"]
        /\ Publish("online", p)
  /\ away' = IF server'[p] = "on" THEN [away EXCEPT ![p] = 0] ELSE away
  /\ UNCHANGED <<members, group, active, attached, timing, checks, canStop>>

Disconnect(p) ==
  /\ Quiet
  /\ server[p] # "off"
  /\ server' = [server EXCEPT ![p] = "off"]
  /\ Publish("offline", p)
  /\ UNCHANGED <<away, members, group, active, attached, timing, checks, canStop>>

\* Mutant: a reconnected player's timer goes on.
HandleOnlineKeeps(p) ==
  /\ event = <<"online", p>>
  /\ event' = None
  /\ UNCHANGED <<connection, members, group, active, attached, timing, checks, canStop>>

\* handleOnline(): the timer of a participant is cancelled, whatever the group.
HandleOnline(p) ==
  /\ event = <<"online", p>>
  /\ event' = None
  /\ IF p \in members THEN CancelTimeout(p) ELSE UNCHANGED <<timers, due>>
  /\ UNCHANGED <<connection, members, group, active, attached, joinChecks, checks, canStop>>

\* handleOffline(): the callback, then the timer, unless the callback threw; the
\* callback may take the player out first.
HandleOffline(p) ==
  /\ event = <<"offline", p>>
  /\ event' = None
  /\ \/ /\ p \notin Scope
        /\ UNCHANGED <<members, timers, pending>>
     \/ /\ p \in Scope
        /\ \E does \in Callbacks :
             /\ timers' = IF does = "throws" THEN timers ELSE
                            Start(IF does = "leaves" /\ attached
                                  THEN [timers EXCEPT ![p] = None] ELSE timers, {p})
             /\ members' = IF does = "leaves" THEN members \ {p} ELSE members
             /\ pending' = IF does = "leaves" THEN attached ELSE pending
  /\ UNCHANGED <<connection, group, active, attached, joinChecks, due, periodic, canStop>>

-----------------------------------------------------------------------------
(* Scripts of the state's runner *)

\* A tick: delays elapse, each by one.
Tick ==
  /\ active /\ Quiet
  /\ away' = [p \in Players |->
       IF server[p] # "on" /\ away[p] < Timeout THEN away[p] + 1 ELSE away[p]]
  /\ timers' = [p \in Players |->
       IF timers[p] = None THEN None ELSE timers[p] - 1]
  /\ periodic' = IF periodic = None THEN None ELSE periodic - 1
  /\ due' = {Script("timeout", p) : p \in {q \in Players : timers[q] = 1}}
       \union {Script("join", p) : p \in joinChecks}
       \union (IF pending THEN {Script("pending", None)} ELSE {})
       \union (IF periodic = 1 THEN {Script("periodic", None)} ELSE {})
  /\ joinChecks' = {}
  /\ UNCHANGED <<server, members, group, active, attached, pending, canStop, event>>

Runs(s) ==
  /\ event = None
  /\ s \in due

\* The check after a "joined" notification.
JoinCheckRuns(p) ==
  /\ Runs(Script("join", p))
  /\ due' = due \ {Script("join", p)}
  /\ timers' = IF attached /\ p \in Scope /\ server[p] = "off" THEN Start(timers, {p}) ELSE timers
  /\ UNCHANGED <<connection, members, group, active, attached, joinChecks, checks, canStop, event>>

\* handleTimeout() goes on: in scope, and the server's word counts.
Released(p) == p \in Scope /\ server[p] = "off"

\* The timer's script begins: its entry is deleted.
Expire(p) ==
  /\ due' = due \ {Script("timeout", p)}
  /\ timers' = [timers EXCEPT ![p] = None]

\* The grace is over: onTimeout may stop the game; if it does not, throwing or not,
\* the player is released.
TimeoutRuns(p) ==
  /\ Runs(Script("timeout", p))
  /\ \/ /\ ~Released(p)
        /\ Expire(p)
        /\ UNCHANGED <<connection, members, group, active, attached, joinChecks, checks, canStop>>
     \/ /\ Released(p) /\ active
        /\ Expire(p)
        /\ members' = members \ {p}
        /\ Reconcile
        /\ UNCHANGED <<connection, group, active, attached, joinChecks, periodic, canStop>>
     \/ /\ Released(p) /\ active
        /\ StopGame(due \ {Script("timeout", p)})
  /\ UNCHANGED event

Empty == Scope = {}

\* checkNow() stops the game.
Stops == attached /\ active /\ Empty /\ canStop = "yes"

PendingRuns ==
  LET s == Script("pending", None) IN
  /\ Runs(s)
  /\ \/ Stops /\ StopGame(due \ {s})
     \/ /\ ~Stops
        /\ pending' = FALSE
        /\ due' = due \ {s}
        /\ UNCHANGED <<connection, members, group, active, attached, timers, joinChecks, periodic, canStop>>
  /\ UNCHANGED event

\* Mutant: only a check that finds members is followed by another.
RescheduledOnlyFull == IF attached /\ active /\ ~Empty THEN Interval ELSE None

\* schedulePeriodicCheck(), which is not reached when canStop() throws.
Rescheduled ==
  IF attached /\ active /\ ~(Empty /\ canStop = "throws") THEN Interval ELSE None

PeriodicRuns ==
  LET s == Script("periodic", None) IN
  /\ Runs(s)
  /\ \/ Stops /\ StopGame(due \ {s})
     \/ /\ ~Stops
        /\ periodic' = Rescheduled
        /\ due' = due \ {s}
        /\ UNCHANGED <<connection, members, group, active, attached, timers, joinChecks, pending, canStop>>
  /\ UNCHANGED event

-----------------------------------------------------------------------------
\* The components are attached to a state of a running game, whoever is in it.
Init ==
  /\ server \in [Players -> {"off", "on"}]
  /\ away = [p \in Players |-> 0]
  /\ members \in SUBSET Players
  /\ group = Players
  /\ active = TRUE /\ attached = TRUE
  /\ timers = [p \in Players |->
       IF p \in members /\ server[p] = "off" THEN Timeout ELSE None]
  /\ joinChecks = {}
  /\ pending = FALSE /\ periodic = Interval
  /\ canStop \in Vetoes
  /\ due = {} /\ event = None

Handled == \E p \in Players : HandleOnline(p) \/ HandleOffline(p)

ScriptRuns ==
  \/ PendingRuns \/ PeriodicRuns
  \/ \E p \in Players : JoinCheckRuns(p) \/ TimeoutRuns(p)

Next ==
  \/ Tick \/ ScriptRuns \/ Handled
  \/ VetoChanges \/ ExitState \/ GameStops
  \/ \E p \in Players :
       Join(p) \/ Leave(p) \/ GroupChanges(p) \/ Connect(p) \/ Disconnect(p)

Spec == Init /\ [][Next]_vars

\* The server ticks, its events are delivered and its delays elapse.
FairSpec == Spec /\ SF_vars(Tick) /\ WF_vars(Handled) /\ WF_vars(ScriptRuns)

-----------------------------------------------------------------------------
TypeOK ==
  /\ server \in [Players -> {"off", "loading", "on"}]
  /\ away \in [Players -> 0..Timeout]
  /\ members \subseteq Players /\ group \subseteq Players
  /\ active \in BOOLEAN /\ attached \in BOOLEAN
  /\ timers \in [Players -> 0..Timeout \union {None}]
  /\ joinChecks \subseteq Players
  /\ pending \in BOOLEAN
  /\ periodic \in 0..Interval \union {None}
  /\ canStop \in Vetoes
  /\ due \subseteq Scripts
  /\ event \in {"online", "offline"} \X Players \union {None}

\* A player is never released before the whole grace has passed without them:
\* "reconnecting cancels the timeout" (docs/room-lifecycle.md:21), where only the
\* spawn counts as reconnecting.
ReleasedAfterGrace ==
  [][\A p \in Players :
       TimeoutRuns(p) /\ p \in members \ members' /\ active' =>
         server[p] = "off" /\ away[p] = Timeout]_vars

\* When the state has exited, no timer and no check of its components is left: "all
\* countdowns are cancelled with the RunnerManager" (disconnectTimeout.ts:54); nor does one
\* that has elapsed outlast its tick.
DetachedIsQuiet ==
  /\ TypeOK
  /\ Quiet => \A p \in Players : timers[p] # 0
  /\ ~attached => /\ \A p \in Players : timers[p] = None
                  /\ ~pending /\ periodic = None

\* Nobody is left in the room, and the game may be stopped.
Reclaimable == active /\ attached /\ Empty /\ canStop = "yes"

\* A member is offline, and the room goes on.
KeepsOffline(p) == active /\ attached /\ p \in Scope /\ server[p] = "off"

\* An empty room does not stay, whatever events were missed while canStop() said no:
\* the check every 10 seconds is the backstop (docs/room-lifecycle.md:25).  A member who
\* stays offline is released, or the room is gone: none waits for a connection event that
\* will never come (disconnectTimeout.ts:86).
RoomIsReclaimed == []<>~Reclaimable /\ \A p \in Players : []<>~KeepsOffline(p)

=============================================================================
