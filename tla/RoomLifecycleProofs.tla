------------------------- MODULE RoomLifecycleProofs -------------------------
(* The safety of a room that closes itself, for any number of players and    *)
(* any times, if no game code runs inside a delivery and onOffline leaves    *)
(* the participation alone.                                                  *)
EXTENDS RoomLifecycle, Integers, TLAPS

-----------------------------------------------------------------------------
(* The inductive invariant.                                                  *)

\* The components live no longer than the game, and leave nothing behind.
RoomOK ==
  /\ attached => active
  /\ ~attached => /\ \A p \in Players : timers[p] = None
                  /\ ~pending /\ periodic = None

\* An event is delivered at once, in a tick of its own.
EventOK ==
  event # None => /\ due = {} /\ attached
                  /\ event[1] = "online" => server[event[2]] = "on"
                  /\ event[1] = "offline" => server[event[2]] = "off"

\* A countdown is a member's, and has not run longer than the player has been away.
TimerOK(p) ==
  timers[p] # None =>
    /\ p \in members
    /\ timers[p] = 0 => Script("timeout", p) \in due
    /\ server[p] = "on" => event = <<"online", p>>
    /\ server[p] # "on" => away[p] + timers[p] >= Timeout

\* A grace that is over, late or not, was long enough.
DueOK(p) == Script("timeout", p) \in due => server[p] # "on" /\ away[p] = Timeout

PeriodicOK == periodic = 0 => Script("periodic", None) \in due

Inv ==
  /\ TypeOK /\ RoomOK /\ EventOK /\ PeriodicOK
  /\ \A p \in Players : TimerOK(p) /\ DueOK(p)

-----------------------------------------------------------------------------

LEMMA ConstantFacts ==
  ASSUME RoomAssumption
  PROVE  /\ Timeout \in Nat /\ Interval \in Nat /\ Timeout > 0 /\ Interval > 0
         /\ None \notin Nat /\ None \notin Players
         /\ \A p \in Players : None # <<"online", p>> /\ None # <<"offline", p>>
BY DEF RoomAssumption

LEMMA ScriptFacts ==
         /\ \A p, q : Script("timeout", p) = Script("timeout", q) => p = q
         /\ \A p, q : Script("timeout", p) # Script("join", q)
         /\ \A p, q : Script("timeout", p) # Script("pending", q)
         /\ \A p, q : Script("timeout", p) # Script("periodic", q)
         /\ \A p, q : Script("periodic", p) # Script("join", q)
         /\ \A p, q : Script("periodic", p) # Script("pending", q)
         /\ \A p \in Players : Script("timeout", p) \in Scripts /\ Script("join", p) \in Scripts
         /\ Script("pending", None) \in Scripts /\ Script("periodic", None) \in Scripts
BY DEF Script, Scripts

LEMMA StartFacts ==
  ASSUME NEW ts \in [Players -> 0..Timeout \union {None}], NEW P, RoomAssumption
  PROVE  /\ Start(ts, P) \in [Players -> 0..Timeout \union {None}]
         /\ \A p \in Players :
              \/ Start(ts, P)[p] = ts[p]
              \/ ts[p] = None /\ p \in P /\ Start(ts, P)[p] = Timeout
BY ConstantFacts DEF Start

(* A step between ticks: nobody comes or goes, and countdowns are only       *)
(* started, of members who are off, or dropped.                              *)
LEMMA Steady ==
  ASSUME RoomAssumption, Inv,
         UNCHANGED connection,
         TypeOK', RoomOK', EventOK', PeriodicOK',
         due' \subseteq due,
         \A p \in Players :
           \/ timers'[p] = None
           \/ /\ timers'[p] = timers[p] /\ (p \in members => p \in members')
              /\ Script("timeout", p) \in due => Script("timeout", p) \in due'
              /\ event = <<"online", p>> => event' = event
           \/ timers'[p] = Timeout /\ p \in members' /\ server[p] = "off"
  PROVE  Inv'
<1>1. ASSUME NEW p \in Players
      PROVE  TimerOK(p)'
  <2>0. /\ server' = server /\ away' = away /\ away[p] \in Nat /\ Timeout \in Nat /\ Timeout > 0
        /\ Timeout # None
    BY ConstantFacts DEF connection, Inv, TypeOK
  <2>1. CASE timers'[p] = None
    BY <2>1 DEF TimerOK
  <2>2. CASE /\ timers'[p] = timers[p] /\ (p \in members => p \in members')
             /\ Script("timeout", p) \in due => Script("timeout", p) \in due'
             /\ event = <<"online", p>> => event' = event
    <3>1. TimerOK(p)
      BY DEF Inv
    <3> QED
      BY <2>0, <2>2, <3>1 DEF TimerOK
  <2>3. CASE timers'[p] = Timeout /\ p \in members' /\ server[p] = "off"
    BY <2>0, <2>3 DEF TimerOK
  <2> QED
    BY <2>1, <2>2, <2>3
<1>2. ASSUME NEW p \in Players
      PROVE  DueOK(p)'
  BY DEF Inv, DueOK, connection
<1> QED
  BY <1>1, <1>2 DEF Inv

\* Everything the components have is dropped.
LEMMA DetachKeeps ==
  ASSUME RoomAssumption, Inv, NEW scripts, scripts \subseteq due, Detach(scripts),
         event = None, event' = None, UNCHANGED connection,
         members' \subseteq Players, group' \subseteq Players, active' \in BOOLEAN, canStop' \in Vetoes
  PROVE  Inv'
<1>1. /\ attached' = FALSE /\ timers' = [p \in Players |-> None] /\ joinChecks' = {}
      /\ pending' = FALSE /\ periodic' = None /\ due' \subseteq due
  BY DEF Detach
<1>2. TypeOK'
  BY <1>1 DEF Inv, TypeOK, connection
<1>3. RoomOK' /\ EventOK' /\ PeriodicOK'
  BY <1>1, ConstantFacts DEF RoomOK, EventOK, PeriodicOK
<1>4. \A p \in Players : timers'[p] = None
  BY <1>1
<1> QED
  BY <1>1, <1>2, <1>3, <1>4, Steady

LEMMA StopGameKeeps ==
  ASSUME RoomAssumption, Inv, NEW scripts, scripts \subseteq due, StopGame(scripts),
         event = None, event' = None
  PROVE  Inv'
<1>1. /\ active' = FALSE /\ members' = {} /\ Detach(scripts) /\ UNCHANGED <<connection, group, canStop>>
  BY DEF StopGame
<1> QED
  BY <1>1, DetachKeeps DEF Inv, TypeOK

\* cancelTimeout(): p has no countdown any more.
LEMMA CancelFacts ==
  ASSUME NEW p \in Players, Inv, CancelTimeout(p), RoomAssumption
  PROVE  /\ timers' \in [Players -> 0..Timeout \union {None}] /\ timers'[p] = None
         /\ due' \subseteq due
         /\ \A q \in Players \ {p} : /\ timers'[q] = timers[q]
                                     /\ Script("timeout", q) \in due => Script("timeout", q) \in due'
         /\ Script("periodic", None) \in due => Script("periodic", None) \in due'
         /\ timers[p] = None => due' = due
<1>1. timers \in [Players -> 0..Timeout \union {None}] /\ timers' = [timers EXCEPT ![p] = None]
  BY DEF Inv, TypeOK, CancelTimeout
<1>2. due' = due \/ (timers[p] # None /\ due' = due \ {Script("timeout", p)})
  BY DEF CancelTimeout
<1> QED
  BY <1>1, <1>2, ScriptFacts

-----------------------------------------------------------------------------
(* Game code.                                                                *)

LEMMA NoCalls ==
  ASSUME MayCall, ~Reenters
  PROVE  active /\ event = None
BY DEF MayCall

LEMMA JoinKeeps ==
  ASSUME RoomAssumption, ~Reenters, Inv, NEW p \in Players, Join(p)
  PROVE  Inv'
<1>1. /\ active /\ event = None /\ members' = members \union {p}
      /\ joinChecks' = IF attached THEN joinChecks \union {p} ELSE joinChecks
      /\ pending' = attached
      /\ UNCHANGED <<connection, group, active, attached, timers, due, periodic, canStop, event>>
  BY NoCalls DEF Join, Reconcile
<1>2. TypeOK'
  BY <1>1 DEF Inv, TypeOK, connection
<1>3. RoomOK' /\ EventOK' /\ PeriodicOK'
  BY <1>1 DEF Inv, RoomOK, EventOK, PeriodicOK
<1> QED
  BY <1>1, <1>2, <1>3, Steady

LEMMA LeaveKeeps ==
  ASSUME RoomAssumption, ~Reenters, Inv, NEW p \in Players, Leave(p)
  PROVE  Inv'
<1>1. /\ active /\ event = None /\ members' = members \ {p}
      /\ IF attached THEN CancelTimeout(p) ELSE UNCHANGED <<timers, due>>
      /\ pending' = attached
      /\ UNCHANGED <<connection, group, active, attached, joinChecks, periodic, canStop, event>>
  BY NoCalls DEF Leave, Reconcile
<1>2. /\ timers' \in [Players -> 0..Timeout \union {None}] /\ timers'[p] = None
      /\ due' \subseteq due
      /\ \A q \in Players \ {p} : /\ timers'[q] = timers[q]
                                  /\ Script("timeout", q) \in due => Script("timeout", q) \in due'
      /\ Script("periodic", None) \in due => Script("periodic", None) \in due'
      /\ ~attached => timers' = timers
  BY <1>1, CancelFacts DEF Inv, TypeOK, RoomOK
<1>3. TypeOK'
  BY <1>1, <1>2 DEF Inv, TypeOK, connection
<1>4. RoomOK' /\ EventOK' /\ PeriodicOK'
  BY <1>1, <1>2 DEF Inv, RoomOK, EventOK, PeriodicOK
<1> QED
  BY <1>1, <1>2, <1>3, <1>4, Steady

LEMMA GroupChangesKeeps ==
  ASSUME RoomAssumption, ~Reenters, Inv, NEW p \in Players, GroupChanges(p)
  PROVE  Inv'
<1> DEFINE off == {q \in members \intersect group' : server[q] = "off"}
<1>1. /\ active /\ event = None
      /\ group' = (IF p \in group THEN group \ {p} ELSE group \union {p})
      /\ timers' = IF attached THEN Start(timers, off) ELSE timers
      /\ pending' = attached
      /\ UNCHANGED <<connection, members, active, attached, joinChecks, due, periodic, canStop, event>>
  BY NoCalls DEF GroupChanges, Reconcile
<1>2. /\ Start(timers, off) \in [Players -> 0..Timeout \union {None}]
      /\ \A q \in Players :
           \/ Start(timers, off)[q] = timers[q]
           \/ timers[q] = None /\ q \in off /\ Start(timers, off)[q] = Timeout
  BY StartFacts DEF Inv, TypeOK
<1>3. \A q \in off : q \in members /\ server[q] = "off"
  OBVIOUS
<1> HIDE DEF off
<1>4. TypeOK'
  BY <1>1, <1>2 DEF Inv, TypeOK, connection
<1>5. RoomOK' /\ EventOK' /\ PeriodicOK'
  BY <1>1 DEF Inv, RoomOK, EventOK, PeriodicOK
<1> QED
  BY <1>1, <1>2, <1>3, <1>4, <1>5, Steady

LEMMA VetoChangesKeeps ==
  ASSUME RoomAssumption, Inv, VetoChanges
  PROVE  Inv'
<1>1. /\ canStop' \in Vetoes
      /\ UNCHANGED <<connection, members, group, active, attached, timers, joinChecks, due,
                     pending, periodic, event>>
  BY DEF VetoChanges, timing, checks
<1>2. TypeOK'
  BY <1>1 DEF Inv, TypeOK, connection
<1>3. RoomOK' /\ EventOK' /\ PeriodicOK'
  BY <1>1 DEF Inv, RoomOK, EventOK, PeriodicOK, connection
<1> QED
  BY <1>1, <1>2, <1>3, Steady

LEMMA ExitStateKeeps ==
  ASSUME RoomAssumption, ~Reenters, Inv, ExitState
  PROVE  Inv'
<1>1. event = None /\ Detach(due) /\ UNCHANGED <<connection, members, group, active, canStop, event>>
  BY NoCalls DEF ExitState
<1> QED
  BY <1>1, DetachKeeps DEF Inv, TypeOK

LEMMA GameStopsKeeps ==
  ASSUME RoomAssumption, ~Reenters, Inv, GameStops
  PROVE  Inv'
<1>1. event = None /\ event' = None /\ StopGame(due)
  BY NoCalls DEF GameStops
<1> QED
  BY <1>1, StopGameKeeps

-----------------------------------------------------------------------------
(* Connections.                                                              *)

\* Player p comes or goes between ticks.
LEMMA Moves ==
  ASSUME RoomAssumption, Inv, Quiet, NEW p \in Players,
         NEW now \in {"off", "loading", "on"}, server' = [server EXCEPT ![p] = now],
         away' = IF now = "on" THEN [away EXCEPT ![p] = 0] ELSE away,
         \/ event' = None /\ (now = "on" => ~attached)
         \/ now = "on" /\ event' = <<"online", p>> /\ attached
         \/ now = "off" /\ event' = <<"offline", p>> /\ attached,
         now # "on" => timers[p] = None \/ server[p] # "on",
         UNCHANGED <<members, group, active, attached, timing, checks, canStop>>
  PROVE  Inv'
<1>0. /\ Timeout \in Nat /\ due = {} /\ event = None
      /\ server \in [Players -> {"off", "loading", "on"}] /\ away \in [Players -> 0..Timeout]
  BY ConstantFacts DEF Inv, TypeOK, Quiet
<1>1. /\ UNCHANGED <<members, group, active, attached, timers, joinChecks, due, pending, periodic, canStop>>
      /\ server' \in [Players -> {"off", "loading", "on"}] /\ away' \in [Players -> 0..Timeout]
      /\ server'[p] = now /\ (now # "on" => away' = away)
      /\ \A q \in Players \ {p} : server'[q] = server[q] /\ away'[q] = away[q]
  BY <1>0 DEF timing, checks
<1>2. TypeOK'
  BY <1>1 DEF Inv, TypeOK
<1>3. RoomOK' /\ PeriodicOK'
  BY <1>1 DEF Inv, RoomOK, PeriodicOK
<1>4. EventOK'
  <2>1. CASE event' = None
    BY <2>1 DEF EventOK
  <2>2. CASE now = "on" /\ event' = <<"online", p>> /\ attached
    BY <1>0, <1>1, <2>2 DEF EventOK
  <2>3. CASE now = "off" /\ event' = <<"offline", p>> /\ attached
    BY <1>0, <1>1, <2>3 DEF EventOK
  <2> QED
    BY <2>1, <2>2, <2>3
<1>5. ASSUME NEW q \in Players PROVE DueOK(q)'
  BY <1>0, <1>1 DEF DueOK
<1>6. ASSUME NEW q \in Players PROVE TimerOK(q)'
  <2>1. TimerOK(q)
    BY DEF Inv
  <2>2. event # <<"online", q>>
    BY <1>0, ConstantFacts
  <2>3. CASE q # p
    BY <1>1, <2>1, <2>2, <2>3 DEF TimerOK
  <2>4. CASE q = p
    <3>1. CASE now = "on" /\ event' = <<"online", p>>
      BY <1>1, <2>1, <2>4, <3>1 DEF TimerOK
    <3>2. CASE now = "on" /\ ~attached
      BY <1>1, <2>4, <3>2 DEF Inv, RoomOK, TimerOK
    <3>3. CASE now # "on"
      BY <1>1, <2>1, <2>4, <3>3 DEF TimerOK
    <3> QED
      BY <3>1, <3>2, <3>3
  <2> QED
    BY <2>3, <2>4
<1> QED
  BY <1>2, <1>3, <1>4, <1>5, <1>6 DEF Inv

\* Nobody who is there has a countdown between ticks.
LEMMA QuietTimers ==
  ASSUME RoomAssumption, Inv, Quiet, NEW p \in Players
  PROVE  timers[p] = None \/ (server[p] # "on" /\ timers[p] # 0)
<1>1. event # <<"online", p>> /\ due = {}
  BY ConstantFacts DEF Quiet
<1> QED
  BY <1>1 DEF Inv, TimerOK

LEMMA ConnectKeeps ==
  ASSUME RoomAssumption, Inv, NEW p \in Players, Connect(p)
  PROVE  Inv'
<1>0. server \in [Players -> {"off", "loading", "on"}] /\ Quiet
  BY DEF Inv, TypeOK, Connect
<1>1. /\ \/ /\ server[p] = "off" /\ server' = [server EXCEPT ![p] = "loading"]
            /\ UNCHANGED event
         \/ server' = [server EXCEPT ![p] = "on"] /\ event' = IF attached THEN <<"online", p>> ELSE None
      /\ away' = IF server'[p] = "on" THEN [away EXCEPT ![p] = 0] ELSE away
      /\ UNCHANGED <<members, group, active, attached, timing, checks, canStop>>
  BY DEF Connect, Publish
<1>2. CASE server[p] = "off" /\ server' = [server EXCEPT ![p] = "loading"] /\ UNCHANGED event
  <2>1. server'[p] = "loading" /\ event' = None
    BY <1>0, <1>2 DEF Quiet
  <2> QED
    BY <1>0, <1>1, <1>2, <2>1, Moves
<1>3. CASE server' = [server EXCEPT ![p] = "on"] /\ event' = IF attached THEN <<"online", p>> ELSE None
  <2>1. server'[p] = "on"
    BY <1>0, <1>3
  <2> QED
    BY <1>0, <1>1, <1>3, <2>1, Moves
<1> QED
  BY <1>1, <1>2, <1>3

LEMMA DisconnectKeeps ==
  ASSUME RoomAssumption, Inv, NEW p \in Players, Disconnect(p)
  PROVE  Inv'
<1>1. /\ Quiet /\ server' = [server EXCEPT ![p] = "off"]
      /\ event' = IF attached THEN <<"offline", p>> ELSE None
      /\ UNCHANGED <<away, members, group, active, attached, timing, checks, canStop>>
  BY DEF Disconnect, Publish
<1>2. timers[p] = None \/ server[p] # "on"
  BY <1>1, QuietTimers
<1> QED
  BY <1>1, <1>2, Moves

LEMMA OnlineKeeps ==
  ASSUME RoomAssumption, Inv, NEW p \in Players, HandleOnline(p)
  PROVE  Inv'
<1>0. None \notin Nat /\ None # <<"online", p>>
  BY ConstantFacts
<1>1. /\ event = <<"online", p>> /\ event' = None
      /\ IF p \in members THEN CancelTimeout(p) ELSE UNCHANGED <<timers, due>>
      /\ UNCHANGED <<connection, members, group, active, attached, joinChecks, pending, periodic, canStop>>
  BY DEF HandleOnline, checks
<1>2. /\ timers' \in [Players -> 0..Timeout \union {None}] /\ timers'[p] = None
      /\ due' \subseteq due
      /\ \A q \in Players \ {p} : /\ timers'[q] = timers[q]
                                  /\ Script("timeout", q) \in due => Script("timeout", q) \in due'
      /\ Script("periodic", None) \in due => Script("periodic", None) \in due'
  <2>1. CASE p \in members
    BY <1>1, <2>1, CancelFacts
  <2>2. CASE p \notin members
    BY <1>1, <2>2 DEF Inv, TypeOK, TimerOK
  <2> QED
    BY <2>1, <2>2
<1>3. TypeOK'
  BY <1>1, <1>2 DEF Inv, TypeOK, connection
<1>4. attached
  BY <1>0, <1>1 DEF Inv, EventOK
<1>5. RoomOK' /\ EventOK' /\ PeriodicOK'
  BY <1>1, <1>2, <1>4 DEF Inv, RoomOK, EventOK, PeriodicOK
<1>6. \A q \in Players \ {p} : event # <<"online", q>>
  BY <1>1
<1> QED
  BY <1>1, <1>2, <1>3, <1>5, <1>6, Steady

LEMMA OfflineKeeps ==
  ASSUME RoomAssumption, "leaves" \notin Callbacks, Inv, NEW p \in Players, HandleOffline(p)
  PROVE  Inv'
<1>1. /\ event = <<"offline", p>> /\ event' = None
      /\ timers' = timers \/ (p \in Scope /\ timers' = Start(timers, {p}))
      /\ UNCHANGED <<connection, members, group, active, attached, joinChecks, due, pending,
                     periodic, canStop>>
  BY DEF HandleOffline, RoomAssumption
<1>2. event # None
  BY <1>1, ConstantFacts
<1>3. attached /\ due = {} /\ server[p] = "off"
  BY <1>1, <1>2 DEF Inv, EventOK
<1>4. /\ timers' \in [Players -> 0..Timeout \union {None}]
      /\ \A q \in Players : \/ timers'[q] = timers[q]
                            \/ q = p /\ p \in members /\ timers'[q] = Timeout
  BY <1>1, StartFacts DEF Inv, TypeOK, Scope
<1>5. TypeOK'
  BY <1>1, <1>4 DEF Inv, TypeOK, connection
<1>6. RoomOK' /\ EventOK' /\ PeriodicOK'
  BY <1>1, <1>3 DEF Inv, RoomOK, EventOK, PeriodicOK
<1>7. \A q \in Players : event # <<"online", q>>
  BY <1>1
<1> QED
  BY <1>1, <1>3, <1>4, <1>5, <1>6, <1>7, Steady

-----------------------------------------------------------------------------
(* Time.                                                                     *)

LEMMA TickKeeps ==
  ASSUME RoomAssumption, Inv, Tick
  PROVE  Inv'
<1>0. /\ Timeout \in Nat /\ Interval \in Nat /\ None \notin Nat
      /\ server \in [Players -> {"off", "loading", "on"}] /\ away \in [Players -> 0..Timeout]
      /\ timers \in [Players -> 0..Timeout \union {None}] /\ periodic \in 0..Interval \union {None}
      /\ joinChecks \subseteq Players
  BY ConstantFacts DEF Inv, TypeOK
<1>1. /\ active /\ Quiet /\ due = {} /\ event = None
      /\ away' = [p \in Players |->
           IF server[p] # "on" /\ away[p] < Timeout THEN away[p] + 1 ELSE away[p]]
      /\ timers' = [p \in Players |-> IF timers[p] = None THEN None ELSE timers[p] - 1]
      /\ periodic' = IF periodic = None THEN None ELSE periodic - 1
      /\ due' = {Script("timeout", p) : p \in {q \in Players : timers[q] = 1}}
           \union {Script("join", p) : p \in joinChecks}
           \union (IF pending THEN {Script("pending", None)} ELSE {})
           \union (IF periodic = 1 THEN {Script("periodic", None)} ELSE {})
      /\ joinChecks' = {}
      /\ UNCHANGED <<server, members, group, active, attached, pending, canStop, event>>
  BY DEF Tick, Quiet
<1>2. \A p \in Players : timers[p] = None \/ (server[p] # "on" /\ timers[p] # 0)
  BY <1>1, QuietTimers
<1>3. periodic # 0
  BY <1>1 DEF Inv, PeriodicOK
<1>4. /\ away' \in [Players -> 0..Timeout]
      /\ timers' \in [Players -> 0..Timeout \union {None}]
      /\ periodic' \in 0..Interval \union {None}
  <2>1. away' \in [Players -> 0..Timeout]
    BY <1>0, <1>1
  <2>2. timers' \in [Players -> 0..Timeout \union {None}]
    BY <1>0, <1>1, <1>2
  <2>3. periodic' \in 0..Interval \union {None}
    BY <1>0, <1>1, <1>3
  <2> QED
    BY <2>1, <2>2, <2>3
<1>5. due' \subseteq Scripts
  BY <1>0, <1>1, ScriptFacts
<1>6. TypeOK'
  BY <1>1, <1>4, <1>5 DEF Inv, TypeOK
<1>7. RoomOK' /\ EventOK'
  BY <1>1 DEF Inv, RoomOK, EventOK
<1>8. PeriodicOK'
  BY <1>0, <1>1, <1>3 DEF PeriodicOK
<1>9. \A p \in Players : Script("timeout", p) \in due' <=> timers[p] = 1
  BY <1>1, ScriptFacts
<1>10. ASSUME NEW p \in Players PROVE TimerOK(p)' /\ DueOK(p)'
  <2>0. /\ away[p] \in 0..Timeout /\ timers[p] \in 0..Timeout \union {None}
        /\ away'[p] = IF server[p] # "on" /\ away[p] < Timeout THEN away[p] + 1 ELSE away[p]
        /\ timers'[p] = IF timers[p] = None THEN None ELSE timers[p] - 1
        /\ server' = server /\ members' = members
    BY <1>0, <1>1
  <2>1. TimerOK(p)
    BY DEF Inv
  <2>2. CASE timers[p] = None
    <3>1. timers[p] # 1
      BY <1>0, <2>2
    <3> QED
      BY <1>9, <2>0, <2>2, <3>1 DEF TimerOK, DueOK
  <2>3. CASE timers[p] # None
    <3>1. /\ server[p] # "on" /\ timers[p] # 0 /\ timers[p] \in Nat
          /\ away[p] + timers[p] >= Timeout /\ p \in members
      BY <1>0, <1>2, <2>0, <2>1, <2>3 DEF TimerOK
    <3>2. away'[p] + timers'[p] >= Timeout /\ (timers'[p] = 0 => timers[p] = 1)
      BY <1>0, <2>0, <2>3, <3>1
    <3>3. timers[p] = 1 => away'[p] = Timeout
      BY <1>0, <2>0, <3>1
    <3> QED
      BY <1>9, <2>0, <3>1, <3>2, <3>3 DEF TimerOK, DueOK
  <2> QED
    BY <2>2, <2>3
<1> QED
  BY <1>6, <1>7, <1>8, <1>10 DEF Inv

LEMMA JoinCheckKeeps ==
  ASSUME RoomAssumption, Inv, NEW p \in Players, JoinCheckRuns(p)
  PROVE  Inv'
<1>1. /\ event = None /\ due' = due \ {Script("join", p)}
      /\ timers' = IF attached /\ p \in Scope /\ server[p] = "off" THEN Start(timers, {p}) ELSE timers
      /\ UNCHANGED <<connection, members, group, active, attached, joinChecks, pending, periodic,
                     canStop, event>>
  BY DEF JoinCheckRuns, Runs, checks
<1>2. /\ timers' \in [Players -> 0..Timeout \union {None}]
      /\ \A q \in Players : \/ timers'[q] = timers[q]
                            \/ q = p /\ attached /\ p \in members /\ server[p] = "off" /\ timers'[q] = Timeout
  BY <1>1, StartFacts DEF Inv, TypeOK, Scope
<1>3. /\ Script("periodic", None) \in due => Script("periodic", None) \in due'
      /\ \A q \in Players : Script("timeout", q) \in due => Script("timeout", q) \in due'
  BY <1>1, ScriptFacts
<1>4. TypeOK'
  BY <1>1, <1>2 DEF Inv, TypeOK, connection
<1>5. RoomOK' /\ EventOK' /\ PeriodicOK'
  BY <1>1, <1>3 DEF Inv, RoomOK, EventOK, PeriodicOK
<1> QED
  BY <1>1, <1>2, <1>3, <1>4, <1>5, Steady

LEMMA TimeoutKeeps ==
  ASSUME RoomAssumption, Inv, NEW p \in Players, TimeoutRuns(p)
  PROVE  Inv'
<1> DEFINE s == Script("timeout", p)
<1>1. event = None /\ event' = None
  BY DEF TimeoutRuns, Runs
<1>2. CASE StopGame(due \ {s})
  BY <1>1, <1>2, StopGameKeeps
<1>3. CASE /\ Expire(p)
           /\ \/ members' = members /\ pending' = pending
              \/ members' = members \ {p} /\ pending' = attached
           /\ UNCHANGED <<connection, group, active, attached, joinChecks, periodic, canStop>>
  <2>1. /\ due' = due \ {s} /\ timers' = [timers EXCEPT ![p] = None]
    BY <1>3 DEF Expire
  <2>2. /\ timers' \in [Players -> 0..Timeout \union {None}] /\ timers'[p] = None
        /\ \A q \in Players \ {p} : timers'[q] = timers[q]
    BY <2>1 DEF Inv, TypeOK
  <2>3. /\ Script("periodic", None) \in due => Script("periodic", None) \in due'
        /\ \A q \in Players \ {p} : Script("timeout", q) \in due => Script("timeout", q) \in due'
    BY <2>1, ScriptFacts
  <2>4. TypeOK'
    BY <1>1, <1>3, <2>1, <2>2 DEF Inv, TypeOK, connection
  <2>5. RoomOK' /\ EventOK' /\ PeriodicOK'
    BY <1>1, <1>3, <2>2, <2>3 DEF Inv, RoomOK, EventOK, PeriodicOK
  <2> QED
    BY <1>1, <1>3, <2>1, <2>2, <2>3, <2>4, <2>5, Steady
<1> QED
  BY <1>2, <1>3 DEF TimeoutRuns, Reconcile, checks

LEMMA PendingKeeps ==
  ASSUME RoomAssumption, Inv, PendingRuns
  PROVE  Inv'
<1> DEFINE s == Script("pending", None)
<1>1. event = None /\ event' = None
  BY DEF PendingRuns, Runs
<1>2. CASE StopGame(due \ {s})
  BY <1>1, <1>2, StopGameKeeps
<1>3. CASE /\ pending' = FALSE /\ due' = due \ {s}
           /\ UNCHANGED <<connection, members, group, active, attached, timers, joinChecks, periodic, canStop>>
  <2>1. /\ Script("periodic", None) \in due => Script("periodic", None) \in due'
        /\ \A q \in Players : Script("timeout", q) \in due => Script("timeout", q) \in due'
    BY <1>3, ScriptFacts
  <2>2. TypeOK'
    BY <1>1, <1>3 DEF Inv, TypeOK, connection
  <2>3. RoomOK' /\ EventOK' /\ PeriodicOK'
    BY <1>1, <1>3, <2>1 DEF Inv, RoomOK, EventOK, PeriodicOK
  <2> QED
    BY <1>1, <1>3, <2>1, <2>2, <2>3, Steady
<1> QED
  BY <1>2, <1>3 DEF PendingRuns

LEMMA PeriodicKeeps ==
  ASSUME RoomAssumption, Inv, PeriodicRuns
  PROVE  Inv'
<1> DEFINE s == Script("periodic", None)
<1>0. Interval \in Nat /\ Interval > 0 /\ None \notin Nat
  BY ConstantFacts
<1>1. event = None /\ event' = None
  BY DEF PeriodicRuns, Runs
<1>2. CASE StopGame(due \ {s})
  BY <1>1, <1>2, StopGameKeeps
<1>3. CASE /\ periodic' = Rescheduled /\ due' = due \ {s}
           /\ UNCHANGED <<connection, members, group, active, attached, timers, joinChecks, pending, canStop>>
  <2>1. \A q \in Players : Script("timeout", q) \in due => Script("timeout", q) \in due'
    BY <1>3, ScriptFacts
  <2>2. periodic' = None \/ (attached /\ periodic' = Interval)
    BY <1>3 DEF Rescheduled
  <2>3. TypeOK'
    BY <1>0, <1>1, <1>3, <2>2 DEF Inv, TypeOK, connection
  <2>4. RoomOK' /\ EventOK' /\ PeriodicOK'
    BY <1>0, <1>1, <1>3, <2>2 DEF Inv, RoomOK, EventOK, PeriodicOK
  <2> QED
    BY <1>1, <1>3, <2>1, <2>3, <2>4, Steady
<1> QED
  BY <1>2, <1>3 DEF PeriodicRuns

-----------------------------------------------------------------------------
(* The invariant holds, and what follows from it.                            *)

LEMMA InvInit ==
  ASSUME RoomAssumption, Init
  PROVE  Inv
<1>0. /\ Timeout \in Nat /\ Interval \in Nat /\ Timeout > 0 /\ Interval > 0 /\ None \notin Nat
  BY ConstantFacts
<1>1. TypeOK
  <2>1. server \in [Players -> {"off", "loading", "on"}]
    BY DEF Init
  <2>2. away \in [Players -> 0..Timeout]
    BY <1>0 DEF Init
  <2>3. timers \in [Players -> 0..Timeout \union {None}]
    BY <1>0 DEF Init
  <2>4. event = None /\ due = {} /\ joinChecks = {} /\ periodic = Interval
    BY DEF Init
  <2>5. /\ event \in {"online", "offline"} \X Players \union {None}
        /\ due \subseteq Scripts /\ joinChecks \subseteq Players
        /\ periodic \in 0..Interval \union {None}
    BY <1>0, <2>4
  <2>6. /\ members \subseteq Players /\ group \subseteq Players
        /\ active \in BOOLEAN /\ attached \in BOOLEAN
        /\ pending \in BOOLEAN /\ canStop \in Vetoes
    BY DEF Init
  <2> QED
    BY <2>1, <2>2, <2>3, <2>5, <2>6 DEF TypeOK
<1>2. RoomOK /\ EventOK /\ PeriodicOK
  BY <1>0 DEF Init, RoomOK, EventOK, PeriodicOK
<1>3. ASSUME NEW p \in Players PROVE TimerOK(p) /\ DueOK(p)
  BY <1>0 DEF Init, TimerOK, DueOK
<1> QED
  BY <1>1, <1>2, <1>3 DEF Inv

LEMMA InvNext ==
  ASSUME RoomAssumption, ~Reenters, "leaves" \notin Callbacks, Inv, [Next]_vars
  PROVE  Inv'
<1>1. CASE Tick
  BY <1>1, TickKeeps
<1>2. CASE ScriptRuns
  BY <1>2, PendingKeeps, PeriodicKeeps, JoinCheckKeeps, TimeoutKeeps DEF ScriptRuns
<1>3. CASE Handled
  BY <1>3, OnlineKeeps, OfflineKeeps DEF Handled
<1>4. CASE VetoChanges
  BY <1>4, VetoChangesKeeps
<1>5. CASE ExitState
  BY <1>5, ExitStateKeeps
<1>6. CASE GameStops
  BY <1>6, GameStopsKeeps
<1>7. ASSUME NEW p \in Players,
             Join(p) \/ Leave(p) \/ GroupChanges(p) \/ Connect(p) \/ Disconnect(p)
      PROVE  Inv'
  BY <1>7, JoinKeeps, LeaveKeeps, GroupChangesKeeps, ConnectKeeps, DisconnectKeeps
<1>8. CASE UNCHANGED vars
  BY <1>8 DEF vars, connection, timing, checks, Inv, TypeOK, RoomOK, EventOK, PeriodicOK, TimerOK, DueOK
<1> QED
  BY <1>1, <1>2, <1>3, <1>4, <1>5, <1>6, <1>7, <1>8 DEF Next

LEMMA InvHolds ==
  ASSUME ~Reenters, "leaves" \notin Callbacks
  PROVE  Spec => []Inv
<1>1. Init => Inv
  BY InvInit, RoomAssumption
<1>2. Inv /\ [Next]_vars => Inv'
  BY InvNext, RoomAssumption
<1> QED
  BY <1>1, <1>2, PTL DEF Spec

(* However the exit of the state falls among ticks, late scripts, events and *)
(* game code, it leaves no countdown and no check (disconnectTimeout.ts,     *)
(* autoStop.ts), unless game code runs inside a delivery, or onOffline takes *)
(* the player out.                                                           *)
THEOREM ExitLeavesNothing ==
  ASSUME ~Reenters, "leaves" \notin Callbacks
  PROVE  Spec => []DetachedIsQuiet
<1>1. Inv => DetachedIsQuiet
  <2> SUFFICES ASSUME Inv PROVE DetachedIsQuiet
    OBVIOUS
  <2>1. Quiet => \A p \in Players : timers[p] # 0
    BY RoomAssumption, QuietTimers
  <2> QED
    BY <2>1 DEF Inv, RoomOK, DetachedIsQuiet
<1> QED
  BY <1>1, InvHolds, PTL

(* Nobody is released who has not been away for the whole grace: a countdown *)
(* is cancelled, or too late to be, only while its player is away, however   *)
(* often they come, go, join and leave (disconnectTimeout.ts).               *)
THEOREM GraceIsWhole ==
  ASSUME ~Reenters, "leaves" \notin Callbacks
  PROVE  Spec => ReleasedAfterGrace
<1>1. ASSUME Inv, NEW p \in Players, TimeoutRuns(p), p \in members \ members', active'
      PROVE  server[p] = "off" /\ away[p] = Timeout
  <2>1. Released(p) /\ Script("timeout", p) \in due
    BY <1>1 DEF TimeoutRuns, Runs
  <2>2. DueOK(p)
    BY <1>1 DEF Inv
  <2> QED
    BY <2>1, <2>2 DEF Released, DueOK
<1>2. Inv /\ [Next]_vars =>
        [\A p \in Players : TimeoutRuns(p) /\ p \in members \ members' /\ active' =>
           server[p] = "off" /\ away[p] = Timeout]_vars
  BY <1>1
<1> QED
  BY <1>2, InvHolds, PTL DEF Spec, ReleasedAfterGrace
=============================================================================
