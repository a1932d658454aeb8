------------------------------ MODULE GameTimer ------------------------------
(***************************************************************************)
(* The countdown Timer and the StopWatch of a state                         *)
(* (gameComponent/common/timer and stopWatch), with the callbacks they call *)
(* at every second: these set, stop and start the timer again, subscribe,   *)
(* unsubscribe and detach it.                                               *)
(*                                                                          *)
(* A callback returns in the instant it was called in.  The clock does not  *)
(* go back.                                                                 *)
(***************************************************************************)
EXTENDS Naturals, Sequences, FiniteSets

CONSTANTS
  Second,     \* what Date.now() advances by in a second
  MaxTime,    \* bound on the times that are set
  MaxNow,     \* bound on the clock
  MaxDepth,   \* bound on the nesting of callbacks
  Listeners,  \* subscriptions to onTime: a pool
  Once,       \* those that are once
  None,
  Careful     \* no callback has the second announced again that is being announced

TimerAssumption ==
  /\ Second \in Nat \ {0} /\ MaxTime \in Nat /\ MaxNow \in Nat /\ MaxDepth \in Nat
  /\ Once \subseteq Listeners /\ None \notin Listeners /\ None \notin Nat /\ Careful \in BOOLEAN

VARIABLES
  options,   \* is it a stop watch, and does it compensate for lag
  attached,
  running,   \* _isRunning
  time,      \* remainingTime, or elapsedTime of a stop watch
  lastTime,
  now,       \* Date.now()
  events,    \* the time each onTime listener waits for, None when it is not subscribed
  frames,    \* the loops and announcements under way, innermost last
  base,      \* history: when the time was last set or started, that time, the clock, and the
             \* steps that the loop under way had still to take
  spent      \* history: once listeners whose announcement is over

vars == <<options, attached, running, time, lastTime, now, events, frames, base, spent>>

Top == frames[Len(frames)]
Below == SubSeq(frames, 1, Len(frames) - 1)

Loop(n) == [at |-> None, left |-> n, phase |-> "loop", todo |-> {}, all |-> {}, calls |-> None]

\* publishTime(t): the tick callbacks first, then who waits for t.
Announcement(t, phase) ==
  [at |-> t, left |-> 0, phase |-> phase, todo |-> {}, all |-> {}, calls |-> None]

Init ==
  /\ options \in [watch : BOOLEAN, compensate : BOOLEAN]
  /\ attached = TRUE /\ running = FALSE
  /\ time \in 0..MaxTime /\ lastTime = 0 /\ now = 0
  /\ events = [l \in Listeners |-> None]
  /\ frames = <<>> /\ base = None /\ spent = {}

InCallback == frames # <<>> /\ (Top.phase \in {"tick", "reset"} \/ Top.calls # None)

MayCall == frames = <<>> \/ InCallback

MayAnnounce(t) ==
  /\ Len(frames) < MaxDepth
  /\ Careful => \A i \in 1..Len(frames) : frames[i].at # t

\* The loop of a tick is the outermost; what it has still to make up for is taken off
\* whatever time a callback sets.
Owed == IF frames = <<>> THEN 0 ELSE frames[1].left

Rebased(t) == base' = [time |-> t, now |-> now, owed |-> Owed]

-----------------------------------------------------------------------------
(* Calls of game code *)

\* Timer.set(): a running timer that is set to 0 expires.  StopWatch.reset().
SetTime(t) ==
  /\ MayCall
  /\ time' = t /\ lastTime' = now /\ Rebased(t)
  /\ running' = (running /\ (options.watch \/ t > 0))
  /\ IF running /\ (options.watch \/ t = 0)
     THEN /\ MayAnnounce(t)
          /\ frames' = Append(frames, Announcement(t, IF options.watch THEN "reset" ELSE "tick"))
     ELSE UNCHANGED frames
  /\ UNCHANGED <<options, attached, now, events, spent>>

Start ==
  /\ MayCall /\ ~running /\ attached /\ (options.watch \/ time > 0) /\ MayAnnounce(time)
  /\ running' = TRUE /\ lastTime' = now /\ Rebased(time)
  /\ frames' = Append(frames, Announcement(time, "tick"))
  /\ UNCHANGED <<options, attached, time, now, events, spent>>

Stop ==
  /\ MayCall /\ running' = FALSE
  /\ UNCHANGED <<options, attached, time, lastTime, now, events, frames, base, spent>>

\* A subscription that an announcement still refers to is another one.
SubscribeAt(l, t) ==
  /\ MayCall /\ attached /\ events[l] = None
  /\ \A i \in 1..Len(frames) : l \notin frames[i].all
  /\ events' = [events EXCEPT ![l] = t] /\ spent' = spent \ {l}
  /\ UNCHANGED <<options, attached, running, time, lastTime, now, frames, base>>

Unsubscribe(l) ==
  /\ MayCall /\ events' = [events EXCEPT ![l] = None]
  /\ UNCHANGED <<options, attached, running, time, lastTime, now, frames, base, spent>>

Detach ==
  /\ MayCall /\ attached
  /\ attached' = FALSE /\ running' = FALSE /\ events' = [l \in Listeners |-> None]
  /\ UNCHANGED <<options, time, lastTime, now, frames, base, spent>>

-----------------------------------------------------------------------------
(* The clock and the announcements *)

ClockAdvances ==
  /\ frames = <<>> /\ now < MaxNow /\ now' = now + 1
  /\ UNCHANGED <<options, attached, running, time, lastTime, events, frames, base, spent>>

Steps == IF options.compensate THEN (now - lastTime) \div Second ELSE 1

\* Mutant: a timer that lags starts its next second when it notices.
IntervalTickRestarts ==
  /\ frames = <<>> /\ attached /\ running /\ now - lastTime >= Second
  /\ lastTime' = now
  /\ frames' = <<Loop(IF options.watch \/ Steps < time THEN Steps ELSE time)>>
  /\ UNCHANGED <<options, attached, running, time, now, events, base, spent>>

\* The callback of the interval: a second has passed, or several that are made up for.
IntervalTick ==
  /\ frames = <<>> /\ attached /\ running /\ now - lastTime >= Second
  /\ lastTime' = IF options.compensate THEN lastTime + Steps * Second ELSE now
  /\ frames' = <<Loop(IF options.watch \/ Steps < time THEN Steps ELSE time)>>
  /\ UNCHANGED <<options, attached, running, time, now, events, base, spent>>

\* advance(): one second, unless a callback has stopped the timer.  At 0 it expires first.
AdvanceStep ==
  /\ frames # <<>> /\ Top.phase = "loop" /\ Top.left > 0 /\ running
  /\ LET current == IF options.watch THEN time + 1 ELSE IF time = 0 THEN 0 ELSE time - 1 IN
       /\ time' = current
       /\ running' = (options.watch \/ current > 0)
       /\ frames' = Append(Append(Below, [Top EXCEPT !.left = @ - 1]), Announcement(current, "tick"))
  /\ UNCHANGED <<options, attached, lastTime, now, events, base, spent>>

AdvanceEnds ==
  /\ frames # <<>> /\ Top.phase = "loop" /\ (Top.left = 0 \/ ~running)
  /\ frames' = Below
  /\ UNCHANGED <<options, attached, running, time, lastTime, now, events, base, spent>>

\* The tick callbacks have returned: checkAndFireTimeEvents() takes who waits for this second.
TickReturns ==
  /\ frames # <<>> /\ Top.phase \in {"tick", "reset"}
  /\ LET due == {l \in Listeners : events[l] = Top.at} IN
       frames' = IF Top.phase = "reset" THEN Below
                 ELSE Append(Below, [Top EXCEPT !.phase = "fire", !.todo = due, !.all = due])
  /\ UNCHANGED <<options, attached, running, time, lastTime, now, events, base, spent>>

Fire(l) ==
  /\ frames # <<>> /\ Top.phase = "fire" /\ Top.calls = None /\ l \in Top.todo
  /\ frames' = Append(Below, [Top EXCEPT !.todo = @ \ {l}, !.calls = l])
  /\ UNCHANGED <<options, attached, running, time, lastTime, now, events, base, spent>>

FireReturns ==
  /\ frames # <<>> /\ Top.calls # None
  /\ frames' = Append(Below, [Top EXCEPT !.calls = None])
  /\ UNCHANGED <<options, attached, running, time, lastTime, now, events, base, spent>>

\* Those that are once are removed after all have been called.
Announced ==
  /\ frames # <<>> /\ Top.phase = "fire" /\ Top.todo = {} /\ Top.calls = None
  /\ events' = [l \in Listeners |-> IF l \in Top.all \intersect Once THEN None ELSE events[l]]
  /\ spent' = spent \union (Top.all \intersect Once)
  /\ frames' = Below
  /\ UNCHANGED <<options, attached, running, time, lastTime, now, base>>

Next ==
  \/ ClockAdvances \/ IntervalTick \/ AdvanceStep \/ AdvanceEnds \/ TickReturns \/ FireReturns
  \/ Announced \/ Start \/ Stop \/ Detach
  \/ \E t \in 0..MaxTime : SetTime(t) \/ \E l \in Listeners : SubscribeAt(l, t)
  \/ \E l \in Listeners : Unsubscribe(l) \/ Fire(l)

Spec == Init /\ [][Next]_vars

-----------------------------------------------------------------------------
(* Properties *)

\* A timer that runs has something left, whatever its callbacks do (timer.ts:70-78,107-119).
RunningHasTime == running /\ ~options.watch => time > 0

Gone == IF options.watch THEN time - base.time ELSE base.time - time

\* Since it was last set or started, a timer has announced no more seconds than have passed,
\* and one that compensates is not late either: the rest of a second is not lost
\* (timer.ts:42-48, stopWatch.ts:47-53).  But when a callback sets or starts it within the
\* loop that makes up for lost seconds, the old seconds that this loop owed then are counted
\* off the new time as well, those and no others (timer.ts:111, stopWatch.ts:95).
KeepsTime ==
  running /\ base # None =>
    /\ (Gone - base.owed) * Second <= now - base.now
    /\ options.compensate /\ frames = <<>> =>
         lastTime = base.now + (Gone - base.owed) * Second

\* A listener that is once is not called again after the second it waited for was announced
\* (timer/onTimeEvent.ts:44-47).
OnceMeansOnce == \A i \in 1..Len(frames) : frames[i].calls # None => frames[i].calls \notin spent

TimerIsSound == RunningHasTime /\ KeepsTime /\ OnceMeansOnce
=============================================================================
