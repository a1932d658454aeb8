---------------------------- MODULE EventSignals ----------------------------
(***************************************************************************)
(* The event signals of a game and the manager of its subscriptions         *)
(* (gameEvent/eventManager.ts, mapEventSignal.ts and events/*.ts).          *)
(*                                                                          *)
(* Signals deliver in three ways.  "interval" (events/interval.ts) walks a  *)
(* copy and asks again whether each callback is still wanted; "map" (the    *)
(* signals built on BaseMapEventSignal) and the regions (regionEvents.ts)   *)
(* walk a copy; "slot" (inSlot.ts, onBlock.ts) walks the live set.  Regions *)
(* and slots are driven by an item of the interval.  Callbacks subscribe,   *)
(* unsubscribe, detach whole owners and dispose of the manager while they   *)
(* are called.  A callback that throws is logged: it returns.               *)
(*                                                                          *)
(* Whether an interval callback is due is left open, as is the order within *)
(* a delivery.  A subscription is one of `Subs`, taken again once nothing   *)
(* refers to it.  One player is looked at in each round of the slots.       *)
(***************************************************************************)
EXTENDS FiniteSets

CONSTANTS
  Owners,   \* states and components that subscribe
  Subs,     \* subscriptions: a pool, which of them is taken does not matter
  Regions,
  Visitors, \* players who walk through the regions
  None,
  Tidy,     \* no region loses its last subscriber while the regions are checked
  Settled   \* callbacks of a slot do not subscribe to slots

SignalsAssumption ==
  /\ Regions \intersect {"interval", "map", "slot"} = {}
  /\ {"regions", "slots"} \intersect Subs = {} /\ None \notin Subs \union Regions
  /\ Tidy \in BOOLEAN /\ Settled \in BOOLEAN

VARIABLES
  enabled,    \* EventManager.isActive
  records,    \* EventManager.subscriptionMap, per owner
  signal,     \* the signal each subscription in use is to
  items,      \* IntervalEventSignal.items: subscriptions, "regions" and "slots"
  timer,      \* IntervalEventSignal.intervalId is set
  listeners,  \* per signal but the interval: who subscribed
  hooked,     \* BaseMapEventSignal.inited
  watching,   \* PlayerRegionEventSignal.subscription is set
  looking,    \* tickSub of the slots is set
  states,     \* PlayerRegionEventSignal.regionStates
  inside,     \* who is online and in each region
  online,
  told,       \* history: whom each subscription takes to be in its region
  first,      \* history: subscriptions that were their region's only one from the start
  tick        \* the delivery under way

managerVars == <<enabled, records, signal>>
signalVars == <<items, timer, listeners, hooked, watching, looking>>
regionVars == <<states, told, first>>
worldVars == <<inside, online>>
vars == <<managerVars, signalVars, regionVars, worldVars, tick>>

Kinds == {"map", "slot"} \union Regions

Idle == [loop |-> "idle", todo |-> {}, regions |-> {}, region |-> None, now |-> {},
         calls |-> {}, done |-> {}, runs |-> None]

\* Whose callbacks the manager has subscribed, and to what.
Held == UNION {records[o] : o \in Owners}

RegionSubs == UNION {listeners[r] : r \in Regions}

\* What a delivery still refers to is not taken again.
InUse == Held \union tick.todo \union {c[3] : c \in tick.calls} \union {tick.runs}

MayCall == tick.loop = "idle" \/ tick.runs # None

TypeOK ==
  /\ enabled \in BOOLEAN /\ timer \in BOOLEAN /\ hooked \in BOOLEAN
  /\ watching \in BOOLEAN /\ looking \in BOOLEAN
  /\ records \in [Owners -> SUBSET Subs]
  /\ signal \in [Subs -> Kinds \union {"interval", None}]
  /\ items \subseteq Subs \union {"regions", "slots"}
  /\ listeners \in [Kinds -> SUBSET Subs]
  /\ DOMAIN states \subseteq Regions /\ \A r \in DOMAIN states : states[r] \subseteq Visitors
  /\ told \in [Subs -> SUBSET Visitors] /\ first \subseteq Subs
  /\ tick.loop \in {"idle", "tick", "regions", "slots", "map"}

Init ==
  /\ enabled = TRUE
  /\ records = [o \in Owners |-> {}]
  /\ signal = [s \in Subs |-> None]
  /\ items = {} /\ timer = FALSE
  /\ listeners = [k \in Kinds |-> {}]
  /\ hooked = FALSE /\ watching = FALSE /\ looking = FALSE
  /\ states = [r \in {} |-> {}]
  /\ inside \in [Regions -> SUBSET Visitors] /\ online = Visitors
  /\ told = [s \in Subs |-> {}] /\ first = {}
  /\ tick = Idle

-----------------------------------------------------------------------------
(* Subscribing *)

\* IntervalEventSignal.subscribe(): the first item starts the interval of Minecraft.
AddItems(more) == items' = items \union more /\ timer' = (items' # {})

Listen(s, k) == listeners' = [listeners EXCEPT ![k] = @ \union {s}]

SubscribeInterval(s) ==
  /\ AddItems({s})
  /\ UNCHANGED <<listeners, hooked, watching, looking, regionVars>>

\* BaseMapEventSignal.subscribe(): the first one subscribes the native event.
SubscribeMap(s) ==
  /\ Listen(s, "map") /\ hooked' = TRUE
  /\ UNCHANGED <<items, timer, watching, looking, regionVars>>

\* PlayerOnBlockEventSignal and PlayerItemInSlotEventSignal: the first one asks for ticks.
SubscribeSlot(s) ==
  /\ Listen(s, "slot") /\ looking' = TRUE /\ AddItems({"slots"})
  /\ UNCHANGED <<hooked, watching, regionVars>>

Newcomer(s, r) ==
  /\ told' = [told EXCEPT ![s] = {}]
  /\ first' = IF listeners[r] = {} /\ tick.loop # "regions" THEN first \union {s} ELSE first \ {s}

\* Mutant: every subscription to a region starts its state anew.
SubscribeRegionAfresh(s, r) ==
  /\ Listen(s, r) /\ watching' = TRUE /\ AddItems({"regions"}) /\ Newcomer(s, r)
  /\ states' = [q \in DOMAIN states \union {r} |-> IF q = r THEN {} ELSE states[q]]
  /\ UNCHANGED <<hooked, looking>>

\* PlayerRegionEventSignal.subscribe(): the state of a region that has none starts empty.
SubscribeRegion(s, r) ==
  /\ Listen(s, r) /\ watching' = TRUE /\ AddItems({"regions"}) /\ Newcomer(s, r)
  /\ states' = [q \in DOMAIN states \union {r} |-> IF q \in DOMAIN states THEN states[q] ELSE {}]
  /\ UNCHANGED <<hooked, looking>>

\* EventManager.subscribe(): the signal first, then the record.
Subscribe(o, k) ==
  /\ MayCall /\ enabled
  /\ Settled /\ k = "slot" => tick.loop # "slots"
  /\ Subs \ InUse # {}
  /\ LET s == CHOOSE s \in Subs \ InUse : TRUE IN
       /\ records' = [records EXCEPT ![o] = @ \union {s}]
       /\ signal' = [signal EXCEPT ![s] = k]
       /\ \/ k = "interval" /\ SubscribeInterval(s)
          \/ k = "map" /\ SubscribeMap(s)
          \/ k = "slot" /\ SubscribeSlot(s)
          \/ k \in Regions /\ SubscribeRegion(s, k)
       /\ tick' = [tick EXCEPT !.done = @ \ {s}]
  /\ UNCHANGED <<enabled, worldVars>>

\* The last one to leave a map signal unsubscribes the native event.
LeaveMap == hooked' = (hooked /\ listeners'["map"] # {})

\* The last one to leave the slots gives their item of the interval back.
LeaveSlots == looking' = (looking /\ listeners'["slot"] # {})

\* A region without subscribers loses its state; without any region all do.
LeaveRegions(gone) ==
  LET followed == \E r \in Regions : listeners'[r] # {} IN
    /\ watching' = (watching /\ followed)
    /\ states' = IF watching /\ ~followed THEN [r \in {} |-> {}]
                 ELSE [r \in {q \in DOMAIN states : listeners[q] \intersect gone = {}
                                                    \/ listeners'[q] # {}} |-> states[r]]

\* Items that are given back are not called in this tick any more, nor is the interval kept.
LeaveInterval(gone) ==
  LET idle == (IF watching' THEN {} ELSE {"regions"}) \union (IF looking' THEN {} ELSE {"slots"}) IN
    /\ items' = items \ (gone \union idle) /\ timer' = (items' # {})
    /\ tick' = [tick EXCEPT !.todo = @ \ idle]

\* The unsubscribe() of every subscription in `gone`.
Drop(gone) ==
  /\ listeners' = [k \in Kinds |-> listeners[k] \ gone]
  /\ LeaveMap /\ LeaveSlots /\ LeaveRegions(gone) /\ LeaveInterval(gone)

\* What a region may not lose while the regions are checked.
MayDrop(gone) ==
  Tidy /\ tick.loop = "regions" =>
    \A r \in Regions : listeners[r] # {} => listeners[r] \ gone # {}

Forget(gone) ==
  /\ MayCall /\ gone # {} /\ MayDrop(gone)
  /\ records' = [o \in Owners |-> records[o] \ gone]
  /\ signal' = [s \in Subs |-> IF s \in gone THEN None ELSE signal[s]]
  /\ Drop(gone)
  /\ UNCHANGED <<told, first, worldVars>>

Unsubscribe(s) == s \in Held /\ Forget({s}) /\ UNCHANGED enabled

UnsubscribeByEvent(k) == Forget({s \in Held : signal[s] = k}) /\ UNCHANGED enabled

\* A component or a state is detached: unsubscribeBySubscriber().
Detach(o) == Forget(records[o]) /\ UNCHANGED enabled

DisposeManager == enabled /\ enabled' = FALSE /\ Forget(Held)

-----------------------------------------------------------------------------
(* The interval *)

Delivers == UNCHANGED <<managerVars, signalVars, worldVars>>

\* A tick of Minecraft: the items are copied.
TickBegins ==
  /\ tick.loop = "idle" /\ timer
  /\ tick' = [tick EXCEPT !.loop = "tick", !.todo = items]
  /\ Delivers /\ UNCHANGED regionVars

\* Mutant: nobody asks whether the callback is still wanted.
TickItemUnasked(s) ==
  /\ tick.loop = "tick" /\ tick.runs = None /\ s \in tick.todo \intersect Subs
  /\ \E due \in BOOLEAN :
       tick' = [tick EXCEPT !.todo = @ \ {s}, !.runs = IF due THEN s ELSE None]
  /\ Delivers /\ UNCHANGED regionVars

\* An item that is no longer active is skipped; another one may be due.
TickItem(s) ==
  /\ tick.loop = "tick" /\ tick.runs = None /\ s \in tick.todo \intersect Subs
  /\ \E due \in BOOLEAN :
       tick' = [tick EXCEPT !.todo = @ \ {s}, !.runs = IF due /\ s \in items THEN s ELSE None]
  /\ Delivers /\ UNCHANGED regionVars

CallbackReturns ==
  /\ tick.runs # None
  /\ tick' = [tick EXCEPT !.runs = None]
  /\ Delivers /\ UNCHANGED regionVars

\* Mutant: the items are walked as they are, not as they were.
TickWalksOn ==
  /\ tick.loop = "tick" /\ tick.runs = None /\ tick.todo = {}
  /\ tick' = IF items = {} THEN Idle ELSE [tick EXCEPT !.todo = items]
  /\ Delivers /\ UNCHANGED regionVars

TickDone ==
  /\ tick.loop = "tick" /\ tick.runs = None /\ tick.todo = {}
  /\ tick' = Idle
  /\ Delivers /\ UNCHANGED regionVars

-----------------------------------------------------------------------------
(* The regions *)

\* checkAllRegions(): the regions somebody follows.
RegionsBegin ==
  /\ tick.loop = "tick" /\ tick.runs = None /\ "regions" \in tick.todo
  /\ tick' = [tick EXCEPT !.loop = "regions", !.todo = @ \ {"regions"},
                          !.regions = {r \in Regions : listeners[r] # {}}]
  /\ Delivers /\ UNCHANGED regionVars

\* One region: who came and who went since its state was written, and who is to hear it.
RegionBegins(r) ==
  /\ tick.loop = "regions" /\ tick.region = None /\ r \in tick.regions
  /\ LET before == IF r \in DOMAIN states THEN states[r] ELSE {} IN
       tick' = [tick EXCEPT !.region = r, !.regions = @ \ {r}, !.now = inside[r],
                  !.calls = ({"enter"} \X (inside[r] \ before) \X listeners[r]) \union
                            ({"leave"} \X ((before \ inside[r]) \intersect online) \X listeners[r])]
  /\ Delivers /\ UNCHANGED regionVars

TellRegion(c) ==
  /\ tick.loop = "regions" /\ tick.runs = None /\ c \in tick.calls
  /\ tick' = [tick EXCEPT !.calls = @ \ {c}, !.runs = c[3]]
  /\ told' = [told EXCEPT ![c[3]] = IF c[1] = "enter" THEN @ \union {c[2]} ELSE @ \ {c[2]}]
  /\ Delivers /\ UNCHANGED <<states, first>>

\* Once all have heard, the state is written.
RegionEnds ==
  /\ tick.loop = "regions" /\ tick.runs = None /\ tick.region # None /\ tick.calls = {}
  /\ states' = [r \in DOMAIN states \union {tick.region} |->
                  IF r = tick.region THEN tick.now ELSE states[r]]
  /\ tick' = [tick EXCEPT !.region = None, !.now = {}]
  /\ Delivers /\ UNCHANGED <<told, first>>

RegionsEnd ==
  /\ tick.loop = "regions" /\ tick.region = None /\ tick.regions = {}
  /\ tick' = [tick EXCEPT !.loop = "tick"]
  /\ Delivers /\ UNCHANGED regionVars

-----------------------------------------------------------------------------
(* Slots and blocks, and native events *)

SlotsBegin ==
  /\ tick.loop = "tick" /\ tick.runs = None /\ "slots" \in tick.todo
  /\ tick' = [tick EXCEPT !.loop = "slots", !.todo = @ \ {"slots"}]
  /\ Delivers /\ UNCHANGED regionVars

\* The set is walked as it is: whoever is added is met, whoever is removed is not.
SlotNext(s) ==
  /\ tick.loop = "slots" /\ tick.runs = None /\ s \in listeners["slot"] \ tick.done
  /\ \E fits \in BOOLEAN :
       tick' = [tick EXCEPT !.done = @ \union {s}, !.runs = IF fits THEN s ELSE None]
  /\ Delivers /\ UNCHANGED regionVars

SlotsEnd ==
  /\ tick.loop = "slots" /\ tick.runs = None /\ listeners["slot"] \subseteq tick.done
  /\ tick' = [tick EXCEPT !.loop = "tick", !.done = {}]
  /\ Delivers /\ UNCHANGED regionVars

\* A native event: publish() copies the callbacks of its key.
NativeEvent ==
  /\ tick.loop = "idle" /\ hooked
  /\ tick' = [tick EXCEPT !.loop = "map", !.calls = {<<"event", None, s>> : s \in listeners["map"]}]
  /\ Delivers /\ UNCHANGED regionVars

TellMap(c) ==
  /\ tick.loop = "map" /\ tick.runs = None /\ c \in tick.calls
  /\ \E fits \in BOOLEAN :
       tick' = [tick EXCEPT !.calls = @ \ {c}, !.runs = IF fits THEN c[3] ELSE None]
  /\ Delivers /\ UNCHANGED regionVars

NativeEventEnds ==
  /\ tick.loop = "map" /\ tick.runs = None /\ tick.calls = {}
  /\ tick' = Idle
  /\ Delivers /\ UNCHANGED regionVars

-----------------------------------------------------------------------------
(* The players *)

Move(p, r) ==
  /\ tick.loop = "idle" /\ p \in online
  /\ inside' = [q \in Regions |-> IF q # r THEN inside[q] \ {p}
                                  ELSE IF p \in inside[r] THEN inside[r] \ {p} ELSE inside[r] \union {p}]
  /\ UNCHANGED <<managerVars, signalVars, regionVars, online, tick>>

\* Nobody is told that someone who went offline left a region: that is for the connection
\* signal, and the listener draws its conclusion.
GoOffline(p) ==
  /\ tick.loop = "idle" /\ p \in online
  /\ online' = online \ {p}
  /\ inside' = [r \in Regions |-> inside[r] \ {p}]
  /\ told' = [s \in Subs |-> told[s] \ {p}]
  /\ UNCHANGED <<managerVars, signalVars, states, first, tick>>

\* Joining takes ticks: the regions have been checked meanwhile.
ComeOnline(p, r) ==
  /\ tick.loop = "idle" /\ p \notin online
  /\ \A q \in DOMAIN states : p \notin states[q]
  /\ online' = online \union {p}
  /\ inside' = [inside EXCEPT ![r] = @ \union {p}]
  /\ UNCHANGED <<managerVars, signalVars, regionVars, tick>>

GameCalls ==
  \/ \E o \in Owners, k \in Kinds \union {"interval"} : Subscribe(o, k)
  \/ \E s \in Subs : Unsubscribe(s)
  \/ \E k \in Kinds \union {"interval"} : UnsubscribeByEvent(k)
  \/ \E o \in Owners : Detach(o)
  \/ DisposeManager

Delivery ==
  \/ TickDone \/ CallbackReturns \/ RegionsBegin \/ RegionEnds \/ RegionsEnd
  \/ SlotsBegin \/ SlotsEnd \/ NativeEventEnds
  \/ \E s \in Subs : TickItem(s) \/ SlotNext(s)
  \/ \E r \in Regions : RegionBegins(r)
  \/ \E c \in tick.calls : TellRegion(c) \/ TellMap(c)

Next ==
  \/ GameCalls \/ Delivery \/ TickBegins \/ NativeEvent
  \/ \E p \in Visitors : GoOffline(p) \/ \E r \in Regions : Move(p, r) \/ ComeOnline(p, r)

Spec == Init /\ [][Next]_vars

\* A delivery goes on, and no callback runs forever.
FairSpec == Spec /\ WF_vars(Delivery)

-----------------------------------------------------------------------------
(* Properties *)

\* The game listens to Minecraft exactly as long as somebody listens to the game, through
\* every subscription made and dropped inside a callback, and the manager knows every
\* subscription there is (mapEventSignal.ts:52-91, interval.ts:40-61, inSlot.ts:61-80).
NativeIsHeld ==
  /\ TypeOK
  /\ timer = (items # {})
  /\ watching = (RegionSubs # {}) /\ watching = ("regions" \in items)
  /\ looking = (listeners["slot"] # {}) /\ looking = ("slots" \in items)
  /\ hooked = (listeners["map"] # {})
  /\ Held = (items \intersect Subs) \union UNION {listeners[k] : k \in Kinds}

\* Nobody is called after he unsubscribed or was detached, but for the deliveries that walk a
\* copy, and there only by the one that had begun (interval.ts:15-23).
DeafAfterDetach ==
  LET s == tick'.runs IN
    s \notin {None, tick.runs} /\ s \notin Held => tick.loop \in {"regions", "map"}

\* regionEvents.ts:58, "if a region has no subscribers any more, clear its state".
StatesHaveSubscribers == tick.loop = "idle" => \A r \in DOMAIN states : listeners[r] # {}

\* Between two ticks, who followed a region from the start and puts together what it was told
\* knows who is inside, however others came and went meanwhile (regionEvents.ts:102-138).
TellsWhoIsInside ==
  tick.loop = "idle" =>
    /\ StatesHaveSubscribers
    /\ \A r \in Regions : \A s \in listeners[r] \intersect first : told[s] = states[r] \intersect online

\* A delivery ends, whatever its callbacks subscribe and unsubscribe.
NoDelivery == tick.loop = "idle"

DeliveryEnds == []<>NoDelivery
=============================================================================
