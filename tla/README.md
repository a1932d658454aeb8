# BEGame in TLA+

This directory is a verification project for BEGame (the packages under
`src/packages`): a TypeScript framework for games on Minecraft's script runtime,
its trace recorder, and the Observatory server that collects the traces. It holds
TLA+ modules translated from the source, the TLC configurations that check them on
small instances, and proofs that TLAPS checks for every value of the constants.
Paths below are relative to `src/packages` unless they begin with `docs/` or
`tutorial/`, which are relative to `src`; `core/` is short for `core/src/` and
`trace/` for `trace/src/`.

    tlc -workers 2 -config MCServices.cfg MCServices
    tlapm ServicesProofs.tla

## 1. What the program is, and what makes it hard

BEGame runs on one JavaScript thread. There are no data races, and yet almost
everything here is concurrent in one of four ways.

* **Re-entrancy.** An operation calls game code (a hook, a membership listener, a
  component's `onAttach`, an error callback) before it has finished, and that code
  calls the same component again. State read before the call may be stale after it.
* **Await and timers.** A promise continuation, a delay or a job runs some turns after
  it was scheduled; cancellations, stops and restarts come in between.
* **The world outside.** Players disconnect and come back, sockets close late,
  connects fail, scripts are reloaded, a write is refused.
* **Reuse of names.** Game keys, player ids and session ids are used again while an
  operation on their last owner is still on the call stack.

The models keep all of this control and abstract the data. A call stack is a sequence
of frames, game code is "any operation the component offers, or return, or throw", and
an await is a gap between two actions.

### Inventory

| component | state it keeps | operations | who calls it, whom it calls | what makes it correct |
|---|---|---|---|---|
| Participation (`core/participation/`) | two indices player→games and game→players, policy, subscribers by game | join, joinAll, leave, leaveAll, clear, disposal, setPolicy, changes | wrappers, GameManager, groups; calls its subscribers, which call back | indices agree; policy kept; no lost change |
| Game session (`core/gameEngine.ts`, `gameState/`) | lifecycle, stack of states, components and runners of each | start, push, pop, reset, transition, delete, stop, dispose, add and delete component | GameManager and game code; calls every hook | stack = live states, rollback and exit release all, one exit each, stop always disposes |
| Game players (`core/gamePlayer/playerManager.ts`) | wrappers, active flags | join, joinAll with rollback, get, view, leave, dispose | game code; over Participation | wrapper active iff member; failed batch released |
| Game manager (`core/system/gameManager.ts`) | registry by key | startGame, stopGameByKey, stopAll, disposeAll, leavePlayerFromAll | commands and game code; sessions, participation, trace | live game ⇔ registered ⇔ has its trace session |
| Runners (`core/Runner/`) | runners and jobs of a state, handles of waits | run, runDelay, runJob, wait, do, cancel, dispose | states, components; the host's timers and promises | the map is what runs; each wait is settled once; a cancelled script ends and leaves nothing |
| Room lifecycle (`core/gameComponent/common/disconnectTimeout.ts`, `autoStop.ts`) | timers, deferred checks, periodic check | connection events, membership changes, timeouts, checks, detach | signals and runners; releases players, stops the game | grace whole; offline members released; empty room reclaimed |
| Connection signal, server queries (`core/gameEvent/events/playerConnection.ts`, `system/server.ts`) | subscribers | publish | seen as part of RoomLifecycle | delivery to a snapshot |
| Server-net bridge (`trace/serverNet.ts`) | stopped, suspended, connecting, timer, failures, socket | start, stop, connect, fail, close event | the pack, the host's WebSocket | no leaked socket, cap, backoff, never stuck |
| Trace history (`trace/runtime/historyStore.ts`) | accepted sessions, stored metadata and chunks, timers, the persisted flag | configure, enable, disable, restore, session start/chunk/end, delete, cleanup, recovery | trace sessions, commands; dynamic properties, worldLoad | stored traces whole; limits; active ones kept |
| Trace sessions (`trace/runtime/session.ts`, `trace/wire/decoder.ts`) | open chunk, tables of strings, players, states, components, schemas; counts | begin, events, definitions, flush, end | games and components; their sink | what was written reads back; a chunk is sealed once; an error within its budgets |
| Trace manager (`trace/runtime/manager.ts`) | running sessions, the sinks of each, ended ones with writes under way, the subscription to connections | begin, end, record, setters, settled | GameManager, sinks, the connection signal | sinks fixed at the beginning; whoever is unfinished is waited for |
| World readiness (`core/system/worldReady.ts`) | loaded, waiters | whenWorldReady, cancel | everything that reads dynamic properties | called once, in order |
| Event signals, built-in events (`core/gameEvent/`) | subscriptions by owner and by signal, native subscriptions, who is inside a region | subscribe, unsubscribe, detach, dispose, publish, tick | everything; the interval and events of Minecraft | native subscription held while anybody listens, nobody hears after he left, deliveries end |
| Groups (`core/gamePlayer/playerGroup.ts`, `groupSet.ts`), team chooser and cleaner | entries and their index, groups of a set, subscribers | add, remove, clear, purge, chooser and cleaner handlers | game code; membership callbacks | lookups agree, listeners catch up, nobody in two teams |
| Timer, stop watch (`core/gameComponent/common/timer`, `stopWatch`) | time, clock, listeners by second | set, start, stop, tick, detach | states; listeners | each second told once, in order, to who waits for it |
| Region boundary (`core/gameComponent/region/regionBoundary.ts`) | who was inside | scan, detach | the interval; onEnter, onLeave | entries and exits alternate |
| Structure protection (`core/gameStructure/`, `region/structureProtector.ts`) | cached masks, scans under way | scan in batches, cancel, invalidate, protect | rooms, jobs | a protected room has the mask of the whole structure |
| Chunk scope (`core/gameComponent/common/chunkScope.ts`) | active, the components it added | activate, deactivate, reload, detach | the interval, onLoad, onUnload, the state | its components are in the state iff it is active |
| Views (`core/gameComponent/view/`) | owner of an objective, lines; primitives by player | update, refresh, show, hide, dispose | signals, the scoreboard and shapes of the world | released on detach; the latest lines; viewers as asked |
| Console exporter, log parser (`trace/runtime/consoleExporter.ts`, `trace/tools/`) | — | print in numbered lines; group and join | a content log that people copy | whole or failed |
| Wire format (`trace/wire/`) | — | write and read | sessions, decoder | what is written reads back; cut input fails |
| Observatory (`trace/serverNet.ts` requests, `observatory/server/net.ts`, `archive.ts`, `app.ts`) | the pack's one cached snapshot; connections, the route of each pack, pending requests; a sweep under way; archived traces | list, begin, part, delete, clear; handshake, replacement, loss, timeout; sweep, save, remove, clear | timers and the workbench's requests, over a socket to the pack | one route per pack, everybody who waits is answered or cut; only whole traces are archived; deleted ones stay deleted; sweeps end |
| /connect (`trace/minecraft.ts`, `observatory/server/connect.ts`) | a queue of operations, one pending command; the pack's cached snapshot | list, info, part, get | the Observatory, over a command channel | answers are whole, of one version; the queue goes on |
| WebSocket frames (`observatory/server/ws.ts`) | buffer, fragments | receive, send, close, loss | net.ts, connect.ts | messages whole, in order, once |
| Upload (`trace/serverNet.ts` sink, `trace/bridge/ingest.ts`, `observatory/server/ingest.ts`) | buffered sessions, a queue; parts by session | chunk, end, send; accept | sinks, the Observatory | whole, or reported as dropped; bounded |
| Workbench page (`observatory/src/App.tsx`, routes of `app.ts`) | groups, the selected session, its data, busy | list, load, refresh, import, delete, clear, export | the user, timers, the server | shows what is selected; catches up; is enabled again |
| Reader (`observatory/src/decode.mjs`) | a stack of states of its own | replay of a trace's events | the page | same stack as the engine's |
| Player components, geometry, commands, entry points, utilities, test engine, examples | — | — | — | left out (section 8) |

`PROJECT.json` lists these components at the granularity of source files, with what is
left out of each, and the 39 hazards the properties aim at, each at the line where it
bites.

## 2. Modules

    Membership <--refines-- Participation
    GameLifecycle <--refines-- GameEngine
    GamePlayers          the wrappers of one game over its membership
    GameManager          the games of all keys, with what each owns under its key
    RunnerManager        scripts, jobs, waits, promise queue
    PlayerGroups         groups, sets of groups, team chooser and cleaner
    RoomLifecycle        DisconnectTimeout + AutoStop + connection signal + ticks
    EventSignals         event manager + interval, map, region and slot signals
    GameTimer, RegionBoundary, StructureScan, ChunkScope, Sidebar, PlayerTexts
                         one component each, with the callbacks that call it back
    TraceContext         GameEngine + the reader that replays its events
    TraceSession         what a session writes + the decoder that reads it back
    TraceErrors, TraceWire, TraceLog
                         errors, bytes and printed lines of a trace
    TraceManager         sessions + sinks + connection source
    TraceHistory         store + sessions + worldLoad + script reloads
    TraceBridge          the connection of the server-net bridge
    TraceUpload          sink + HTTP + server side of uploads
    TraceConnect         Observatory's queue + command channel + pack
    FrameStream          WebSocket frames over a socket
    Observatory          pack + socket + server bridge + archive + workbench
    TraceWorkbench       page + routes of the server

    ObservatoryProofs, RoomLifecycleProofs
                         theorems about the module of that name
    GameEngineProofs     theorems about GameEngine, TraceContext and RunnerManager, through
                         MCStops
    ServicesProofs       theorems about Participation, GamePlayers and GameManager, through
                         MCServices
    GroupsProofs         theorems about PlayerGroups, through MCServices
    ComponentsProofs     theorems about EventSignals and the six components, through MCComponents
    TraceRuntimeProofs   theorems about TraceManager, TraceBridge and TraceHistory, through
                         MCTraceRuntime
    SequenceLemmas       what the proofs need of sequences

`MCGameEngine`, `MCGameManager`, `MCObservatory` and `MCRoomLifecycle` extend their module
with what TLC needs. `MCServices`, `MCStops`, `MCTraces` and `MCComponents` check several
modules that share no state in one run: each module is an instance over variables of its
own, `subject` says whose behaviour this is, and the variables of the others are `None`.
A property there is the module's own, prefixed by `subject = ...`, and a run costs the sum
of its parts. `MCTraceRuntime` is the part of `MCTraces` that theorems are about: manager,
bridge and store, without the modules that declare RECURSIVE operators; `MCTraces` extends it
and says what the others add, and its run checks both. The definitions marked "Mutant" next to a
definition are the same definition with a plausible mistake; no behaviour uses them.
They show that each property notices the bug it is meant to notice.

**Membership**, **Participation.** `Membership` is the promise: a set of (player, game)
pairs that joins, leaves and clearings change, each admitted by the policy. The code
keeps two Maps of Sets; `memberships` and `gameMembers` are partial functions whose
entries disappear with their last element, and `Link`/`Unlink` are `addMembership`/
`removeMembership`. An operation commits both indices and then announces: `frames` is
the stack of `emitChange` loops, with the events still to announce, the snapshot of the
subscribers still to be called, and whether one of them is running. While it runs,
every operation is possible. The `stale` history variable records who has not heard of
a change. Insertion order is left open, and reasons are omitted.

**GameLifecycle**, **GameEngine.** `GameLifecycle` is the promise of a session (created,
starting, running, stopping, disposed, in order). `GameEngine` has the state stack and
the call stack `calls`: frames of game code (`onStart`, `onEnter`, `onExit`, `onAttach`,
...) and frames of the engine's loops that wait for the hook they called (`dispose`,
`reset`, `replace`, `rollback`, `failed`). `Push` is the part of `pushState` before
`onEnter`, `EnterReturns`/`EnterThrows` the part after, and so on for every hook; a hook
that throws ends its frame with an error, which the loop below collects. `phase` is the
history of each state instance. A game instance is driven by `Stop` and `DisposeAll`
as `GameManager` does it. The trace records are omitted.

**GamePlayers.** The wrappers of one game over its membership. The manager's own
subscription comes first, then the listeners, which may call back. `joinAll` is one
frame from its validation to its return, with the rollback of a failed batch as a
frame of its own.

**GameManager.** The registry, with `members` and `sessions` as what a game owns *under
its key*. A key is used again by the next game, and the frames hold instances, so that
the model tells "the game I began with" from "the game of my key". `overtaken` is the
history of keys that a game was started under while an operation on the last one
was still under way.

**PlayerGroups.** A group is its array and the index beside it, duplicates included, and
each set listens to its groups. `stack` holds publications (with the snapshot of the
callbacks) and the loops of the operations that publish more than once: `removePlayer`,
`clear`, purges, the chooser's "leave every other team, then enter".

**EventSignals.** The three ways signals deliver: over a copy that asks again (interval),
over a copy (map signals, regions), over the live set (slots, blocks). `tick` is the
delivery under way, one loop inside the interval's; in any callback every call is
possible. `listeners`, `records`, `items`, `hooked` and `looking` are the subscriptions at
each level, down to Minecraft's.

**GameTimer**, **RegionBoundary**, **StructureScan**, **ChunkScope**. Components whose
callbacks call them back, each with its stack of callbacks: the announcements of a timer and the
loop that makes up for lag, nested scans of a boundary, the slices of a scan between other
code, onLoad and onUnload of a scope. **Sidebar** has the objective as the world keeps it,
through reloads and commands; **PlayerTexts** the primitives, the refreshes that
`system.run` has queued, and a filter of viewers that changes.

**RunnerManager.** JavaScript's run-to-completion is explicit: `code` is the call
stack, `queue` the promise continuations in order, and `draining` says that the host
may not come between. A wait is a handle that the host's timer fulfils and `cancel()`
rejects; each settlement takes two continuations to reach the script, and a
cancellation may fall between any two. `delayed` tells the function of a `runDelay()` that
has not been called: `runDelay()` looks at the cancellation before its wait settles and not
afterwards, while a script may ask again (`do()`, `doDelay()`), or catch the error and go on.

**RoomLifecycle.** The composition `docs/room-lifecycle.md` describes: both components
on one root state, players who come and go, ticks. A delay that has elapsed is in `due`
and its script runs in any order with the others of the tick; cancelling it may come too
late, which is what RunnerManager shows of runners. `event` is a connection event
between its publication and its delivery to the component.

**TraceContext.** GameEngine, whose every action emits the events the code emits, and the
reader's stack, which follows them. `ReaderFollows` holds of the engine with the exemption
of states that failed to enter; `MCGameEngine` extends this module.

**TraceSession.** The writer's tables and counters, the active chunk as a sequence of
records, and the decoder as an operator over all that was written; an event is compared
with what comes back. **TraceWire** writes and reads one input (`Inputs`, chosen around every
boundary of the encoding), cut or wrapped anywhere. **TraceErrors** serialises errors that
refer to each other in any way. **TraceLog** prints sessions in lines, loses, repeats and
swaps them, and reads what is left with both readers.

**TraceManager.** `sessions` are the running ones with the sinks each was given, `pending`
the writes under way, `completed` those kept for `settled()`, `settling` the calls of it.

**TraceUpload.** The sink (buffer, budget, queue, one request under way) and the server
(parts by session, limits, expiry). A request may be lost, may arrive after its sender
gave it up, and sessions are uploaded again after a restart. **TraceConnect.** `line` is the queue of
operations, `turn` what the one at its head waits for; `outbox` and `inbox` the commands and
answers under way, of which a timed-out one may still come. **FrameStream.** The peer's frames
as one stream, of which some bytes have arrived; `Data` is `receive()` with its whole loop.

**TraceWorkbench.** One operation of the user's buttons (`front`), a decoding of an imported
file (`decode`), which Ctrl+Enter begins without asking whether the page is busy, one
background refresh (`back`) and listings, each between its request and its answer, over an
archive and a pack that change. What the answer does to the page is one action.

**TraceBridge.** The variables of the closure as one record `bridge`; the functions
(`Schedule`, `Connect`, `Started`, `Stopped`, `Failed`, `Closed`) map records to records,
because they call each other inside one turn. `onError` is part of `Failed`: what it does
is a reaction drawn from constants.

**TraceHistory.** `kv` is the world's dynamic properties, which survive a script reload,
and `store` the object, which does not. The retention rules are operators on what is
stored (`Cleaned`, `Recovered`, `Chunked`, `Ended`), the actions what the session and the
pack call. `Reload` is a script reload at any point; `waiters` are the callbacks of
worldLoad, called one at a time with other code between.

**Observatory.** Two processes. The pack has its `store`, the `cached` snapshot and its
`socket`; the server its `conns`, the `route` (`ready` in `net.ts`) and one `job` with one
pending request (`link`) for each caller: the sweep, and each request of the workbench.
`outbox` and `inbox` are the messages under way, by connection. A rejected or answered
promise and what its caller does next are one action, because the continuation runs
before the next message. `Ready` replaces the stale connection, `Lost` and `Timeout` reject
what is pending, `Handle` is the whole of a request at the pack, with a reply that may not
be sent. `file` is the archive, in which a trace without its record is "unlisted": that
is what a kill or a full disk leaves between the two writes. A trace is "partial" when its
snapshot was taken of a running session and has a footer made up for it.

## 3. Runs

Seven runs pass; five show a property violated (section 5). Every passing run checks the
type invariants of its modules, by themselves or as the first conjunct of another
property. Every property of a passing run has a mutant of the code that breaks it.

| run | instance | what it shows |
|---|---|---|
| `engine_stack` | 3 states, hooks nested 3 deep | the stack is the live states and a disposed game's is empty (`StackIsSound`), rollbacks and exits lose neither a state nor what it acquired (`NothingLeaks`), each state is exited once (`ExitCalledOnce`), the session is a `GameLifecycle`, and the reader of the trace has the engine's stack (`ReaderFollows`) |
| `stops` | *engine*: 2 states, 2 deep, fair hooks; *runners*: 2 runners or jobs, 2 waits, fair queue | a stop leads to a disposal whatever throws (`StopDisposes`); the map is exactly what runs, and a script comes back from each wait once (`TracksWhatRuns`); when the host has its turn again nothing of a cancelled script is left (`CancelledIsOver`), and it gets there though no timer elapses (`CancelUnwinds`) |
| `services` | *participation*: 2 players, 2 games, 2 subscribers, both policies, 2 nested emissions; *players*: 2 players, 4 deep; *manager*: 3 games, 2 keys (one a daemon's), 4 deep; *groups*: 2 groups, 2 players, groups that begin with one player twice (`Given`), callbacks that call one operation back (`GroupsCalls`) | the indices never drift (`StateIsConsistent`), no subscriber is left behind (`NoLostWakeup`), all of it implements `Membership`, whose joins the policy admits; a wrapper is active iff its player is a member (`WrappersFollowMembers`), a failed batch is released (`RollbackReleases`); live games are registered and have their session, no key is blocked (`KeysAgree`); a group's index, its set and its listeners agree, nobody is in two teams (`GroupsAgree`) |
| `components` | *signals*: 2 owners, 2 subscriptions, a region, 2 players; *timer*: times to 2, clock to 5; *boundary*: 3 players; *scan*: 2 rooms, 3 blocks; *scope*: 2 keys; *sidebar*: 2 boards of one objective; *texts*: 2 players | native subscriptions are held exactly while needed, and a region's subscriber knows who is inside (`SignalsAreSound`); who is gone hears nothing (`DeafAfterDetach`); deliveries end (`DeliveryEnds`); a timer's listeners hear what there is for them, once (`TimerIsSound`); entries and exits alternate (`ReportsAlternate`); a protected room has a whole mask (`RoomsAreProtected`); what a component has put into the state or the world is there while it should be, and no longer (`OwnedIsReleased`) |
| `room` | 2 players, timeout 2, check every 3 ticks, fair | no release before the whole grace (`ReleasedAfterGrace`), nothing outlives the state (`DetachedIsQuiet`), an empty room is reclaimed and an offline member released (`RoomIsReclaimed`) |
| `observatory` | 2 sessions of 2 parts, 2 connections, a sweep (cap 1) and a workbench, a late deletion | the route is the one open connection, and whoever waits, waits on it (`RoutesAgree`); what is archived is whole (`ArchiveIsWhole`); what was deleted is gone, and stays so unless a sweep was saving it (`DeletedIsGone`); every sweep ends (`SweepEnds`) |
| `traces` | *bridge*: 2 sockets, delays 2 to 5, cap 4, fair; *history*: 2 sessions of up to 2 chunks, fair; *manager*: 2 games, 2 sources; *session*: 2 events, chunks of 4 records; *upload*: 3 sessions; *connect*: 2 sessions, 2 packs, a listing and a download; *work*: 2 sessions, a fault; *wire*, *log*, *errors*: enumerated inputs; *frames*: streams of 4 frames | no socket or timer left behind and the cap holds (`NothingLeaks`), timers keep the backoff (`BackoffKept`); what is stored is whole, limits hold, a record says running while its session runs, a choice sticks (`HistoryIsSound`), finished traces never change (`FinishedIsFrozen`), expired ones go (`ExpiredIsCollected`); every sink and subscription of a session is served (`SessionsAreServed`); what was written reads back, from records, bytes or lines, and error trees keep their budgets (`TraceIsWhole`); uploads, answers and messages are whole or reported as failed, and the page shows what is selected (`ArrivesWhole`); a bridge dials again, a caller of /connect is answered, the page catches up and is enabled again (`NothingWaitsForever`) |

### Bounds and why they are enough

* **Actors.** Every hazard here is about two of something: two players of a batch, two
  subscribers of which one changes what the other hears, a state and the state that took
  its place, a game and its successor, two sockets. `engine_stack` has three states: the
  one below, the one that fails, the one it pushed. The manager has three games, so that a
  successor and an unrelated daemon coexist. A boundary has three players: one who comes,
  one who goes and one whom the callback of another moves. The server's queue of uploads
  has room for one session fewer than there are.
* **Depth** (`MaxDepth`). Re-entrancy needs the operation, the hook it calls and the
  operation that hook calls; the depths allow at least that, and in the wrappers and
  the manager one more round, so that the nested operation is itself interrupted.
* **Time.** The room's timeout (2) is more than one tick, so that a grace can be cut
  short, and it and the check interval (3) share no factor, so that a timeout and a check
  fall into one tick in some behaviours and into different ones in others. The bridge's delays run through 2, 4, 5, 5: growth,
  the ceiling, and the cap at the fourth failure.
* **History.** With two sessions, one is finished while the other runs, one exceeds
  `maxSessions` = 1, and two of two chunks exceed `MaxBytes` = 2, so every one of the
  retention rules deletes something in some behaviour. `MaxBegun` bounds the sessions of
  all runtimes together; reloads are not bounded.
* **Data.** TraceWire's strings have every unit on either side of a boundary of UTF-8 and
  of the surrogates, in every pair; its numbers are those on either side of every length.
  `VarBytes` = 3 stands for the eight bytes of the code: 2^21 - 1 for 2^56 - 1, and
  `MaxSafe` for 2^53 - 1 in the same proportion. TraceErrors has two errors and each of the
  ways they can cause and aggregate each other; the limits are small enough to be met.
  FrameStream's frames are on either side of the limit, alone and put together, in up to
  four frames: a message of three fragments has one control frame in between.
* **Sessions.** Two events of three kinds of payload and chunks of four records make
  definitions fall into an earlier chunk than their use. Two versions of a schema have
  one name.
* **Requests.** With two sessions the workbench may replace the snapshot between the two
  parts of a sweep's download, and the cap of 1 leaves one session to the next sweep. Two
  connections are the stale one and its successor. `MaxLate` = 1: a deletion that was
  given up is carried out while its successor waits.
* **Single-use instances.** A state or a game instance is constructed once, as in the
  code. What a bound leaves out is therefore long sequences, and these are what the
  proofs are for.
* `CHECK_DEADLOCK FALSE` stands in the runs whose system may really stop: a session
  that is disposed of, a player manager that is, a component that is detached, an input
  that has been read.

### Fairness

* `stops`, engine: weak fairness of hook ends and engine loop steps, and nothing else:
  hooks return or throw. Game code that never returns would stop the server.
* `stops`, runners: weak fairness of "the running code comes to its next await" and strong
  fairness of the promise queue, which the host drains between turns. *No* fairness of
  timers: `CancelUnwinds` must hold though `system.waitTicks` never answers.
* `room`: the host ticks (strong, because it does so between any other events),
  delivers the events and runs elapsed scripts. Nothing about players.
* `traces`, bridge: clock, due timers, close events. Nothing about the Observatory, and an
  attempt may stay unanswered: `NothingWaitsForever` stops at "is connecting".
* `traces`, connect: the timer of the pending command, and the next operation of the queue
  once the last has settled. None of the game, its packs or the channel.
* `traces`, work: the server answers or fails each request, the page's timer fires, and a lost
  connection comes back. No fairness of the user.
* `components`, signals: a delivery goes on and a callback returns.
* `observatory`: the timer of the request that the sweep waits for, and nothing else: no
  fairness of the pack, the socket or the network.
* `traces`, history: worldLoad is delivered and intervals fire. No reload is assumed, or excluded.

## 4. Assumptions about game code

Some properties hold only of disciplined game code. Each such discipline is a constant,
or a history variable that exempts what is known to go wrong, so that it is visible and
can be lifted. What follows is what the source does when it is lifted. Three of these are
kept as violation runs.

| where | discipline in the passing run | what happens without it |
|---|---|---|
| GameEngine, `ThrowsAfterMove = FALSE` | an `onEnter` that has moved or removed its own state does not throw | finding 1 |
| GameEngine, `AcquiresAfterExit = FALSE` | nobody adds a component or a runner to a state that has been cleaned up | `addComponent` and `RunnerManager.run` look at the game's lifecycle, not at the state's (`core/gameState/gameState.ts:163`, `core/Runner/RunnerManager.ts:25`): what is added stays for good, and `NothingLeaks` fails |
| Participation, `Subscribe` | each subscription has a function of its own | the subscribers of a game are a Set of functions (`participationManager.ts:46`): two subscriptions of one function share an entry, and the first that is ended ends both |
| GamePlayers, `Careful = TRUE` | membership listeners keep off the players whose join, rollback or departure is still under way | `clear()` and `leaveAll()` remove the batch first and announce it afterwards: a player whom a listener lets join again is deactivated by his own stale "left" event (`playerManager.ts:37`). `join()` wraps the player at line 88 without asking again whether a listener removed him or stopped the game. `WrappersFollowMembers` fails both ways, against `gamePlayer.ts:28` ("whether this GamePlayer still belongs to the current game") |
| GameManager, `overtaken` | not a restriction: properties leave out keys that were started again while their last game was ending | finding 2; `disposeAll()` also deletes `games[key]` without the check `stopGameByKey` makes (`gameManager.ts:303` against `:231`), and the successor runs on unregistered; clearing the memberships by key takes the successor's with it |
| GameManager, `Join` | nobody is taken to join a game that is disposed of | `join()` of a game's participation does not ask for its lifecycle (`gameParticipation.ts:31`): the membership is made under the key, and no game releases it |
| RoomLifecycle, `Callbacks = {"returns"}` | `onOffline` neither throws nor takes the player out | one that throws skips `startTimeout` (`disconnectTimeout.ts:133`), and `RoomIsReclaimed` fails; one that takes the player out has a timer started for somebody who is no member (`:137`), which survives his return and cuts a later grace short (`ReleasedAfterGrace`) |
| RoomLifecycle, `Reenters = FALSE` | subscribers called before the component do not exit the state or change memberships | the component is called from a snapshot though it is detached, and starts a timer that nobody cancels (`:96`); `DetachedIsQuiet` fails |
| RoomLifecycle, `"throws" \notin Vetoes` | `canStop()` does not throw | the periodic script calls `checkNow()` before it schedules its successor (`autoStop.ts:72`); one exception ends the checks, which `docs/room-lifecycle.md:25` promises every ten seconds as the backstop, and `RoomIsReclaimed` fails |
| RoomLifecycle, `away` | not a restriction: being found by `getPlayer` before the spawn event does not count as being back | a player who joins the server and leaves before spawning keeps the old timer (`:141`), although `docs/room-lifecycle.md:21` says that reconnecting cancels it |
| TraceBridge, `"start" \notin PauseReport` | `onError` does not call `start()` when it is told of the pause (the message tells it to) | `fail()` runs inside `connect()`: `connecting` is still true, so nothing is attempted and no timer is set, and every later `start()` returns at its guard (`serverNet.ts:466`); `NothingWaitsForever` fails |
| TraceBridge, `"throw" \notin FirstReport` | `onError` does not throw when it is told of the first failure | no reconnect is scheduled (`:412`); `NothingWaitsForever` fails |
| TraceBridge, `stray` | not a restriction: `BackoffKept` leaves out timers set by a close event while an attempt was in flight | the close event of an earlier socket sets such a timer (`:444`), and `scheduleReconnect` keeps it when the attempt fails: the retry comes before its delay |
| TraceHistory, `Oversize = FALSE` | every chunk fits a dynamic property | a refused chunk is lost, the later ones are out of order, and the footer counts them all (`historyStore.ts:226`): `HistoryIsSound` fails, and `read()` throws for what had been stored too |
| TraceHistory, `Overlaps = FALSE` | `enable`, `disable`, `restoreEnabled` are not called while an earlier choice waits for worldLoad | the earlier choice is carried out last, so the store runs one way and the next runtime restores the other (`:184`); `HistoryIsSound` fails |
| PlayerGroups, `Careful = TRUE` | no callback adds a player who is being removed from every group, or removes groups meanwhile | the loop over the set (`groupSet.ts:151`) goes on: the player stays in a group it has passed, and one added back by the callback is in two teams of the chooser |
| PlayerGroups, `Careful = TRUE` (`OtherTeam`) | game code does not put a player by hand into a team while he is in another, or is being moved to one by the chooser | `PlayerGroup.add()` knows nothing of teams: he is in two, and the last conjunct of `GroupsAgree` fails |
| EventSignals, `Tidy = TRUE` | no region loses its last subscriber while the regions are checked | finding 4 |
| EventSignals, `Settled = TRUE` | callbacks of a slot do not subscribe to slots | the live set is walked (`inSlot.ts:92`), so who subscribes in a callback is called in the same loop; one that subscribes each time makes the tick endless, and `DeliveryEnds` fails |
| GameTimer, `Careful = TRUE` | no callback has the second announced again that is being announced | `set()` and `start()` inside a callback announce at once: a `once` listener of that second is called a second time before its first call has returned (`timer/onTimeEvent.ts`) |
| GameTimer, `Owed` | not a restriction: `KeepsTime` allows for what the code does | a `set()` or `start()` from a callback of the loop that makes up for lost seconds does not end the loop (`timer.ts:107-111`, `stopWatch.ts`): the seconds it has still to make up for are taken off the new time, too. `KeepsTime` says that these are, and no others; with `owed` = 0 it fails |
| RegionBoundary, `Careful = TRUE` | `onEnter` and `onLeave` neither scan nor detach | the outer scan goes on: after a detachment it fills `insideById` again, so the next attachment takes what it finds for the state before; after an inner scan it may report what that has reported |
| StructureScan, `Careful = TRUE` | the structure is saved anew only while no scan of it is under way | `clear()` does not reach a scan that has begun (`structureBlockMask.ts:155`): it publishes a mask that is partly of the old blocks, and the cache keeps it |
| StructureScan, `RollbackFails` | not a restriction: `OwedStands` is about blocks whose roll-back went through | `setPermutation()` throws in a chunk that is not loaded, and the error is logged (`structureProtector.ts:261-266`): a block of the structure that was built over stays so until the map is reset |
| ChunkScope, `Careful = TRUE` | the game deletes nothing of the scope's, adds its keys only under others, and reloads or detaches it only where it is neither being left nor loaded | a component that the game deleted stays in the scope's list and a later clean-up deletes whatever has the key by then; `reload()` does not ask whether the scope is attached (`chunkScope.ts:149`), and a scope reloaded after its detachment has components that nobody releases; one that is detached in its own `onLoad` becomes active afterwards (`:80`) |
| Sidebar | commands leave the scores of an objective alone, and no line ends in §r | lines are told apart by a suffix of §r (`sidebarScoreboard.ts:152`), and equal scores of other participants would stay. A board that is told its lines stays blank after a command removed its objective, until it is told again |
| PlayerTexts | the game's filter of viewers does not throw | a new text would be shown to everybody with the text it was given (`playerTextPrimitive.ts:139`) |
| TraceUpload, `cut` | not a restriction: `NoneVanishes` leaves out sessions some parts of which the server had when it was restarted | the server keeps the parts in memory (`observatory/server/ingest.ts`), and accepts the ones that follow: the sink drops its copy with the last answer, and the trace is neither stored nor reported, although `serverNet.ts:56` says that `onError` hears of every failed delivery |
| Observatory, `revived` | not a restriction: `DeletedIsGone` leaves out a trace that a sweep was downloading when its deletion began | the archived copy is removed first and the pack's copy deleted next (`app.ts:365`); the sweep has all its parts by then, saves it, and the row is back, although the comment at `app.ts:363` says that dropping both copies prevents just that. `DeletedIsGone` fails without the exemption |

## 5. What the violation runs show

1. `engine_rollback_leak` (`NothingOrphaned`). `docs/architecture.md:24` promises that a
   failed entry is rolled back with the child states it created. `pushState` takes the
   first spliced state to be the failing one (`gameEngine.ts:195`). When `onEnter` has
   replaced its own state before throwing, the first one is the replacement: it is
   dropped without `onExit`, and its components and runners stay alive.
2. `manager_session_theft` (`OneGameOneSession`). `docs/game-trace.md:5` gives every game its
   own trace session until its disposal. `stopGameByKey` ends the session of the *key*
   without asking whose it is (`gameManager.ts:235`), and a game stopped again from its own
   `onStop` may have a running successor by then.
3. `failed_state_lingers` (`OwnerIsTheTop`). The decoder files events under the state on
   top ("Groups events by their owning state instance", `decode.mjs:141`) and takes states
   off on `state.remove` only. A state whose `onEnter` failed is never reported as removed:
   it stays on the stack of the reader until a state below it is removed.
4. `region_states` (`StatesHaveSubscribers`). `regionEvents.ts:58` says that a region without
   subscribers has its state cleared. When a callback of the check itself drops the last
   one, line 137 writes the state again.
5. `settled_forgets` (`UnfinishedIsKept`). `manager.ts:37` says that a session is kept until its
   writes have drained. `settled()` clears all of them after waiting for those there were
   when it was called (`manager.ts:198`).

### Seen while modelling, without a run of their own

* `RunnerManager.ts:59`: when two delays elapse in one tick and the script of the first cancels
  the second, the check in `wait()` has passed (`scriptRunner.ts:98`) and `runDelay()` calls the
  function of the second all the same. `doDelay()` asks again. Nothing in the repository promises
  that a cancelled runner calls nothing more, and no property says so.
* `participationManager.ts:46-60`: a subscription keeps the Set it was added to. Of two
  subscriptions of one function, the second that is ended finds that Set empty and deletes the
  key, under which another subscriber may have begun a newer Set by then: he hears no more.
* `App.tsx:866` and `:246`: Ctrl+Enter decodes without asking whether the page is busy, and
  the end of the decoding enables the buttons while another operation is still under way.
* `binary.ts:349`: the entries of an object are assigned to a plain object, so that an entry
  with the key `__proto__` does not come back. No event of the framework has one.
* `App.tsx:195` and `:176`: a background refresh whose answer comes late replaces a session
  the user has selected meanwhile; the selection follows it, so that `ArrivesWhole` holds.
  The refresh looks its group up by pack alone (`:209`), and may take one of another kind.
* `ws.ts:102`: `receive()` does not ask whether the connection is closed. What a replaced
  connection still delivers reaches `onMessage`; a late "ready" on it would take the route
  (`net.ts:290`). FrameStream has it so; Observatory takes nothing to arrive from a
  replaced connection.
* `playerTextPrimitive.ts:211`: with `visibleTo: "others"` and one player in the world the
  list of viewers is empty, and the text is shown to everybody, which line 196 avoids for a filter.
* `trace/serverNet.ts:49` calls `maxBufferedBytes` a combined limit; the buffer and the queue are
  each held to it. `ingest.ts:10` calls `MAX_PENDING_BYTES` a limit "across all in-flight sessions";
  it is applied to each.
* `connect.ts:216`: a listing in pages misses a session when another is deleted between two pages.
* `binary.ts`: `writeVarInt` takes safe integers, but throws a RangeError beyond 2^52.
* `logParser.ts:88`: one session exported in two sizes has the whole log refused, not only that
  session; `decodeTracePayload`, which by its comment never throws, throws then.
* `decode.mjs` and `analysis.mjs` disagree on what an error event is (the suffix ".error").
* `session.ts:151`: circular references do not count among the 16 entries that
  `docs/game-trace.md:227` limits an error tree to.
* `gameState.ts:174`: `addComponent` reads the list of a type before it attaches and pushes to
  it afterwards; two additions of one type, one inside the `onAttach` of the other, may
  register on different lists, of which one is lost.

## 6. What is proved

`tlapm` proves these for all values of the constants: any number of players, games,
states, sessions, subscriptions, rooms, any nesting, any bound of a clock or a queue. They
assume only the `ASSUME`s of the modules and what their statements name. Where a run gives
a constant of discipline a fixed value (`Careful <- TRUE` in MCServices and MCComponents),
so does the theorem; section 4 says what each one asks of game code.

| theorem | statement | argument |
|---|---|---|
| `ServicesProofs!TypeCorrect` | `Spec => []TypeOK` | each operation is a link or an unlink with an announcement; the lemmas on `AddAll`/`RemoveAll` say what these return |
| `IndicesNeverDrift`, `StateStaysConsistent` | `Spec => []IndicesAgree`, and with the types `Spec => []StateIsConsistent` | inductive with TypeOK: `LinkIndices`, `UnlinkIndices` |
| `NoWakeupIsLost` | `Spec => []NoLostWakeup` | not inductive: it says nothing of a subscriber who is behind while an emission is under way. `StaleIsPending` does: whoever is behind is still subscribed, and is either in the snapshot of a frame or its game is among the events a frame has yet to announce |
| `RefinesMembership` | `Spec => ImplementsMembership` | `members` is what either index says; an operation maps to the abstract one, every step of an emission to a stutter |
| `GameEngineProofs!TypeCorrect` | `Spec => []TypeOK` | with `FramesNameStates`: a frame that works for a state names one, which TypeOK alone does not say |
| `SessionIsALifecycle` | `Spec => ImplementsLifecycle` | with `LifeInv`: a session that was not started has no frames, and a `dispose` frame exists only while stopping |
| `DisposedStaysEmpty` | `Spec => []DisposedIsEmpty` | `LifeInv` again; a push needs an active game, and the disposal ends when the stack is empty |
| `StackStaysLive`, `StackStaysSound` | `~ThrowsAfterMove` implies `Spec => []StackIsLive`, and with the two above `Spec => []StackIsSound` | with `OffStack`: a state that a frame is removing or rolling back was constructed before and is not on the stack. This is what a nested push, pop or transition could spoil, and without the discipline it is false (finding 1) |
| `NoStateIsOrphaned`, `NothingIsLost` | `~ThrowsAfterMove` implies `Spec => []NothingOrphaned`; with `~AcquiresAfterExit` also `Spec => []NothingLeaks` | `LeakInv`: the frames below a hook have the phase of their states right (`FramesSound`), no two rollbacks wait for one state (`PendingOnce`), and a state past its cleanup has nothing left (`Released`) |
| `ExitIsCalledOnce` | `~ThrowsAfterMove` implies `Spec => ExitCalledOnce` | of every step, the `onExit` frames it adds, beside frames of the same state or not, are for states that were live before it and no longer are after it (`ExitsAreFirst`); a popped state was on the stack, so `StackIsLive` says it was; and no step makes a state live again that no longer is (`NeverLiveAgain`) |
| `ObservatoryProofs!InvHolds` | `ObservatoryAssumption => (Spec => []Inv)` | `Inv` has three parts, one for each theorem below |
| `RequestsFollowTheRoute` | `Spec => []RoutesAgree` | `BaseInv`: messages and jobs are of their types, the answers that are under way to a caller are to the request it waits with (`Match`), and no two of them are to one caller (`One`) |
| `OnlyWholeTracesAreKept` | `Spec => []ArchiveIsWhole` | `WholeInv`: what the sweep has chosen had ended, so had what a listing on its way calls finished, and a successful "begin" on its way to the sweep brings a whole trace. The last of these is what a download of the workbench in between might break |
| `DeletionsLast` | `Spec => []DeletedIsGone` | `DeleteInv`: a request to delete is ahead, on its connection, of any "begin" of the sweep that does not know of it (`Asked`), and after it was carried out a download of the session that is under way is refused (`Carried`). This is where the order of the messages on a connection is used |
| `RoomLifecycleProofs!ExitLeavesNothing` | `~Reenters` and `"leaves" \notin Callbacks` imply `Spec => []DetachedIsQuiet` | with the scripts that are due: each is of a timer that has run out, of a check that is due, or of an event in its own tick |
| `GraceIsWhole` | on the same conditions, `Spec => ReleasedAfterGrace` | the same invariant: a countdown has not run longer than its player has been away (`TimerOK`), and one that is over was long enough (`DueOK`) |
| `ServicesProofs!WrappersFollow` | `Services => []WrappersFollowMembers` | a member without an active wrapper is one that a call under way has taken on (`Claimants`), calls do not claim each other's players (`FramesFit`) |
| `RollbackIsComplete` | `Services => RollbackReleases` | who is still to be taken back stays in the frame of the rollback, through every push and pop above it (`RollbackStays`) |
| `KeysNameTheLiveGame` | `Services => []KeysAgree` | every game that is half way is in the hands of a frame (`NoneForgotten`), and what a frame will clean up under a key belongs to the game that has the key, or the key was overtaken (`CallsFit`) |
| `GroupsProofs!GroupsStayInAgreement` | `Services => []GroupsAgree` | `GroupsInv`: the index of a group is `Indexed` of its array, which a deletion re-establishes entry by entry; whoever is behind the set's members has a frame of the stack that will publish (`WatcherIsCalled`); what the loop of `removePlayer` has passed is clean but for groups that listed the player twice, and who is entering a team is in none but those he is about to leave (`GroupFramesFit`); `OneTeam` |
| `ComponentsProofs!SignalsHold`, `DetachedHearNothing` | `Components => []SignalsAreSound`, `Components => DeafAfterDetach` | `EInv`: a subscription is to one signal (`Apart`); a region has a state exactly if it is followed (`Followed`); and what a follower was told, with what it is due to be told, is what was seen of the region, or else its state (`Tells`). The property itself speaks of the time between two deliveries only |
| `TimersKeepTime` | `Components => []TimerIsSound` | `TInv`: the seconds counted and those the loop has still to count end where the timer looked at the clock last, the seconds owed at the last `set()` or `start()` apart (`Kept`); the frames are about different seconds and different listeners (`TimerStack`), and a listener that has been called waits for nothing (`Waiting`) |
| `ReportsTakeTurns` | `Components => ReportsAlternate` | `BInv`: who is in the source and was reported is remembered the way he was reported (`Remembered`), and a scan under way has him alive or still to do (`SeenAgain`) |
| `RoomsStayProtected` | `Components => []RoomsAreProtected` | `SInv`: a scan at block n has found what there is below n (`JobFits`); what is owed to a room stands, and the room has scanned it (`OwedFits`) |
| `WhatIsOwnedGoes` | `Components => []OwnedIsReleased` | for the chunk `CInv`: also while a callback runs the list is what the scope has in the state, and callbacks nest in loading only; for the sidebar `DInv`: entries of a view are told apart, so that writing the differences writes the lines; the texts are inductive with their types |
| `ReaderKeepsUp` | `~ThrowsAfterMove` implies `ReadSpec => []ReaderFollows` | `ReadInv`: the engine's stack is part of the reader's, in the same order (`Mirrors`); of what the reader has besides, each state failed to enter or is in the hands of a frame that will report its removal (`Accounted`), and the cleanup that is not reported is that of a state known to have failed (`FramesKnown`). Between two calls there is no frame, and two sequences in the order of a third with the same elements are equal (`SameSequence`) |
| `GameEngineProofs!RunnersAreTracked` | `Stops => []TracksWhatRuns` | `RInv`: each continuation that is queued, each wait a timer owes and each runner or job under way is there once and fits the others (`Continuations`, `Entries`). The property speaks of a quiet host only; `RInv` says who, while code runs, still owes what |
| `CancelledRunnersAreOver` | `Stops => []CancelledIsOver` | `RInv` with `Pending`: a handle that is armed is of a runner that was not cancelled, since cancelling rejects what the runner has and a later `wait()` is refused; and a cancelled script that has not ended is running, or has a continuation queued or a wait in flight. With an empty queue and nothing running, neither is left |
| `TraceRuntimeProofs!ServedAlways` | `Runtime => []SessionsAreServed` | `ManagerInv`: no two games share a session, and a session that has not begun was given nothing and has called nobody (`SessionsApart`) |
| `NothingEverLeaks` | `ThrowsEarly => (Runtime => []NothingLeaks)` | `BridgeInv`: between two operations the attempts in a row are no more than the failures and the one in flight, and a bridge with as many failures as it may have has paused (`AtRest`), and nothing is open while a dial is in flight (`OneConnection`) |
| `BackoffIsKept` | `ThrowsEarly => (Runtime => BackoffKept)` | `BridgeInv` again: the time since the last failure and what is left of the timer add up to the backoff (`TimerIsDue`) |
| `HistoryStaysSound` | `Runtime => []HistoryIsSound` | `HistoryInv`: all of every session that began is stored or none of it (`Whole`); an enabled store has been maintained, or has its one maintenance ahead among the callbacks of worldLoad (`Fits`); and after the last choice the pack made no other will be stored (`Pending`). That the retention loop ends within the limits rests on a finite set of sessions having an oldest, and on what a cleanup removes being counted (`Bounded`) |
| `FinishedStaysFrozen` | `Runtime => FinishedIsFrozen` | every operation of the store leaves a finished record as it is or deletes it (`Kept`), and so does what is put together of them |

MCServices, MCComponents, MCStops and MCTraceRuntime put modules beside each other, so the proofs do: an invariant for
each module, with its `Init` and its `Next`, and then one invariant that says of each
`subject` that it has its own. TLC has checked every one of these invariants on its run
before the proof. Theorems about GameManager, EventSignals and the others hold of each
module by itself for this reason, since a behaviour of `Services`, `Components`, `Stops` or
`Runtime` is a behaviour of one of them.

`ThrowsEarly` says that `MaxFailures > 1` if `FirstReport` has "throw", that is, if `onError`
may throw when the first failure is reported. Without it both theorems are false: `fail()`
calls `report()` before it compares the count (`trace/serverNet.ts:411-414`), so that with
`maxConsecutiveFailures: 1` an `onError` that throws keeps the bridge from pausing, and the
late close event of an earlier socket makes it dial once more. With a higher cap the first failure
is not the one that pauses.

`SequenceLemmas` holds what the stacks need of `SubSeq`, `Front`, `Append`, `RemoveAt` and
`EXCEPT`: they are cited wherever a call is pushed, popped or gone on with. Three proofs need
an induction, and have it as a least counterexample (`LeastOf`): the entries that `removeWhere`
retains, and the reader's stack without failed states, are recursive functions of a length
(`Without`), and the oldest session of a finite set is what the retention loop deletes.

Some assumptions on constants are there for the provers alone: that `None` is none of the
records it is compared with, and that a literal is a string. TLC evaluates them.

Only model-checked:

* Liveness (`StopDisposes`, `CancelUnwinds`, `RoomIsReclaimed`, `DeliveryEnds`,
  `NothingWaitsForever`, `ExpiredIsCollected`, `SweepEnds`), because fairness and ENABLED are
  out of the prover's reach.
* What TraceWire, TraceErrors and TraceSession compute, because they recurse over data,
  which takes induction over data or RECURSIVE operators; MCTraces reaches these modules.
* TraceUpload, TraceConnect, TraceWorkbench and FrameStream (`ArrivesWhole`), of which no theorem
  has been stated yet.
* What happens where a discipline is not kept: the theorems about the stack assume
  `~ThrowsAfterMove` (finding 1 is the counterexample), those about the rest the constants
  that section 4 explains.

## 7. Correspondence and abstraction

`PROJECT.json` maps every definition to the lines it models. In general:

* One action is the code between two points where other code may run: from the call to
  the first hook, from the hook's return to the next, from an await to the next.
* A hook that returns and a hook that throws are two actions, or one with a parameter.
* Logging, texts, trace records, key construction and the order of Maps and Sets are
  left out. Where an order matters (a stack, a queue of continuations, the waiters of
  worldLoad) it is a sequence; where the code goes through a Set and hooks run in
  between, any order is allowed, which covers the one the code has.
* Of the host we model what the code relies on: `system.waitTicks`, `runJob`,
  dynamic properties, WebSocket events and ticks appear as external definitions.

Some code is abstracted more than the rest. GameManager has the hooks of a disposal as one
frame ("exits"), since what they do inside the game is GameEngine's. GamePlayers has one
game, and a join the policy refuses is no step. RoomLifecycle has one root state and
represents a `runner.runDelay` by the ticks it has left. TraceHistory counts every chunk
as one byte, and `old` tells which sessions are past `maxAgeMs`. Observatory has one pack,
drops on the spot what a timeout leaves without effect, and takes a lost connection for
lost at the pack first, since nothing passes until both ends know. TraceSession counts a
chunk's records, not its bytes, and TraceWire a double as eight bytes. EventSignals leaves
open which of the built-in events lets an event pass, since the signals differ in nothing
else. TraceLog leaves out the text around a line. FrameStream has frames of a few bytes,
and a message is the list of its frames.

## 8. What is not modelled

* **Player components, region protection, geometry**: each filters one event of Minecraft or
  repeats one action at an interval and keeps nothing between two of them; the
  geometry is arithmetic.
* **Commands, entry points, configuration, the contract of the packages**: wiring, types and
  constants. What the commands call is modelled.
* **Utilities**: without state. **Test engine**: a fake of Minecraft. **Scripts, experiments,
  examples**: not part of the running system.
* **Views and statistics of the Observatory**: they display and count what is decoded.

Partly modelled: RoomLifecycle leaves out `timeout: 0`, `releaseOnTimeout: false`, the participant
filter and custom member sources; Observatory the bound on connections and the status and
store requests; the web server its tokens, limits on bodies, zip output and options; the
views teamScoreboard.ts and the presets; the built-in events their filters. `PROJECT.json` has
the rest, component by component.

A crash between the two writes of the archive leaves a trace that is never listed
(`archive.ts:154`). Observatory reaches such files ("unlisted"), but nothing in the repository
promises that every finished session is listed, so no property is about it.

## 9. What could come next

1. Proofs: `ArrivesWhole`, one theorem for each of its four modules.
2. An abstract read of a trace ("the whole of one version, or a failure") that TraceConnect,
   Observatory and TraceUpload all implement, in place of their separate invariants.
3. Composition of FrameStream with Observatory: a replaced connection that still delivers.
4. SpawnController (overlapping safe areas, first binding wins) and the PvP scope, against a
   reference definition.
