---------------------------- MODULE MCComponents ----------------------------
(***************************************************************************)
(* The event signals of a game and six of its components: the timer, the    *)
(* boundary of a region, the protection of a structure, the components of a *)
(* chunk, the sidebar and the texts over players.  They share no state in   *)
(* the model, so one run explores each by itself: `subject` says whose      *)
(* behaviour this is.                                                       *)
(***************************************************************************)
EXTENDS Naturals, Sequences, TLC

CONSTANTS
  None,
  Owners, Subs, Regions, Visitors, \* EventSignals
  Second, MaxTime, MaxNow,         \* GameTimer
  TimerDepth, Listeners, Once,
  Guests, MaxScans,                \* RegionBoundary
  Rooms, Size, Batch,              \* StructureScan
  Keys, ScopeDepth,                \* ChunkScope
  Boards, Providers,               \* Sidebar
  Named, Words, MaxRuns            \* PlayerTexts

VARIABLES
  subject,                                                             \* what is explored
  enabled, records, signal, items, timer, listeners, hooked, watching,
  looking, states, inside, online, told, first, tick,                  \* EventSignals
  options, attached, running, time, lastTime, now, events, frames,
  base, spent,                                                         \* GameTimer
  source, present, within, bound, insideById, scans, heard,            \* RegionBoundary
  template, mask, jobs, guarded, scanned, intact, owed,                \* StructureScan
  scoped, active, components, held, chunk, callbacks,                  \* ChunkScope
  owner, view, lines, pending, shows, outdated, objective, shown,      \* Sidebar
  phase, visible, runs, visibleTo, members, joined, team, says,
  primitives, world                                                    \* PlayerTexts

E == INSTANCE EventSignals WITH Tidy <- TRUE, Settled <- TRUE
T == INSTANCE GameTimer WITH MaxDepth <- TimerDepth, Careful <- TRUE
B == INSTANCE RegionBoundary WITH Careful <- TRUE
S == INSTANCE StructureScan WITH Careful <- TRUE
C == INSTANCE ChunkScope WITH MaxDepth <- ScopeDepth, Careful <- TRUE, attached <- scoped, present <- held
D == INSTANCE Sidebar WITH source <- shows, Contents <- {<<>>, <<"x", "x">>, <<"y", "x">>}
P == INSTANCE PlayerTexts WITH Players <- Named, online <- joined

ASSUME ComponentsAssumption ==
  E!SignalsAssumption /\ T!TimerAssumption /\ B!BoundaryAssumption /\ S!ScanAssumption
  /\ C!ScopeAssumption /\ D!SidebarAssumption /\ P!TextsAssumption

signalsVars == <<enabled, records, signal, items, timer, listeners, hooked, watching, looking,
                 states, inside, online, told, first, tick>>
timerVars == <<options, attached, running, time, lastTime, now, events, frames, base, spent>>
boundaryVars == <<source, present, within, bound, insideById, scans, heard>>
scanVars == <<template, mask, jobs, guarded, scanned, intact, owed>>
scopeVars == <<scoped, active, components, held, chunk, callbacks>>
sidebarVars == <<owner, view, lines, pending, shows, outdated, objective, shown>>
textVars ==
  <<phase, visible, runs, visibleTo, members, joined, team, says, primitives, world>>
allVars ==
  <<subject, signalsVars, timerVars, boundaryVars, scanVars, scopeVars, sidebarVars, textVars>>

NoSignals ==
  /\ enabled = None /\ records = None /\ signal = None /\ items = None /\ timer = None
  /\ listeners = None /\ hooked = None /\ watching = None /\ looking = None /\ states = None
  /\ inside = None /\ online = None /\ told = None /\ first = None /\ tick = None

NoTimer ==
  /\ options = None /\ attached = None /\ running = None /\ time = None /\ lastTime = None
  /\ now = None /\ events = None /\ frames = None /\ base = None /\ spent = None

NoBoundary ==
  /\ source = None /\ present = None /\ within = None /\ bound = None
  /\ insideById = None /\ scans = None /\ heard = None

NoScan ==
  /\ template = None /\ mask = None /\ jobs = None /\ guarded = None
  /\ scanned = None /\ intact = None /\ owed = None

NoScope ==
  /\ scoped = None /\ active = None /\ components = None
  /\ held = None /\ chunk = None /\ callbacks = None

NoSidebar ==
  /\ owner = None /\ view = None /\ lines = None /\ pending = None
  /\ shows = None /\ outdated = None /\ objective = None /\ shown = None

NoTexts ==
  /\ phase = None /\ visible = None /\ runs = None /\ visibleTo = None /\ members = None
  /\ joined = None /\ team = None /\ says = None /\ primitives = None /\ world = None

AnyInit ==
  /\ subject \in {"signals", "timer", "boundary", "scan", "scope", "sidebar", "texts"}
  /\ IF subject = "signals" THEN E!Init ELSE NoSignals
  /\ IF subject = "timer" THEN T!Init ELSE NoTimer
  /\ IF subject = "boundary" THEN B!Init ELSE NoBoundary
  /\ IF subject = "scan" THEN S!Init ELSE NoScan
  /\ IF subject = "scope" THEN C!Init ELSE NoScope
  /\ IF subject = "sidebar" THEN D!Init ELSE NoSidebar
  /\ IF subject = "texts" THEN P!Init ELSE NoTexts

ButSignals == <<subject, timerVars, boundaryVars, scanVars, scopeVars, sidebarVars, textVars>>
ButTimer == <<subject, signalsVars, boundaryVars, scanVars, scopeVars, sidebarVars, textVars>>
ButBoundary == <<subject, signalsVars, timerVars, scanVars, scopeVars, sidebarVars, textVars>>
ButScan == <<subject, signalsVars, timerVars, boundaryVars, scopeVars, sidebarVars, textVars>>
ButScope == <<subject, signalsVars, timerVars, boundaryVars, scanVars, sidebarVars, textVars>>
ButSidebar == <<subject, signalsVars, timerVars, boundaryVars, scanVars, scopeVars, textVars>>
ButTexts == <<subject, signalsVars, timerVars, boundaryVars, scanVars, scopeVars, sidebarVars>>

AnyNext ==
  \/ subject = "signals" /\ E!Next /\ UNCHANGED ButSignals
  \/ subject = "timer" /\ T!Next /\ UNCHANGED ButTimer
  \/ subject = "boundary" /\ B!Next /\ UNCHANGED ButBoundary
  \/ subject = "scan" /\ S!Next /\ UNCHANGED ButScan
  \/ subject = "scope" /\ C!Next /\ UNCHANGED ButScope
  \/ subject = "sidebar" /\ D!Next /\ UNCHANGED ButSidebar
  \/ subject = "texts" /\ P!Next /\ UNCHANGED ButTexts

\* A delivery goes on, and no callback runs forever.
Components ==
  /\ AnyInit /\ [][AnyNext]_allVars
  /\ WF_allVars(subject = "signals" /\ E!Delivery /\ UNCHANGED ButSignals)

\* Every native subscription has someone it is there for, and a region's subscriber is told
\* who comes and who goes.
SignalsAreSound   == subject = "signals" => E!NativeIsHeld /\ E!TellsWhoIsInside

\* An owner that is gone hears nothing more, and every delivery ends.
DeafAfterDetach   == [][subject = "signals" => E!DeafAfterDetach]_allVars
DeliveryEnds      == []<>(subject = "signals" => E!NoDelivery)

\* No listener of a timer hears more than there is for it; a boundary reports an entry, an exit,
\* an entry; what stands of a protected structure stays.
TimerIsSound      == subject = "timer" => T!TimerIsSound
ReportsAlternate  == [][subject = "boundary" => B!ReportsAlternate]_allVars
RoomsAreProtected == subject = "scan" => S!RoomsAreProtected

\* A chunk's components are in the state as long as the chunk is loaded; the objective of the
\* sidebar is in the world as long as its board has it, with the latest lines; and a text over
\* a player as long as its component is attached and not hidden.
OwnedIsReleased ==
  /\ subject = "scope" => C!ScopeHasItsOwn
  /\ subject = "sidebar" => D!SidebarIsSound
  /\ subject = "texts" => P!TextsAreSound
=============================================================================
