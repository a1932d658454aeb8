------------------------------- MODULE MCStops -------------------------------
(***************************************************************************)
(* What has to end: a game that is stopping, whatever its hooks do, and a   *)
(* script that was cancelled, whatever its timers do.  The game session     *)
(* and the runners share no state in the model, so one run explores each by *)
(* itself, as `subject` says; the variables of the other stay unused.       *)
(***************************************************************************)
EXTENDS GameEngine

CONSTANTS MaxIds, MaxWaits, Host  \* RunnerManager

VARIABLES
  subject,                                                    \* what is explored
  kind, running, cancelled, over, jobs, promise, owner,       \* RunnerManager
  delayed, flight, handles, armed, timers, queue, code, draining

R == INSTANCE RunnerManager WITH runners <- running, Catches <- TRUE

ASSUME StopsAssumption == R!RunnerAssumption

runnerVars ==
  <<kind, running, cancelled, over, jobs, promise, owner,
    delayed, flight, handles, armed, timers, queue, code, draining>>

allVars == <<subject, vars, runnerVars>>

NoEngine ==
  /\ lifecycle = Host /\ stack = Host /\ components = Host
  /\ runners = Host /\ calls = Host /\ phase = Host

NoRunners ==
  /\ kind = {} /\ running = {} /\ cancelled = {} /\ over = {} /\ jobs = {}
  /\ promise = {} /\ owner = {} /\ delayed = {} /\ flight = {} /\ handles = {}
  /\ armed = {} /\ timers = {} /\ queue = {} /\ code = {} /\ draining = {}

AnyInit ==
  /\ subject \in {"engine", "runners"}
  /\ IF subject = "engine" THEN Init ELSE NoEngine
  /\ IF subject = "runners" THEN R!Init ELSE NoRunners

ButEngine == <<subject, runnerVars>>
ButRunners == <<subject, vars>>

AnyNext ==
  \/ subject = "engine" /\ Next /\ UNCHANGED ButEngine
  \/ subject = "runners" /\ R!Next /\ UNCHANGED ButRunners

\* The fairness of GameEngine and of RunnerManager.
Stops ==
  /\ AnyInit /\ [][AnyNext]_allVars
  /\ WF_allVars(subject = "engine" /\ EngineStep /\ UNCHANGED ButEngine)
  /\ \A d \in 1..(MaxDepth + 2) :
       SF_allVars(subject = "engine" /\ HookEnds /\ Len(calls) = d /\ UNCHANGED ButEngine)
  /\ WF_allVars(subject = "runners" /\ R!TurnEnds /\ UNCHANGED ButRunners)
  /\ SF_allVars(subject = "runners" /\ R!Microtask /\ UNCHANGED ButRunners)

-----------------------------------------------------------------------------
\* The manager's map is what runs, and a script comes back once from every wait.
TracksWhatRuns == subject = "runners" => R!TracksWhatRuns /\ R!OneContinuation

\* Nothing of a cancelled script is left when the host gets its turn again.
CancelledIsOver == subject = "runners" => R!CancelledIsOver

\* A cancelled script ends, whatever its timers do.
CancelUnwinds ==
  \A i \in R!Ids : (subject = "runners" /\ i \in cancelled) ~> (i \in over \ running)
=============================================================================
