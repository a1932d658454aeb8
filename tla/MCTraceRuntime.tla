--------------------------- MODULE MCTraceRuntime ---------------------------
(***************************************************************************)
(* The runtime of the trace package in a behavior pack: the manager that     *)
(* runs the sessions, the store that keeps what they write, and the bridge   *)
(* that serves it.  They share no state in the model, so each is explored    *)
(* by itself: `subject` says whose behaviour this is, if it is one of        *)
(* theirs, and the variables of the others stay as they are.                 *)
(***************************************************************************)
EXTENDS Integers, Sequences

CONSTANTS
  None,
  Sockets, Base, Ceiling, MaxFailures, FirstReport, PauseReport,  \* TraceBridge
  MaxBegun,                                                       \* TraceHistory, TraceManager
  MaxChunks, Keeps, MaxBytes,                                     \* TraceHistory
  Games, Feeds, MaxCalls, MaxPending                              \* TraceManager

VARIABLES
  subject,                                                             \* what is explored
  bridge, conns, since, stray,                                         \* TraceBridge
  begun, open, sealed, ready, waiters, store, kv, old, chosen,         \* TraceHistory
  sink, accepting, feed, heeding, sessions, counter, given, calls,
  heard, pending, completed, settling                                  \* TraceManager

B == INSTANCE TraceBridge WITH LateCloses <- TRUE
H == INSTANCE TraceHistory WITH Oversize <- FALSE, Overlaps <- FALSE
M == INSTANCE TraceManager WITH begun <- counter

ASSUME RuntimeAssumption == B!BridgeAssumption /\ H!HistoryAssumption /\ M!ManagerAssumption

bridgeVars == <<bridge, conns, since, stray>>
historyVars == <<begun, open, sealed, ready, waiters, store, kv, old, chosen>>
managerVars == <<sink, accepting, feed, heeding, sessions, counter, given, calls, heard, pending,
                 completed, settling>>
runtimeVars == <<subject, bridgeVars, historyVars, managerVars>>

NoBridge == bridge = None /\ conns = None /\ since = None /\ stray = None

NoHistory ==
  /\ begun = None /\ open = None /\ sealed = None /\ ready = None /\ waiters = None
  /\ store = None /\ kv = None /\ old = None /\ chosen = None

NoManager ==
  /\ sink = None /\ accepting = None /\ feed = None /\ heeding = None /\ sessions = None
  /\ counter = None /\ given = None /\ calls = None /\ heard = None /\ pending = None
  /\ completed = None /\ settling = None

RuntimeInit ==
  /\ IF subject = "bridge" THEN B!Init ELSE NoBridge
  /\ IF subject = "history" THEN H!Init ELSE NoHistory
  /\ IF subject = "manager" THEN M!Init ELSE NoManager

RuntimeNext ==
  \/ subject = "bridge" /\ B!Next /\ UNCHANGED <<subject, historyVars, managerVars>>
  \/ subject = "history" /\ H!Next /\ UNCHANGED <<subject, bridgeVars, managerVars>>
  \/ subject = "manager" /\ M!Next /\ UNCHANGED <<subject, bridgeVars, historyVars>>

\* What any of them may do, fairly or not.
Runtime == RuntimeInit /\ [][RuntimeNext]_runtimeVars

-----------------------------------------------------------------------------
\* One socket at most, and none once stopped, nor too many attempts in a row.
NothingLeaks == subject = "bridge" => B!NothingLeaks

\* What is stored of a session can be read, and is kept as long as it must be.
HistoryIsSound == subject = "history" => H!HistoryIsSound

\* Every sink and subscription of a session is served, and no ended session is kept.
SessionsAreServed == subject = "manager" => M!SessionsAreServed

\* A failed connection is not tried again too soon.
BackoffKept == [][subject = "bridge" => B!BackoffKept]_runtimeVars

\* A finished session does not change.
FinishedIsFrozen == [][subject = "history" => H!FinishedIsFrozen]_runtimeVars
=============================================================================
