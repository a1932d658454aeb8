----------------------------- MODULE TraceManager -----------------------------
(***************************************************************************)
(* The registry of a TraceManager (trace/src/runtime/manager.ts): the        *)
(* sessions of the running games, the sinks each was given when it began,    *)
(* the subscription to connection events, and the ended sessions that are    *)
(* kept while asynchronous sinks still work on what they were handed         *)
(* (TraceSession.safeSink and settled).                                      *)
(***************************************************************************)
EXTENDS Naturals, FiniteSets, SequencesExt

CONSTANTS
  Games,       \* keys of games
  Feeds,       \* connection sources
  None,
  MaxBegun,    \* bound: sessions begun
  MaxCalls,    \* bound: calls to the sinks of a session
  MaxPending   \* bound: sink operations of a session under way at once

ManagerAssumption ==
  /\ MaxBegun \in Nat /\ MaxCalls \in Nat /\ MaxPending \in Nat \ {0}
  /\ None \notin Nat /\ None \notin Feeds

Sessions == 1..MaxBegun
Sinks == {"sink", "store"}

VARIABLES
  sink,       \* a sink is set; the other one is
  accepting,  \* the store's acceptingSessions
  feed,       \* connectionSource
  heeding,    \* the source connectionSubscription is with
  sessions,   \* the session of each game
  begun,      \* sessionCounter
  given,      \* the sinks a session was given when it began
  calls,      \* how often each session has called its sinks, and
  heard,      \* how often each of them was called
  pending,    \* pendingSinkOperations of each session
  completed,  \* completedSessions
  settling    \* the sessions that a settled() still waits for

sinkVars == <<sink, accepting, given>>
feedVars == <<feed, heeding>>
vars == <<sinkVars, feedVars, sessions, begun, calls, heard, pending, completed, settling>>

Running == {sessions[g] : g \in Games} \ {None}

\* createSessionSink(): the sinks of a session that begins now.
SessionSinks == (IF sink THEN {"sink"} ELSE {}) \union (IF accepting THEN {"store"} ELSE {})

\* Mutant: the subscription outlives a change of the source.
RefreshKeepsSource(running, source, with) ==
  IF running = {} THEN None ELSE IF with # None THEN with ELSE source

\* refreshConnectionSubscription(), where the source was bound anew if `with` is not it.
Refresh(running, source, with) ==
  IF running = {} THEN None ELSE IF with # None /\ with = source THEN with ELSE source

\* setSink()
SetSink(on) ==
  /\ sink' = on
  /\ heeding' = Refresh(Running, feed, heeding)
  /\ UNCHANGED <<accepting, given, feed, sessions, begun, calls, heard, pending, completed, settling>>

\* The store is enabled or disabled, or the world is loaded.
Toggle ==
  /\ accepting' = ~accepting
  /\ UNCHANGED <<sink, given, feedVars, sessions, begun, calls, heard, pending, completed, settling>>

\* bindConnectionSource()
BindConnectionSource(f) ==
  /\ f # feed
  /\ feed' = f
  /\ heeding' = Refresh(Running, f, heeding)
  /\ UNCHANGED <<sinkVars, sessions, begun, calls, heard, pending, completed, settling>>

\* dispatchSinks(): which of S are called, whatever the others do.
Dispatch(S, outcome) == S

\* What a call of the sinks comes to: the store is synchronous.
Outcomes == [sink : {"returns", "throws", "promises"}, store : {"returns", "throws"}]

\* A session s calls its sinks: what they return makes one operation to wait for, or none.
CallSinks(s, S) ==
  \E outcome \in Outcomes :
    /\ calls' = [calls EXCEPT ![s] = @ + 1]
    /\ heard' = [heard EXCEPT ![s] = [k \in Sinks |-> IF k \in Dispatch(S, outcome) THEN @[k] + 1 ELSE @[k]]]
    /\ pending' = [pending EXCEPT ![s] = IF \E k \in S : outcome[k] = "promises" THEN @ + 1 ELSE @]

\* beginSession(): onSessionStart is the first call.
BeginSession(g) ==
  /\ sessions[g] = None /\ SessionSinks # {} /\ begun < MaxBegun
  /\ begun' = begun + 1
  /\ sessions' = [sessions EXCEPT ![g] = begun']
  /\ given' = [given EXCEPT ![begun'] = SessionSinks]
  /\ CallSinks(begun', SessionSinks)
  /\ heeding' = Refresh(Running \union {begun'}, feed, heeding)
  /\ UNCHANGED <<sink, accepting, feed, completed, settling>>

\* sealChunk(), in a session that runs
Chunk(s) ==
  /\ s \in Running /\ calls[s] < MaxCalls /\ pending[s] < MaxPending
  /\ CallSinks(s, given[s])
  /\ UNCHANGED <<sinkVars, feedVars, sessions, begun, completed, settling>>

\* An ended session is kept while something is under way.
Retain(s, n) == n > 0

\* endSession()
EndSession(g) ==
  LET s == sessions[g]
  IN  /\ s # None /\ pending[s] < MaxPending
      /\ sessions' = [sessions EXCEPT ![g] = None]
      /\ CallSinks(s, given[s])
      /\ completed' = IF Retain(s, pending'[s]) THEN completed \union {s} ELSE completed \ {s}
      /\ heeding' = Refresh(Running \ {s}, feed, heeding)
      /\ UNCHANGED <<sinkVars, feed, begun, settling>>

\* An operation of a sink ends, well or not; onDrained() if it was the last.
Drains(s) ==
  /\ pending[s] > 0
  /\ pending' = [pending EXCEPT ![s] = @ - 1]
  /\ completed' = IF pending'[s] = 0 THEN completed \ {s} ELSE completed
  /\ UNCHANGED <<sinkVars, feedVars, sessions, begun, calls, heard, settling>>

\* settled() begins, with something to wait for.
Settled ==
  /\ settling = None /\ Running \union completed # {}
  /\ settling' = Running \union completed
  /\ UNCHANGED <<sinkVars, feedVars, sessions, begun, calls, heard, pending, completed>>

\* A session's settled() returns.
Settles(s) ==
  /\ settling # None /\ s \in settling /\ pending[s] = 0
  /\ settling' = settling \ {s}
  /\ UNCHANGED <<sinkVars, feedVars, sessions, begun, calls, heard, pending, completed>>

\* settled() ends, and forgets all that has ended.
AllSettled ==
  /\ settling = {}
  /\ settling' = None
  /\ completed' = {}
  /\ UNCHANGED <<sinkVars, feedVars, sessions, begun, calls, heard, pending>>

Init ==
  /\ sink = FALSE /\ accepting \in BOOLEAN
  /\ feed = None /\ heeding = None
  /\ sessions = [g \in Games |-> None]
  /\ begun = 0
  /\ given = [s \in Sessions |-> {}]
  /\ calls = [s \in Sessions |-> 0]
  /\ heard = [s \in Sessions |-> [k \in Sinks |-> 0]]
  /\ pending = [s \in Sessions |-> 0]
  /\ completed = {} /\ settling = None

Next ==
  \/ \E on \in BOOLEAN : SetSink(on)
  \/ Toggle
  \/ \E f \in Feeds : BindConnectionSource(f)
  \/ \E g \in Games : BeginSession(g) \/ EndSession(g)
  \/ \E s \in Sessions : Chunk(s) \/ Drains(s) \/ Settles(s)
  \/ Settled \/ AllSettled

Spec == Init /\ [][Next]_vars

-----------------------------------------------------------------------------
\* Connections are traced exactly while a session runs, from the source that is bound:
\* "a runtime store/sink toggle must not disconnect connection tracing for sessions that
\* are already active" (manager.ts:262).
HeedsWhileRunning == heeding = IF Running = {} THEN None ELSE feed

\* The sinks a session was given hear of all of it, whatever is set or disabled later and
\* whichever of them fails (manager.ts:209).
SinksHearAll ==
  \A s \in 1..begun : \A k \in Sinks : heard[s][k] = IF k \in given[s] THEN calls[s] ELSE 0

\* No ended session is kept that has nothing under way: "a create/stop cycle no longer
\* retains one session" (manager.ts:42).
NothingIsRetained == \A s \in completed : s \notin Running /\ pending[s] > 0

\* What a manager promises of the sessions it runs.
SessionsAreServed == HeedsWhileRunning /\ SinksHearAll /\ NothingIsRetained

\* An ended session is kept as long as its sinks work: "Ended sessions whose asynchronous
\* sink writes are still in flight" (manager.ts:37), which settled() waits for.
UnfinishedIsKept == \A s \in 1..begun : s \notin Running /\ pending[s] > 0 => s \in completed
=============================================================================
