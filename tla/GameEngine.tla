------------------------------ MODULE GameEngine ------------------------------
(***************************************************************************)
(* One game session: GameEngine (gameEngine.ts) with its stack of GameState *)
(* instances (gameState/gameState.ts), driven by GameManager's              *)
(* startGame/stopGameByKey/disposeAll.                                      *)
(*                                                                          *)
(* Everything runs on one thread, but every hook is game code that may call *)
(* back into the engine before it returns: onStart, onStop, onEnter,        *)
(* onExit, a component's onAttach and onDetach.  `calls` is the call stack: *)
(* a frame is either game code (UserOps) or an engine loop waiting for the  *)
(* hook it called (EngineOps).  Game code also runs with an empty call      *)
(* stack, from an event callback or a runner.  Every hook may throw.        *)
(*                                                                          *)
(* Two constants say how disciplined game code is: ThrowsAfterMove and      *)
(* AcquiresAfterExit.  State constructors are taken not to call the engine. *)
(***************************************************************************)
EXTENDS Naturals, Sequences, SequencesExt

CONSTANTS
  States,            \* state instances; each is constructed at most once
  NoState,
  MaxDepth,          \* bound: call depth up to which game code calls the engine
  ThrowsAfterMove,   \* onEnter may throw after its own state was moved or removed
  AcquiresAfterExit  \* components and runners may be added to a cleaned up state

ASSUME EngineAssumption ==
  /\ NoState \notin States
  /\ MaxDepth \in Nat
  /\ ThrowsAfterMove \in BOOLEAN
  /\ AcquiresAfterExit \in BOOLEAN

VARIABLES
  lifecycle,   \* GameEngine._lifecycle
  stack,       \* GameEngine.stateStack, the root first
  components,  \* states whose components map is not empty
  runners,     \* states whose RunnerManager holds a runner
  calls,       \* the call stack, the running frame last
  phase        \* history: what has happened to each state instance

vars == <<lifecycle, stack, components, runners, calls, phase>>

UserOps == {"onStart", "onStop", "onEnter", "onExit", "onAttach", "onDetach", "deleted"}

\* dispose: _onDispose; reset, replace: clearing before the new state is pushed;
\* rollback: removing the children of a state whose onEnter threw; failed: its cleanup.
EngineOps == {"dispose", "reset", "replace", "rollback", "failed"}

Phases == {"unborn", "entering", "entered", "leaving", "cleaning", "gone"}

Frame ==
  [op     : UserOps \union EngineOps,
   state  : States \union {NoState},  \* the state the frame works for
   at     : Nat,                      \* stack height the loop clears down to
   rest   : Seq(States),              \* rollback: states taken off the stack
   failed : BOOLEAN]                  \* a hook called by the frame threw

CallAt(op, s, n) == [op |-> op, state |-> s, at |-> n, rest |-> <<>>, failed |-> FALSE]

Call(op, s) == CallAt(op, s, 0)

Running == calls # <<>>

Top == Last(calls)

In(op) == Running /\ Top.op = op

Enter(frame) == calls' = Append(calls, frame)

\* The running frame continues as another one (a tail call).
Become(frame) == calls' = [calls EXCEPT ![Len(calls)] = frame]

\* It continues as frame f and calls frame g.
BecomeThenEnter(f, g) == calls' = Append([calls EXCEPT ![Len(calls)] = f], g)

\* The running frame ends; an engine loop below it collects the error.
Leave(threw) ==
  LET below == Front(calls) IN
  calls' = IF threw /\ below # <<>> /\ Last(below).op \in EngineOps
           THEN [below EXCEPT ![Len(below)].failed = TRUE]
           ELSE below

IsActive == lifecycle \in {"starting", "running"}

\* Game code is running and may call the engine.
MayCall == (Running => Top.op \in UserOps) /\ Len(calls) < MaxDepth

Unborn(s) == phase[s] = "unborn"

OnStack(s) == \E i \in 1..Len(stack) : stack[i] = s

HeightOf(s) == CHOOSE i \in 1..Len(stack) : stack[i] = s

-----------------------------------------------------------------------------
(* pushState *)

\* pushState(): the instance goes on the stack before its onEnter runs.
Push(s) ==
  /\ stack' = Append(stack, s)
  /\ phase' = [phase EXCEPT ![s] = "entering"]

PushState(s) ==
  /\ MayCall
  /\ IsActive
  /\ Unborn(s)
  /\ Push(s)
  /\ Enter(CallAt("onEnter", s, Len(stack)))
  /\ UNCHANGED <<lifecycle, components, runners>>

EnterReturns ==
  /\ In("onEnter")
  /\ phase' = [phase EXCEPT ![Top.state] = IF @ = "entering" THEN "entered" ELSE @]
  /\ Leave(FALSE)
  /\ UNCHANGED <<lifecycle, stack, components, runners>>

\* stateStack.splice(n): what stays, and what is taken off.
Below(n) == IF n < Len(stack) THEN SubSeq(stack, 1, n) ELSE stack

Above(n) == IF n < Len(stack) THEN SubSeq(stack, n + 1, Len(stack)) ELSE <<>>

Rollback(s, n) == [CallAt("rollback", s, n) EXCEPT !.rest = Above(n)]

\* The state is still where pushState() put it.
InPlace(f) == f.at < Len(stack) /\ stack[f.at + 1] = f.state

\* Mutant: the rollback splices one state too few.
EnterThrowsKeepsOne ==
  /\ In("onEnter")
  /\ ThrowsAfterMove \/ InPlace(Top)
  /\ stack' = Below(Top.at + 1)
  /\ Become(Rollback(Top.state, Top.at))
  /\ UNCHANGED <<lifecycle, components, runners, phase>>

\* onEnter throws: whatever stands at or above its index is spliced off the stack.
EnterThrows ==
  /\ In("onEnter")
  /\ ThrowsAfterMove \/ InPlace(Top)
  /\ stack' = Below(Top.at)
  /\ Become(Rollback(Top.state, Top.at))
  /\ UNCHANGED <<lifecycle, components, runners, phase>>

\* removeState(s): the user's onExit is called.
RemoveState(s) ==
  /\ phase' = [phase EXCEPT ![s] = "leaving"]
  /\ Enter(Call("onExit", s))

\* The spliced states are removed from the top down to the second one.
RollbackNext ==
  /\ In("rollback")
  /\ Len(Top.rest) > 1
  /\ phase' = [phase EXCEPT ![Last(Top.rest)] = "leaving"]
  /\ BecomeThenEnter([Top EXCEPT !.rest = Front(@)], Call("onExit", Last(Top.rest)))
  /\ UNCHANGED <<lifecycle, stack, components, runners>>

\* The components map of s is emptied before the components are detached.
Clean(s) ==
  /\ components' = components \ {s}
  /\ phase' = [phase EXCEPT ![s] = "cleaning"]

\* Mutant: the loop over the spliced states ends one state early.
RollbackSelfEarly ==
  /\ In("rollback")
  /\ Len(Top.rest) <= 2
  /\ Clean(Top.state)
  /\ BecomeThenEnter(Call("failed", Top.state), Call("onDetach", Top.state))
  /\ UNCHANGED <<lifecycle, stack, runners>>

\* cleanup(false): _onEnterFailed() releases the resources without onExit.
RollbackSelf ==
  /\ In("rollback")
  /\ Len(Top.rest) <= 1
  /\ Clean(Top.state)
  /\ BecomeThenEnter(Call("failed", Top.state), Call("onDetach", Top.state))
  /\ UNCHANGED <<lifecycle, stack, runners>>

\* The rollback is over: the error reaches pushState()'s caller.
RollbackDone ==
  /\ In("failed")
  /\ Leave(TRUE)
  /\ UNCHANGED <<lifecycle, stack, components, runners, phase>>

-----------------------------------------------------------------------------
(* GameState.cleanup *)

\* onExit returns or throws; the cleanup goes on either way.
ExitEnds(threw) ==
  /\ In("onExit")
  /\ Clean(Top.state)
  /\ Become([Call("onDetach", Top.state) EXCEPT !.failed = threw])
  /\ UNCHANGED <<lifecycle, stack, runners>>

\* Every component is detached, failing or not; then the runners are cancelled.
DetachEnds(threw) ==
  /\ In("onDetach")
  /\ runners' = runners \ {Top.state}
  /\ phase' = [phase EXCEPT ![Top.state] = "gone"]
  /\ Leave(threw \/ Top.failed)
  /\ UNCHANGED <<lifecycle, stack, components>>

-----------------------------------------------------------------------------
(* Removing and replacing *)

\* popState(): there is no check of the lifecycle.
PopState ==
  /\ MayCall
  /\ stack # <<>>
  /\ stack' = Front(stack)
  /\ RemoveState(Last(stack))
  /\ UNCHANGED <<lifecycle, components, runners>>

\* deleteState(type): the first state of the type, wherever it is on the stack.
DeleteState(s) ==
  /\ MayCall
  /\ OnStack(s)
  /\ stack' = RemoveAt(stack, HeightOf(s))
  /\ RemoveState(s)
  /\ UNCHANGED <<lifecycle, components, runners>>

ResetState(s) ==
  /\ MayCall
  /\ IsActive
  /\ Unborn(s)
  /\ Enter(CallAt("reset", s, 0))
  /\ UNCHANGED <<lifecycle, stack, components, runners, phase>>

\* transitionTo() of state t; an unknown state is an error and changes nothing.
ReplaceFrom(t, s) ==
  /\ MayCall
  /\ IsActive
  /\ Unborn(s)
  /\ OnStack(t)
  /\ Enter(CallAt("replace", s, HeightOf(t) - 1))
  /\ UNCHANGED <<lifecycle, stack, components, runners, phase>>

Clearing == Running /\ Top.op \in {"dispose", "reset", "replace"}

\* Mutant: the loop removes the states without taking them off the stack first.
ClearNextInPlace ==
  /\ Clearing
  /\ Len(stack) > Top.at
  /\ stack' = stack
  /\ RemoveState(Last(stack))
  /\ UNCHANGED <<lifecycle, components, runners>>

\* One round of the clearing loop, which looks at the stack anew each time.
ClearNext ==
  /\ Clearing
  /\ Len(stack) > Top.at
  /\ stack' = Front(stack)
  /\ RemoveState(Last(stack))
  /\ UNCHANGED <<lifecycle, components, runners>>

\* All clear: the new state is pushed, if the game is still active.
ClearedThenPush ==
  /\ Running /\ Top.op \in {"reset", "replace"}
  /\ Len(stack) <= Top.at
  /\ ~Top.failed /\ IsActive /\ Unborn(Top.state)
  /\ Push(Top.state)
  /\ Become(CallAt("onEnter", Top.state, Len(stack)))
  /\ UNCHANGED <<lifecycle, components, runners>>

\* A cleanup error aborts the transition; a stopped game ignores the push.  (A
\* model instance may also have been pushed by a nested call: the code would
\* construct another one of the same type.)
ClearedOnly ==
  /\ Running /\ Top.op \in {"reset", "replace"}
  /\ Len(stack) <= Top.at
  /\ ~(~Top.failed /\ IsActive /\ Unborn(Top.state))
  /\ Leave(Top.failed)
  /\ UNCHANGED <<lifecycle, stack, components, runners, phase>>

-----------------------------------------------------------------------------
(* Components and runners *)

Acquires(s) ==
  phase[s] # "unborn" /\ (~AcquiresAfterExit => phase[s] \notin {"cleaning", "gone"})

\* addComponent(): the component enters the map only when onAttach has returned.
AddComponent(s) ==
  /\ MayCall
  /\ IsActive
  /\ Acquires(s)
  /\ Enter(Call("onAttach", s))
  /\ UNCHANGED <<lifecycle, stack, components, runners, phase>>

AttachReturns ==
  /\ In("onAttach")
  /\ Acquires(Top.state)
  /\ components' = components \union {Top.state}
  /\ Leave(FALSE)
  /\ UNCHANGED <<lifecycle, stack, runners, phase>>

\* The failing component detaches itself and never gets into the map.
AttachThrows ==
  /\ In("onAttach")
  /\ Leave(TRUE)
  /\ UNCHANGED <<lifecycle, stack, components, runners, phase>>

\* deleteComponent() of the last component of s.
DeleteComponent(s) ==
  /\ MayCall
  /\ s \in components
  /\ components' = components \ {s}
  /\ Enter(Call("deleted", s))
  /\ UNCHANGED <<lifecycle, stack, runners, phase>>

DeletedEnds ==
  /\ In("deleted")
  /\ Leave(FALSE)
  /\ UNCHANGED <<lifecycle, stack, components, runners, phase>>

\* runner.run(): RunnerManager accepts work at any time.
RunScript(s) ==
  /\ MayCall
  /\ Acquires(s)
  /\ s \notin runners
  /\ runners' = runners \union {s}
  /\ UNCHANGED <<lifecycle, stack, components, calls, phase>>

\* The last script of s ends.
ScriptEnds(s) ==
  /\ calls = <<>>
  /\ s \in runners
  /\ runners' = runners \ {s}
  /\ UNCHANGED <<lifecycle, stack, components, calls, phase>>

-----------------------------------------------------------------------------
(* Start, stop and dispose *)

Start ==
  /\ calls = <<>>
  /\ lifecycle = "created"
  /\ lifecycle' = "starting"
  /\ Enter(Call("onStart", NoState))
  /\ UNCHANGED <<stack, components, runners, phase>>

\* Mutant: _onStart() sets "running" without looking.
StartReturnsUnchecked ==
  /\ In("onStart")
  /\ lifecycle' = "running"
  /\ Leave(FALSE)
  /\ UNCHANGED <<stack, components, runners, phase>>

\* A game stopped by its own onStart does not come back to life.
StartReturns ==
  /\ In("onStart")
  /\ lifecycle' = IF lifecycle = "starting" THEN "running" ELSE lifecycle
  /\ Leave(FALSE)
  /\ UNCHANGED <<stack, components, runners, phase>>

\* The loop of _onDispose().
Disposing == CallAt("dispose", NoState, 0)

\* onStart or onStop is over and _onDispose() follows, unless it was already done.
ThenDispose ==
  IF lifecycle = "disposed"
  THEN Leave(FALSE) /\ UNCHANGED lifecycle
  ELSE lifecycle' = "stopping" /\ Become(Disposing)

StartThrows ==
  /\ In("onStart")
  /\ ThenDispose
  /\ UNCHANGED <<stack, components, runners, phase>>

\* The game is in GameManager.games.
Registered == lifecycle \in {"starting", "running", "stopping"}

\* stopGameByKey(): onStop runs once, a repeated stop goes straight to _onDispose().
Stop ==
  /\ MayCall
  /\ Registered
  /\ IF lifecycle = "stopping"
     THEN Enter(Disposing)
     ELSE Enter(Call("onStop", NoState))
  /\ lifecycle' = "stopping"
  /\ UNCHANGED <<stack, components, runners, phase>>

\* Mutant: an error in onStop skips _onDispose().
StopEndsEarly(threw) ==
  /\ In("onStop")
  /\ IF threw THEN Leave(TRUE) /\ UNCHANGED lifecycle ELSE ThenDispose
  /\ UNCHANGED <<stack, components, runners, phase>>

\* onStop returns or throws: the game is disposed of either way.
StopEnds(threw) ==
  /\ In("onStop")
  /\ ThenDispose
  /\ UNCHANGED <<stack, components, runners, phase>>

\* disposeAll(): silent, without onStop.
DisposeAll ==
  /\ MayCall
  /\ Registered
  /\ lifecycle' = "stopping"
  /\ Enter(Disposing)
  /\ UNCHANGED <<stack, components, runners, phase>>

DisposeEnds ==
  /\ In("dispose")
  /\ stack = <<>>
  /\ lifecycle' = "disposed"
  /\ Leave(FALSE)
  /\ UNCHANGED <<stack, components, runners, phase>>

-----------------------------------------------------------------------------
Init ==
  /\ lifecycle = "created"
  /\ stack = <<>>
  /\ components = {}
  /\ runners = {}
  /\ calls = <<>>
  /\ phase = [s \in States |-> "unborn"]

\* The engine's own steps.
EngineStep ==
  \/ RollbackNext \/ RollbackSelf \/ RollbackDone
  \/ ClearNext \/ ClearedThenPush \/ ClearedOnly
  \/ DisposeEnds

\* The game code of the running frame comes to its end.
HookEnds ==
  \/ EnterReturns \/ EnterThrows
  \/ \E threw \in BOOLEAN : ExitEnds(threw)
  \/ \E threw \in BOOLEAN : DetachEnds(threw)
  \/ AttachReturns \/ AttachThrows \/ DeletedEnds
  \/ StartReturns \/ StartThrows
  \/ \E threw \in BOOLEAN : StopEnds(threw)

\* Game code calls the engine.
UserCall ==
  \/ \E s \in States : PushState(s)
  \/ PopState
  \/ \E s \in States : DeleteState(s)
  \/ \E s \in States : ResetState(s)
  \/ \E t, s \in States : ReplaceFrom(t, s)
  \/ \E s \in States : AddComponent(s)
  \/ \E s \in States : DeleteComponent(s)
  \/ \E s \in States : RunScript(s)
  \/ Stop
  \/ DisposeAll

Next == Start \/ UserCall \/ HookEnds \/ EngineStep \/ \E s \in States : ScriptEnds(s)

Spec == Init /\ [][Next]_vars

\* The engine runs on, and no hook runs forever: the code on top of the call stack
\* at depth d, running again and again, comes to its end.
Fairness ==
  /\ WF_vars(EngineStep)
  /\ \A d \in 1..(MaxDepth + 2) : SF_vars(HookEnds /\ Len(calls) = d)

FairSpec == Spec /\ Fairness

-----------------------------------------------------------------------------
Distinct(q) == \A i, j \in 1..Len(q) : q[i] = q[j] => i = j

\* Types of the variables.
TypeOK ==
  /\ lifecycle \in {"created", "starting", "running", "stopping", "disposed"}
  /\ stack \in Seq(States)
  /\ components \subseteq States
  /\ runners \subseteq States
  /\ calls \in Seq(Frame)
  /\ phase \in [States -> Phases]

Live == {"entering", "entered"}

\* getState, replaceFrom and deleteState search the stack: a state that was exited
\* or rolled back is never found on it, and none is on it twice.
StackIsLive ==
  /\ \A i \in 1..Len(stack) : phase[stack[i]] \in Live
  /\ Distinct(stack)

\* A disposed game has no state left, and nobody can push one any more.
DisposedIsEmpty == lifecycle = "disposed" => stack = <<>>

\* The stack is fit for use at every point where a hook may look at it or call the engine:
\* only live states, none twice, and none at all in a disposed game.
StackIsSound == TypeOK /\ StackIsLive /\ DisposedIsEmpty

\* A state a rollback under way still has to clean up.
BeingRolledBack(s) ==
  \E i \in 1..Len(calls) :
    /\ calls[i].op = "rollback"
    /\ \/ s = calls[i].state
       \/ \E j \in 2..Len(calls[i].rest) : s = calls[i].rest[j]

\* docs/architecture.md:24, "The framework rolls back resources and child states
\* created during the failed entry": a state that was entered stays on the stack
\* until it is removed, or is about to be cleaned up by a rollback.
NothingOrphaned ==
  \A s \in States : phase[s] \in Live => OnStack(s) \/ BeingRolledBack(s)

\* docs/architecture.md:22: after its exit a state holds neither a component nor a runner.
ExitReleases == \A s \in States : phase[s] = "gone" => s \notin components \union runners

\* Nothing a game state holds is lost, neither the state nor what it acquired.
NothingLeaks == NothingOrphaned /\ ExitReleases

Lifecycle == INSTANCE GameLifecycle WITH lifecycle <- lifecycle

\* GameLifecycleState only moves forward: whatever hooks call, throw or repeat, a game
\* session goes through its phases in order, and a stopped game never becomes active again.
ImplementsLifecycle == Lifecycle!Spec

ExitsOf(cs, s) == {i \in 1..Len(cs) : cs[i].op = "onExit" /\ cs[i].state = s}

\* The user's onExit of a state is called at most once, and only after the state was
\* entered or began to be: repeated pops, nested stops and rollbacks included.  Every new
\* call, even one made while another onExit is running, takes a live state that is live no
\* more, and never again.
ExitCalledOnce ==
  [][\A s \in States :
       /\ \/ ExitsOf(calls', s) \subseteq ExitsOf(calls, s)
          \/ phase[s] \in Live /\ phase'[s] \notin Live
       /\ phase[s] \notin Live \union {"unborn"} => phase'[s] \notin Live]_<<calls, phase>>

\* Whatever the hooks do or throw, a stopping game gets disposed.
StopDisposes == (lifecycle = "stopping") ~> (lifecycle = "disposed")

=============================================================================
