----------------------------- MODULE TraceContext -----------------------------
(***************************************************************************)
(* What the Observatory makes of a game session.  The engine reports what   *)
(* it does with its states as trace events (gameEngine.ts), and             *)
(* buildContext() of observatory/src/decode.mjs replays them: it keeps a     *)
(* stack of its own, hangs each state under the one on top, and files every *)
(* event that names no state under the top.                                 *)
(*                                                                          *)
(* The reader sees nothing but the events, in order, so here it reads each  *)
(* as it is emitted.                                                         *)
(***************************************************************************)
EXTENDS GameEngine

VARIABLE
  context  \* of buildContext(): its stack, and what the node of each state has noted

readVars == <<vars, context>>

-----------------------------------------------------------------------------
(* What a step of the engine emits. *)

Event(type, s) == [type |-> type, state |-> s]

Pushed  == {s \in States : phase[s] = "unborn" /\ phase'[s] # "unborn"}
Exited  == {s \in States : phase[s] # "leaving" /\ phase'[s] = "leaving"}
Cleaned == {s \in States : phase[s] = "cleaning" /\ phase'[s] = "gone"}
Entered == In("onEnter") /\ Len(calls') < Len(calls)
Threw   == In("onEnter") /\ Len(calls') = Len(calls) /\ Last(calls').op = "rollback"

\* removeState() is what cleans up, not the rollback of a state that failed to enter.
ByRemoval == Len(calls) > 1 => calls[Len(calls) - 1].op # "failed"

\* Mutant: a failing onExit is not reported.
RemovedIfClean == {s \in Cleaned : ByRemoval /\ ~Top.failed}

Removed == {s \in Cleaned : ByRemoval}

\* One event at most.
Emitted ==
  {Event("state.push", s) : s \in Pushed}
    \union {Event("state.exit", s) : s \in Exited}
    \union {Event("state.remove", s) : s \in Removed}
    \union (IF Entered THEN {Event("state.enter", Top.state)} ELSE {})
    \union (IF Threw THEN {Event("state.enter_failed", Top.state)} ELSE {})

-----------------------------------------------------------------------------
(* buildContext() *)

Note(c, s, notes) == [c EXCEPT !.nodes[s] = @ \union notes]

\* topKey(): where an event is filed that is not a state's own.
TopKey(c) == IF c.stack = <<>> THEN NoState ELSE Last(c.stack)

\* state.push makes the node, which is drawn under the one on top.
ReadPush(c, s) ==
  [stack |-> Append(c.stack, s), nodes |-> [c.nodes EXCEPT ![s] = {"push"}]]

\* state.remove takes the state out of the stack wherever it is.
ReadRemove(c, s) == Note([c EXCEPT !.stack = RemoveFirst(@, s)], s, {"exit", "remove"})

\* Any other event of a state, a failure among them, is noted at its node.
ReadOther(c, type, s) ==
  Note(c, s, CASE type = "state.enter" -> {"enter"}
               [] type = "state.exit"  -> {"exit"}
               [] OTHER                -> {"error"})

Read(c, e) ==
  CASE e.type = "state.push"   -> ReadPush(c, e.state)
    [] e.type = "state.remove" -> ReadRemove(c, e.state)
    [] OTHER                   -> ReadOther(c, e.type, e.state)

Reads ==
  IF Emitted = {} THEN UNCHANGED context ELSE \E e \in Emitted : context' = Read(context, e)

-----------------------------------------------------------------------------
ReadInit ==
  /\ Init
  /\ context = [stack |-> <<>>, nodes |-> [s \in States |-> {}]]

ReadSpec == ReadInit /\ [][Next /\ Reads]_readVars

Failed(s) == "error" \in context.nodes[s]

\* The elements of a stack that are not to be dropped.
Without(q, drop) ==
  LET left[n \in 0..Len(q)] ==
        IF n = 0 THEN <<>> ELSE IF q[n] \in drop THEN left[n - 1] ELSE Append(left[n - 1], q[n])
  IN left[Len(q)]

\* Between two calls of the game the reader has the stack of the engine, but for the states
\* that have failed to enter: none is missing, and none that was left lingers.
ReaderFollows ==
  calls = <<>> =>
    /\ Without(context.stack, {s \in States : Failed(s)}) = stack
    /\ \A s \in States : phase[s] = "gone" => "remove" \in context.nodes[s] \/ Failed(s)

\* decode.mjs:141, "Groups events by their owning state instance": what happens between two
\* calls of the game is filed under the state on top of its stack.
OwnerIsTheTop ==
  calls = <<>> => TopKey(context) = (IF stack = <<>> THEN NoState ELSE Last(stack))
=============================================================================
