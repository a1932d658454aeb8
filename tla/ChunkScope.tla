------------------------------ MODULE ChunkScope ------------------------------
(***************************************************************************)
(* A component that has other components while a chunk is loaded            *)
(* (core/gameComponent/common/chunkScope.ts).  onLoad adds them through the *)
(* scope; they go when the chunk does, when the scope is reloaded or         *)
(* detached, and when onLoad fails.                                          *)
(*                                                                           *)
(* A component of the state is known by its type and tag, so whoever adds    *)
(* one first has the key, and whoever deletes by key deletes what is there.  *)
(* onLoad and onUnload are the game's: they may call the scope back.         *)
(***************************************************************************)
EXTENDS Naturals, Sequences, SequencesExt

CONSTANTS
  Keys,      \* type and tag
  MaxDepth,  \* bound: callbacks of the scope that are under way
  Careful    \* the game deletes nothing of the scope's, nor reloads or detaches
             \* it where the scope is being left or loaded (see the README)

ScopeAssumption == MaxDepth \in Nat \ {0} /\ Careful \in BOOLEAN

VARIABLES
  attached,    \* the scope is
  active,      \* `active`
  components,  \* `components`: the keys the scope has registered, in order
  present,     \* for each key, whose component the state has: "none", "scope" or "game"
  chunk,       \* is loaded
  callbacks    \* under way: "load", or [of onUnload] what comes after it

vars == <<attached, active, components, present, chunk, callbacks>>

-----------------------------------------------------------------------------
Top == Last(callbacks)
Idle == callbacks = <<>>
Calls(f) == Len(callbacks) < MaxDepth /\ callbacks' = Append(callbacks, f)

\* clearComponents(): what is registered is deleted, even if a component fails to detach.
Clear ==
  /\ present' = [k \in Keys |-> IF Contains(components, k) THEN "none" ELSE present[k]]
  /\ components' = <<>>

\* deactivate(); onUnload runs if the scope was active, and `next` comes after it.
Deactivate(next) ==
  /\ active' = FALSE
  /\ Clear
  /\ IF active THEN Calls(next)
     ELSE callbacks' = IF next = "load" THEN Append(callbacks, "load") ELSE callbacks

\* syncLoadedState(), of the interval.
Sync ==
  /\ Idle /\ attached
  /\ \/ /\ chunk /\ ~active
        /\ Calls("load") /\ UNCHANGED <<active, components, present>>
     \/ /\ ~chunk /\ active
        /\ Deactivate("rest")
  /\ UNCHANGED <<attached, chunk>>

\* addComponent(), in onLoad; it throws if the key is taken, or its component does not attach.
Add(k) ==
  /\ ~Idle /\ Top = "load"
  /\ present[k] = "none"
  /\ present' = [present EXCEPT ![k] = "scope"]
  /\ components' = Append(components, k)
  /\ UNCHANGED <<attached, active, chunk, callbacks>>

LoadReturns ==
  /\ ~Idle /\ Top = "load"
  /\ active' = TRUE
  /\ callbacks' = Front(callbacks)
  /\ UNCHANGED <<attached, components, present, chunk>>

\* Rolled back; reload() throws on, the interval logs.
LoadThrows ==
  /\ ~Idle /\ Top = "load"
  /\ Clear
  /\ active' = FALSE
  /\ callbacks' = Front(callbacks)
  /\ UNCHANGED <<attached, chunk>>

\* reload() activates after onUnload, unless that or a component has thrown; activate()
\* does nothing if onUnload has reloaded the scope already.
UnloadEnds ==
  /\ ~Idle /\ Top # "load"
  /\ \/ callbacks' = Front(callbacks)
     \/ /\ Top = "reload" /\ ~active
        /\ callbacks' = Append(Front(callbacks), "load")
  /\ UNCHANGED <<attached, active, components, present, chunk>>

\* reload(), which does not ask whether the scope is attached.
Reload ==
  /\ Careful => attached /\ (~Idle => Top = "load")
  /\ Len(callbacks) < MaxDepth
  /\ IF active THEN Deactivate("reload") ELSE Deactivate("load")
  /\ UNCHANGED <<attached, chunk>>

Detach ==
  /\ attached
  /\ Careful => Idle
  /\ Deactivate("rest")
  /\ attached' = FALSE
  /\ UNCHANGED chunk

-----------------------------------------------------------------------------
(* The game and the world *)

Attach ==
  /\ Idle /\ ~attached
  /\ attached' = TRUE
  /\ UNCHANGED <<active, components, present, chunk, callbacks>>

GameAdds(k) ==
  /\ present[k] = "none"
  /\ present' = [present EXCEPT ![k] = "game"]
  /\ UNCHANGED <<attached, active, components, chunk, callbacks>>

GameDeletes(k) ==
  /\ present[k] # "none"
  /\ Careful => present[k] = "game"
  /\ present' = [present EXCEPT ![k] = "none"]
  /\ UNCHANGED <<attached, active, components, chunk, callbacks>>

ChunkChanges ==
  /\ Idle
  /\ chunk' = ~chunk
  /\ UNCHANGED <<attached, active, components, present, callbacks>>

-----------------------------------------------------------------------------
Init ==
  /\ attached = TRUE /\ active = FALSE /\ components = <<>>
  /\ present = [k \in Keys |-> "none"]
  /\ chunk = FALSE /\ callbacks = <<>>

Next ==
  \/ Sync \/ LoadReturns \/ LoadThrows \/ UnloadEnds \/ Reload \/ Detach \/ Attach \/ ChunkChanges
  \/ \E k \in Keys : Add(k) \/ GameAdds(k) \/ GameDeletes(k)

Spec == Init /\ [][Next]_vars

-----------------------------------------------------------------------------
\* Between two callbacks the scope has registered what is there of its own and nothing
\* else, each once, so that it never deletes a component of the game's, though both may want
\* the same keys; an inactive or detached scope has nothing.
ScopeHasItsOwn ==
  Idle =>
    /\ ToSet(components) = {k \in Keys : present[k] = "scope"} /\ IsInjective(components)
    /\ ~active => components = <<>>
    /\ active => attached
=============================================================================
