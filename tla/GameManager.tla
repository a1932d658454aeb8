----------------------------- MODULE GameManager -----------------------------
(***************************************************************************)
(* GameManager (system/gameManager.ts): the registry of running games, with *)
(* the participation and the trace session each game owns under its key.    *)
(*                                                                          *)
(* A key (gameType:tag) is used again by later games, so what the manager   *)
(* does by key at the end of an operation may hit another game than the one *)
(* the operation began with.  It can, because onStart, onStop and the state *)
(* exits of a disposal are game code that may call the manager: `calls` is  *)
(* the call stack.  A frame of stopAll() or disposeAll() holds the snapshot *)
(* of the registry it works through.                                        *)
(*                                                                          *)
(* What happens inside one game is GameEngine's business: here its states   *)
(* are the hooks that run while it starts, stops or is disposed of.  Game   *)
(* constructors do not call the manager, and nobody joins a disposed game.  *)
(***************************************************************************)
EXTENDS Naturals, FiniteSets, Sequences, SequencesExt

CONSTANTS
  Keys,
  Daemons,    \* the keys of daemon games
  Instances,  \* game instances; each is constructed at most once
  None,
  MaxDepth    \* bound: operations on the call stack

GameManagerAssumption ==
  /\ Daemons \subseteq Keys
  /\ None \notin Instances \union Keys
  /\ MaxDepth \in Nat

VARIABLES
  games,      \* GameManager.games
  lifecycle,  \* GameEngine.lifecycle of each instance
  key,        \* GameEngine.key of each instance
  members,    \* the instances that players have joined, and not left since
  sessions,   \* TraceManager.sessions, by the instance a session was begun for
  calls,      \* operations under way, the innermost last
  overtaken   \* history: keys that a game was started under while one of them was ending

vars == <<games, lifecycle, key, members, sessions, calls, overtaken>>

\* onStart, onStop, exits (the disposal of a game): a game's code is running;
\* stopAll, disposeAll: the manager is between two games.
Ops == {"onStart", "onStop", "exits", "stopAll", "disposeAll"}

Frame ==
  [op   : Ops,
   game : Instances \union {None},
   todo : SUBSET (Keys \X Instances)]  \* stopAll, disposeAll: entries still to do

Call(op, i) == [op |-> op, game |-> i, todo |-> {}]

Top == Last(calls)

In(op) == calls # <<>> /\ Top.op = op

\* Game code is running.
MayCall ==
  /\ calls # <<>> => Top.op \in {"onStart", "onStop", "exits"}
  /\ Len(calls) < MaxDepth

Enter(f) == calls' = Append(calls, f)

Become(f) == calls' = [calls EXCEPT ![Len(calls)] = f]

Registered(k) == games[k] # None

\* Some operation under way has not finished with key k.
Ending(k) ==
  \E n \in 1..Len(calls) :
    \/ calls[n].op \in {"onStop", "exits"} /\ key[calls[n].game] = k
    \/ calls[n].op = "onStart" /\ key[calls[n].game] = k /\ ~Registered(k)
    \/ calls[n].op = "disposeAll" /\ \E e \in calls[n].todo : e[1] = k

-----------------------------------------------------------------------------
(* Starting *)

\* Mutant: a game of the same key is not looked for.
StartGameOverwrites(k, i) ==
  /\ MayCall
  /\ lifecycle[i] = "created" /\ key[i] = None
  /\ sessions' = [sessions EXCEPT ![k] = i]
  /\ games' = [games EXCEPT ![k] = i]
  /\ key' = [key EXCEPT ![i] = k]
  /\ lifecycle' = [lifecycle EXCEPT ![i] = "starting"]
  /\ Enter(Call("onStart", i))
  /\ overtaken' = IF Ending(k) /\ ~Registered(k) THEN overtaken \union {k} ELSE overtaken
  /\ UNCHANGED members

\* startGame(): the game is registered before its onStart runs.  (A constructor that
\* throws takes the session back: nothing has changed.)
StartGame(k, i) ==
  /\ MayCall
  /\ ~Registered(k)
  /\ lifecycle[i] = "created" /\ key[i] = None
  /\ sessions' = [sessions EXCEPT ![k] = IF @ = None THEN i ELSE @]
  /\ games' = [games EXCEPT ![k] = i]
  /\ key' = [key EXCEPT ![i] = k]
  /\ lifecycle' = [lifecycle EXCEPT ![i] = "starting"]
  /\ Enter(Call("onStart", i))
  /\ overtaken' = IF Ending(k) THEN overtaken \union {k} ELSE overtaken
  /\ UNCHANGED members

StartReturns ==
  /\ In("onStart")
  /\ lifecycle' = [lifecycle EXCEPT ![Top.game] = IF @ = "starting" THEN "running" ELSE @]
  /\ calls' = Front(calls)
  /\ UNCHANGED <<games, key, members, sessions, overtaken>>

-----------------------------------------------------------------------------
(* Players *)

Alive(i) == lifecycle[i] \in {"starting", "running", "stopping"}

\* A player joins game i, even one that is stopping; a daemon's participation is not tracked.
\* (The code does not ask for the lifecycle at all: nobody is taken to join a game that is
\* disposed of, where no game would ever release him.)
Join(i) ==
  /\ MayCall
  /\ Alive(i) /\ key[i] \notin Daemons
  /\ members' = members \union {i}
  /\ UNCHANGED <<games, lifecycle, key, sessions, calls, overtaken>>

\* The last of them leaves.
Leave(i) ==
  /\ MayCall
  /\ i \in members
  /\ members' = members \ {i}
  /\ UNCHANGED <<games, lifecycle, key, sessions, calls, overtaken>>

-----------------------------------------------------------------------------
(* Stopping *)

\* The entry of the key is removed if it is still this game's.
Unregister(i) == games' = [games EXCEPT ![key[i]] = IF @ = i THEN None ELSE @]

\* endSession(): whatever session the key has now.
EndSession(k) == sessions' = [sessions EXCEPT ![k] = None]

\* playerManager.dispose(): the memberships of the key are cleared.
ReleasePlayers(i) == members' = {j \in members : key[j] # key[i]}

\* The end of stopGameByKey() and of a failed startGame().
Finish(i) == Unregister(i) /\ EndSession(key[i])

\* _onStop() and _onDispose() up to the first hook they call; nothing is left to do
\* for a game that is disposed of already.
ThenDispose(i) ==
  IF lifecycle[i] = "disposed"
  THEN /\ Finish(i)
       /\ calls' = Front(calls)
       /\ UNCHANGED <<lifecycle, key, members, overtaken>>
  ELSE /\ lifecycle' = [lifecycle EXCEPT ![i] = "stopping"]
       /\ Become(Call("exits", i))
       /\ UNCHANGED <<games, key, members, sessions, overtaken>>

StartThrows ==
  /\ In("onStart")
  /\ ThenDispose(Top.game)

\* The game whose stop begins: onStop is called once, a game that is stopping
\* already is disposed of at once.
BeginStop(i) ==
  /\ lifecycle' = [lifecycle EXCEPT ![i] = "stopping"]
  /\ Enter(Call(IF lifecycle[i] = "stopping" THEN "exits" ELSE "onStop", i))

StopGameByKey(k) ==
  /\ MayCall
  /\ Registered(k)
  /\ BeginStop(games[k])
  /\ UNCHANGED <<games, key, members, sessions, overtaken>>

\* onStop returns or throws.
StopEnds ==
  /\ In("onStop")
  /\ ThenDispose(Top.game)

\* The states are gone: the players are released and the game is disposed of.
ExitsEnd ==
  LET i == Top.game
      below == Front(calls) IN
  /\ In("exits")
  /\ lifecycle' = [lifecycle EXCEPT ![i] = "disposed"]
  /\ ReleasePlayers(i)
  /\ EndSession(key[i])
  /\ IF below # <<>> /\ Last(below).op = "disposeAll"
     THEN games' = [games EXCEPT ![key[i]] = None]
     ELSE Unregister(i)
  /\ calls' = below
  /\ UNCHANGED <<key, overtaken>>

-----------------------------------------------------------------------------
(* Stopping or disposing of all games *)

Entries(ks) == {<<k, games[k]>> : k \in {q \in ks : Registered(q)}}

\* stopAll(): daemons go on.
StopAll ==
  /\ MayCall
  /\ Enter([Call("stopAll", None) EXCEPT !.todo = Entries(Keys \ Daemons)])
  /\ UNCHANGED <<games, lifecycle, key, members, sessions, overtaken>>

\* disposeAll(), with or without the daemons.
DisposeAll(ks) ==
  /\ MayCall
  /\ Enter([Call("disposeAll", None) EXCEPT !.todo = Entries(ks)])
  /\ UNCHANGED <<games, lifecycle, key, members, sessions, overtaken>>

Drop(e) == [calls EXCEPT ![Len(calls)].todo = @ \ {e}]

\* The next entry of the snapshot; stopGameByKey() looks its key up again.
StopNext(e) ==
  LET i == games[e[1]] IN
  /\ In("stopAll")
  /\ e \in Top.todo
  /\ IF i = None
     THEN /\ calls' = Drop(e)
          /\ UNCHANGED lifecycle
     ELSE /\ lifecycle' = [lifecycle EXCEPT ![i] = "stopping"]
          /\ calls' = Append(Drop(e),
                             Call(IF lifecycle[i] = "stopping" THEN "exits" ELSE "onStop", i))
  /\ UNCHANGED <<games, key, members, sessions, overtaken>>

\* disposeAll() takes the game from its snapshot, and the key it had there.
DisposeNext(e) ==
  /\ In("disposeAll")
  /\ e \in Top.todo
  /\ IF lifecycle[e[2]] = "disposed"
     THEN /\ calls' = Drop(e)
          /\ games' = [games EXCEPT ![e[1]] = None]
          /\ EndSession(e[1])
          /\ UNCHANGED lifecycle
     ELSE /\ calls' = Append(Drop(e), Call("exits", e[2]))
          /\ lifecycle' = [lifecycle EXCEPT ![e[2]] = "stopping"]
          /\ UNCHANGED <<games, sessions>>
  /\ UNCHANGED <<key, members, overtaken>>

AllDone ==
  /\ In("stopAll") \/ In("disposeAll")
  /\ Top.todo = {}
  /\ calls' = Front(calls)
  /\ UNCHANGED <<games, lifecycle, key, members, sessions, overtaken>>

-----------------------------------------------------------------------------
Init ==
  /\ games = [k \in Keys |-> None]
  /\ lifecycle = [i \in Instances |-> "created"]
  /\ key = [i \in Instances |-> None]
  /\ members = {}
  /\ sessions = [k \in Keys |-> None]
  /\ calls = <<>>
  /\ overtaken = {}

HookEnds == StartReturns \/ StartThrows \/ StopEnds \/ ExitsEnd

ManagerStep ==
  \/ \E e \in Keys \X Instances : StopNext(e)
  \/ \E e \in Keys \X Instances : DisposeNext(e)
  \/ AllDone

Next ==
  \/ \E k \in Keys, i \in Instances : StartGame(k, i)
  \/ \E i \in Instances : Join(i)
  \/ \E i \in Instances : Leave(i)
  \/ \E k \in Keys : StopGameByKey(k)
  \/ StopAll
  \/ \E ks \in {Keys, Keys \ Daemons} : DisposeAll(ks)
  \/ HookEnds
  \/ ManagerStep

Spec == Init /\ [][Next]_vars

-----------------------------------------------------------------------------
\* Types of the variables.
TypeOK ==
  /\ games \in [Keys -> Instances \union {None}]
  /\ lifecycle \in [Instances -> {"created", "starting", "running", "stopping", "disposed"}]
  /\ key \in [Instances -> Keys \union {None}]
  /\ members \subseteq Instances
  /\ sessions \in [Keys -> Instances \union {None}]
  /\ calls \in Seq(Frame)
  /\ overtaken \subseteq Keys

\* docs/architecture.md:9: the manager identifies and stops game instances.  A live game
\* is found under its key, so it can be stopped, and no other game lives under that key;
\* but for keys that were started again before their last game had ended.
LiveIsRegistered ==
  \A i \in Instances : Alive(i) /\ key[i] \notin overtaken => games[key[i]] = i

\* The session of a key is its game's, but for the keys of which that is not asked above.
SessionPerGame == \A k \in Keys \ overtaken : sessions[k] = games[k]

\* docs/game-trace.md:5, "One GameEngine instance owns one TraceSession from
\* construction/start through stop/dispose": of every key, whoever starts it when.
OneGameOneSession == sessions = games

\* Nobody is left in a game that is gone, where no game could ever release him.
MembersAreLive == \A i \in members : Alive(i)

\* The registry, the trace sessions and the memberships speak of the same live game.
KeysAgree == TypeOK /\ LiveIsRegistered /\ SessionPerGame /\ MembersAreLive

\* No game is stuck half way: one that is starting or stopping has its operation on the
\* call stack.  (Its key would be taken for good: startGame() refuses it.)
NoneStuck ==
  \A i \in Instances :
    lifecycle[i] \in {"starting", "stopping"} => \E n \in 1..Len(calls) : calls[n].game = i

=============================================================================
