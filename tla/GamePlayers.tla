----------------------------- MODULE GamePlayers -----------------------------
(***************************************************************************)
(* The GamePlayer wrappers of one game (gamePlayer/playerManager.ts) over   *)
(* the game's participation (participation/gameParticipation.ts).           *)
(*                                                                          *)
(* A member of the game may have a wrapper; the wrapper is active while the *)
(* player belongs to the game.  Membership changes are announced to the     *)
(* manager's own subscription, which comes first, and then to the game's    *)
(* listeners, and a listener may call the manager back before the operation *)
(* that is being announced returns.  `calls` is the call stack of those     *)
(* operations and announcements.                                            *)
(*                                                                          *)
(* The membership relation is the one Participation implements (Membership) *)
(* restricted to one tracked game; a join refused by the policy changes     *)
(* nothing.  Wrapper constructors may throw but do not call the manager,    *)
(* and nothing calls the manager of a disposed game anew.                   *)
(***************************************************************************)
EXTENDS Naturals, FiniteSets, Sequences, SequencesExt

CONSTANTS
  Players,   \* stable player ids
  MaxDepth,  \* bound: operations on the call stack
  Careful    \* listeners keep off the players that an operation under way is about

GamePlayersAssumption == MaxDepth \in Nat /\ Careful \in BOOLEAN

VARIABLES
  members,   \* GameParticipation.getAll()
  wrappers,  \* GamePlayerManager.players: who has a wrapper
  active,    \* whose wrapper is active
  viewed,    \* history: whose wrapper was activated by view(), not by joining
  disposed,  \* dispose() was called
  calls      \* operations under way, the innermost last

vars == <<members, wrappers, active, viewed, disposed, calls>>

\* join, joinAll: waiting for participation to announce the new members;
\* rollback: a failed joinAll() taking the batch back; joined, left: an announcement.
Ops == {"join", "joinAll", "rollback", "joined", "left"}

Frame ==
  [op      : Ops,
   batch   : SUBSET Players,  \* whom the caller named
   todo    : SUBSET Players,  \* whom the operation still has to deal with
   listens : BOOLEAN]         \* announcement: a listener is running

Call(op, ps, new) == [op |-> op, batch |-> ps, todo |-> new, listens |-> FALSE]

Announcement(type, ps) == Call(type, ps, ps)

Top == Last(calls)

In(op) == calls # <<>> /\ Top.op = op

Announcing == calls # <<>> /\ Top.op \in {"joined", "left"}

\* Game code runs: from outside, or in a listener.
MayCall ==
  /\ ~disposed
  /\ calls # <<>> => Announcing /\ Top.listens
  /\ Len(calls) < MaxDepth

\* A join under way is going to wrap p.
Joining(p) ==
  \E i \in 1..Len(calls) : calls[i].op \in {"join", "joinAll"} /\ p \in calls[i].batch

\* An announcement or a rollback under way has yet to come to p.
Leaving(p) ==
  \E i \in 1..Len(calls) : calls[i].op = "left" /\ p \in calls[i].todo

RollingBack(p) ==
  \E i \in 1..Len(calls) : calls[i].op = "rollback" /\ p \in calls[i].todo

MayJoin(p) == Careful => ~Leaving(p) /\ ~RollingBack(p)

MayLeave(p) == Careful => ~Joining(p)

\* The wrapper of p is gone inactive, however it became active.
Deactivate(ps) ==
  /\ active' = active \ ps
  /\ viewed' = viewed \ ps

-----------------------------------------------------------------------------
(* Announcements *)

\* Mutant: the manager does not listen, leave() alone deactivates.
AnnounceDeaf(p) ==
  /\ Announcing /\ ~Top.listens
  /\ p \in Top.todo
  /\ calls' = [calls EXCEPT ![Len(calls)].todo = @ \ {p}, ![Len(calls)].listens = TRUE]
  /\ UNCHANGED <<members, wrappers, active, viewed, disposed>>

\* emitChange() for p: the manager deactivates the wrapper of someone who left, and
\* the listeners are called.
Announce(p) ==
  /\ Announcing /\ ~Top.listens
  /\ p \in Top.todo
  /\ calls' = [calls EXCEPT ![Len(calls)].todo = @ \ {p}, ![Len(calls)].listens = TRUE]
  /\ IF Top.op = "left" /\ ~disposed THEN Deactivate({p}) ELSE UNCHANGED <<active, viewed>>
  /\ UNCHANGED <<members, wrappers, disposed>>

\* The listeners return or throw, which is logged.
ListenersReturn ==
  /\ Announcing /\ Top.listens
  /\ calls' = [calls EXCEPT ![Len(calls)].listens = FALSE]
  /\ UNCHANGED <<members, wrappers, active, viewed, disposed>>

AnnounceDone ==
  /\ Announcing /\ ~Top.listens
  /\ Top.todo = {}
  /\ calls' = Front(calls)
  /\ UNCHANGED <<members, wrappers, active, viewed, disposed>>

-----------------------------------------------------------------------------
(* Joining *)

\* join() of someone new: the membership is there before anyone is told.
Join(p) ==
  /\ MayCall /\ MayJoin(p)
  /\ p \notin members
  /\ members' = members \union {p}
  /\ calls' = calls \o <<Call("join", {p}, {p}), Announcement("joined", {p})>>
  /\ UNCHANGED <<wrappers, active, viewed, disposed>>

\* ensurePlayer() for every p in ps.
Wrap(ps) ==
  /\ wrappers' = wrappers \union ps
  /\ active' = active \union ps

\* get(), or join() of someone who is a member already.
Get(p) ==
  /\ MayCall
  /\ p \in members
  /\ Wrap({p})
  /\ UNCHANGED <<members, viewed, disposed, calls>>

View(p) ==
  /\ MayCall
  /\ Wrap({p})
  /\ viewed' = IF p \in members THEN viewed ELSE viewed \union {p}
  /\ UNCHANGED <<members, disposed, calls>>

\* Everyone was told: join() wraps the player without looking at the membership again.
JoinReturns ==
  /\ In("join")
  /\ Wrap(Top.batch)
  /\ calls' = Front(calls)
  /\ UNCHANGED <<members, viewed, disposed>>

\* The wrapper's constructor throws; join() leaves the membership as it is.
JoinThrows ==
  /\ In("join")
  /\ Top.batch \cap wrappers = {}
  /\ calls' = Front(calls)
  /\ UNCHANGED <<members, wrappers, active, viewed, disposed>>

\* joinAll(): the players who are not members yet join as one batch.
JoinAll(ps) ==
  /\ MayCall
  /\ \A p \in ps : MayJoin(p)
  /\ members' = members \union ps
  /\ calls' = calls \o <<Call("joinAll", ps, ps \ members), Announcement("joined", ps \ members)>>
  /\ UNCHANGED <<wrappers, active, viewed, disposed>>

JoinAllReturns ==
  /\ In("joinAll")
  /\ Wrap(Top.batch)
  /\ calls' = Front(calls)
  /\ UNCHANGED <<members, viewed, disposed>>

\* A constructor throws after the wrappers of `done` were seen to: those of them the
\* call created are dropped again, and its memberships are about to be.
JoinAllThrows(done) ==
  /\ In("joinAll")
  /\ done \subseteq Top.batch
  /\ \E p \in Top.batch \ done : p \notin wrappers
  /\ active' = active \union (done \cap wrappers)
  /\ calls' = [calls EXCEPT ![Len(calls)].op = "rollback"]
  /\ UNCHANGED <<members, wrappers, viewed, disposed>>

\* participation.leave(): the membership goes, and is announced.
Release(ps) ==
  /\ members' = members \ ps
  /\ calls' = Append(calls, Announcement("left", ps))

\* Mutant: only the players whose wrapper the call created are rolled back.
RollbackNextCreated(p) ==
  LET rest == [calls EXCEPT ![Len(calls)].todo = @ \ {p}] IN
  /\ In("rollback")
  /\ p \in Top.todo
  /\ members' = IF p \in wrappers THEN members ELSE members \ {p}
  /\ calls' = IF p \in members \ wrappers THEN Append(rest, Announcement("left", {p})) ELSE rest
  /\ UNCHANGED <<wrappers, active, viewed, disposed>>

\* The rollback takes back the memberships one by one.
RollbackNext(p) ==
  LET rest == [calls EXCEPT ![Len(calls)].todo = @ \ {p}] IN
  /\ In("rollback")
  /\ p \in Top.todo
  /\ members' = members \ {p}
  /\ calls' = IF p \in members THEN Append(rest, Announcement("left", {p})) ELSE rest
  /\ UNCHANGED <<wrappers, active, viewed, disposed>>

RollbackDone ==
  /\ In("rollback")
  /\ Top.todo = {}
  /\ calls' = Front(calls)
  /\ UNCHANGED <<members, wrappers, active, viewed, disposed>>

-----------------------------------------------------------------------------
(* Leaving *)

\* leave(): the wrapper is inactive before the membership goes.
Leave(p) ==
  /\ MayCall /\ MayLeave(p)
  /\ Deactivate({p})
  /\ IF p \in members THEN Release({p}) ELSE UNCHANGED <<members, calls>>
  /\ UNCHANGED <<wrappers, disposed>>

\* ParticipationManager.leave() or leaveAll(), or the game's own participation.clear(),
\* which bypass the wrappers.
ReleasedOutside(ps) ==
  /\ MayCall /\ \A p \in ps : MayLeave(p)
  /\ Release(ps)
  /\ UNCHANGED <<wrappers, active, viewed, disposed>>

\* dispose(): unsubscribes, and releases members and wrappers without announcing it.
Dispose ==
  /\ MayCall
  /\ Careful => \A p \in Players : ~Joining(p)
  /\ disposed' = TRUE
  /\ members' = {}
  /\ wrappers' = {}
  /\ Deactivate(Players)
  /\ UNCHANGED calls

-----------------------------------------------------------------------------
Init ==
  /\ members = {}
  /\ wrappers = {}
  /\ active = {}
  /\ viewed = {}
  /\ disposed = FALSE
  /\ calls = <<>>

Next ==
  \/ \E p \in Players : Join(p)
  \/ \E p \in Players : Get(p)
  \/ \E p \in Players : View(p)
  \/ \E ps \in (SUBSET Players) \ {{}} : JoinAll(ps)
  \/ \E p \in Players : Leave(p)
  \/ \E p \in members : ReleasedOutside({p})
  \/ members # {} /\ ReleasedOutside(members)
  \/ Dispose
  \/ JoinReturns \/ JoinThrows
  \/ JoinAllReturns \/ \E done \in SUBSET Players : JoinAllThrows(done)
  \/ \E p \in Players : RollbackNext(p)
  \/ RollbackDone
  \/ \E p \in Players : Announce(p)
  \/ ListenersReturn \/ AnnounceDone

Spec == Init /\ [][Next]_vars

-----------------------------------------------------------------------------
\* Types of the variables; only a wrapper can be active.
TypeOK ==
  /\ members \subseteq Players
  /\ wrappers \subseteq Players
  /\ viewed \subseteq active
  /\ active \subseteq wrappers
  /\ disposed \in BOOLEAN
  /\ calls \in Seq(Frame)

\* gamePlayer.ts:28, "whether this GamePlayer still belongs to the game's lifecycle":
\* a member with a wrapper has an active one, unless the call that makes him a member
\* is still to wrap him, or to take him back.
MembersAreActive ==
  \A p \in members \cap wrappers : p \in active \/ Joining(p) \/ RollingBack(p)

\* The same the other way round: an active wrapper belongs to a member, or to one
\* whose departure is being announced; but view() activates the wrapper of anybody.
ActiveAreMembers ==
  \A p \in active \ viewed : p \in members \/ Leaving(p)

\* playerManager.ts:276-279: a disposed manager holds no player any more.
DisposedHoldsNothing == disposed => members = {} /\ wrappers = {}

\* Wrappers and memberships agree, until and after the disposal.
WrappersFollowMembers == TypeOK /\ MembersAreActive /\ ActiveAreMembers /\ DisposedHoldsNothing

\* While the wrappers of a failed joinAll() are taken back, nobody of the batch is
\* left behind as a member: the call is atomic, whatever the listeners do meanwhile.
RollbackReleases ==
  \A p \in members : RollingBack(p) /\ p \in members' => RollingBack(p)'

=============================================================================
