---------------------------- MODULE Participation ----------------------------
(***************************************************************************)
(* ParticipationManager and its per-game view GameParticipation            *)
(* (packages/core/src/participation): the two indices player -> games and  *)
(* game -> players, the admission policy, and the change notifications.    *)
(*                                                                         *)
(* The runtime is single threaded, so what makes the component hard is     *)
(* re-entrancy: a subscriber called by emitChange() may itself join, leave *)
(* or clear.  `frames` is the call stack of the emissions under way.  An   *)
(* operation commits both indices and pushes a frame with the events it    *)
(* still has to announce; the frame takes a snapshot of the subscribers    *)
(* once per event and calls them one by one.  The order of the events of a *)
(* batch and of the subscribers of an event (insertion order in the code)  *)
(* is left open.  Each subscription is taken to have a callback of its own: *)
(* two of one function share an entry of the Set in the code.               *)
(***************************************************************************)
EXTENDS Naturals, Sequences

CONSTANTS
  Players,     \* stable player ids
  Games,       \* game keys whose GameParticipation is tracked (not a daemon's)
  Callbacks,   \* subscribers of GameParticipation.changed
  Policies,    \* the policies setPolicy() may install
  MaxDepth     \* bound: nested emissions

ASSUME PoliciesAssumption == Policies \subseteq {"exclusive", "shared"}

VARIABLES
  policy,      \* ParticipationManager.policy
  memberships, \* Map player -> Set of game keys; a player without games has no entry
  gameMembers, \* Map game key -> Set of players; an empty game has no entry
  subs,        \* changeSubscribers, as a function of the game key
  frames,      \* call stack of emissions, the running one last
  stale        \* history: <<c, g>> when g changed since c was last called for g

vars == <<policy, memberships, gameMembers, subs, frames, stale>>

Event(type, p, g) == [type |-> type, player |-> p, game |-> g]

Events == [type : {"joined", "left"}, player : Players, game : Games]

NoEvent == [type |-> "none"]

Frame ==
  [todo    : SUBSET Events,            \* events of the batch not yet announced
   event   : Events \union {NoEvent},  \* the event being announced
   targets : SUBSET Callbacks,         \* its subscribers still to be called
   running : BOOLEAN]                  \* a subscriber is on the call stack

-----------------------------------------------------------------------------
(* The two indices are Maps of Sets: a missing entry reads as the empty set *)
(* and an entry whose last element goes is deleted.                         *)

Entry(f, k) == IF k \in DOMAIN f THEN f[k] ELSE {}

AddAll(f, keys, vals) ==
  [k \in DOMAIN f \union keys |->
     IF k \in keys THEN Entry(f, k) \union vals ELSE f[k]]

RemoveAll(f, keys, vals) ==
  [k \in {x \in DOMAIN f : x \in keys => f[x] \ vals # {}} |->
     IF k \in keys THEN f[k] \ vals ELSE f[k]]

Has(p, g) == g \in Entry(memberships, p)

\* addMembership() for every pair of ps x gs.
Link(ps, gs) ==
  /\ memberships' = AddAll(memberships, ps, gs)
  /\ gameMembers' = AddAll(gameMembers, gs, ps)

\* Mutant: removeMembership() forgets the reverse index.
UnlinkOneSide(ps, gs) ==
  /\ memberships' = RemoveAll(memberships, ps, gs)
  /\ UNCHANGED gameMembers

\* removeMembership() for every pair of ps x gs.
Unlink(ps, gs) ==
  /\ memberships' = RemoveAll(memberships, ps, gs)
  /\ gameMembers' = RemoveAll(gameMembers, gs, ps)

-----------------------------------------------------------------------------
Top == frames[Len(frames)]

SetTop(f) == frames' = [frames EXCEPT ![Len(frames)] = f]

\* Script code runs: outside every emission, or inside a called subscriber.
MayCall == frames # <<>> => Top.running /\ Len(frames) < MaxDepth

\* The committed batch is announced; everyone subscribed to gs is behind.
Announce(type, ps, gs) ==
  /\ frames' = Append(frames,
                 [todo    |-> {Event(type, p, g) : p \in ps, g \in gs},
                  event   |-> NoEvent,
                  targets |-> {},
                  running |-> FALSE])
  /\ stale' = stale \union {cg \in Callbacks \X gs : cg[1] \in subs[cg[2]]}

\* evaluateJoin() under ExclusiveParticipationPolicy or SharedParticipationPolicy.
CanJoin(p, g) ==
  \/ policy = "shared"
  \/ Entry(memberships, p) = {}
  \/ g \in Entry(memberships, p)

Join(p, g) ==
  /\ MayCall
  /\ ~Has(p, g)
  /\ CanJoin(p, g)
  /\ Link({p}, {g})
  /\ Announce("joined", {p}, {g})
  /\ UNCHANGED <<policy, subs>>

\* The players of the batch that are not members yet.
Newcomers(ps, g) == {p \in ps : ~Has(p, g)}

\* Mutant: joinAll() validates only one player of the batch.
JoinAllChecksOne(ps, g) ==
  /\ MayCall
  /\ Newcomers(ps, g) # {}
  /\ \E p \in Newcomers(ps, g) : CanJoin(p, g)
  /\ Link(Newcomers(ps, g), {g})
  /\ Announce("joined", Newcomers(ps, g), {g})
  /\ UNCHANGED <<policy, subs>>

JoinAll(ps, g) ==
  /\ MayCall
  /\ \A p \in Newcomers(ps, g) : CanJoin(p, g)
  /\ Newcomers(ps, g) # {}
  /\ Link(Newcomers(ps, g), {g})
  /\ Announce("joined", Newcomers(ps, g), {g})
  /\ UNCHANGED <<policy, subs>>

Leave(p, g) ==
  /\ MayCall
  /\ Has(p, g)
  /\ Unlink({p}, {g})
  /\ Announce("left", {p}, {g})
  /\ UNCHANGED <<policy, subs>>

LeaveAll(p) ==
  LET gs == Entry(memberships, p) IN
  /\ MayCall
  /\ gs # {}
  /\ Unlink({p}, gs)
  /\ Announce("left", {p}, gs)
  /\ UNCHANGED <<policy, subs>>

\* clear(): an ordinary releaseGame().
Clear(g) ==
  LET ps == Entry(gameMembers, g) IN
  /\ MayCall
  /\ ps # {}
  /\ Unlink(ps, {g})
  /\ Announce("left", ps, {g})
  /\ UNCHANGED <<policy, subs>>

\* _clearForDispose(): the teardown of the game releases without announcing.
ClearForDispose(g) ==
  LET ps == Entry(gameMembers, g) IN
  /\ MayCall
  /\ ps # {}
  /\ Unlink(ps, {g})
  /\ UNCHANGED <<policy, subs, frames, stale>>

SetPolicy(pol) ==
  /\ MayCall
  /\ policy' = pol
  /\ UNCHANGED <<memberships, gameMembers, subs, frames, stale>>

\* A callback that is subscribed is not subscribed again.
Subscribe(c, g) ==
  /\ MayCall
  /\ c \notin subs[g]
  /\ subs' = [subs EXCEPT ![g] = @ \union {c}]
  /\ UNCHANGED <<policy, memberships, gameMembers, frames, stale>>

Unsubscribe(c, g) ==
  /\ MayCall
  /\ c \in subs[g]
  /\ subs' = [subs EXCEPT ![g] = @ \ {c}]
  /\ stale' = stale \ {<<c, g>>}
  /\ UNCHANGED <<policy, memberships, gameMembers, frames>>

-----------------------------------------------------------------------------
\* Mutant: emitChange() looks up nobody: the subscribers were dropped with the last member.
EmitToCurrentMembers ==
  /\ frames # <<>>
  /\ ~Top.running /\ Top.targets = {}
  /\ \E e \in Top.todo :
       SetTop([Top EXCEPT !.todo = @ \ {e}, !.event = e,
               !.targets = IF e.game \in DOMAIN gameMembers THEN subs[e.game] ELSE {}])
  /\ UNCHANGED <<policy, memberships, gameMembers, subs, stale>>

\* emitChange() starts on the next event of the batch: snapshot of the subscribers.
EmitNext ==
  /\ frames # <<>>
  /\ ~Top.running /\ Top.targets = {}
  /\ \E e \in Top.todo :
       SetTop([Top EXCEPT !.todo = @ \ {e}, !.event = e, !.targets = subs[e.game]])
  /\ UNCHANGED <<policy, memberships, gameMembers, subs, stale>>

\* A subscriber of the snapshot is called, even one that has unsubscribed since.
CallSubscriber(c) ==
  /\ frames # <<>>
  /\ ~Top.running /\ c \in Top.targets
  /\ SetTop([Top EXCEPT !.targets = @ \ {c}, !.running = TRUE])
  /\ stale' = stale \ {<<c, Top.event.game>>}
  /\ UNCHANGED <<policy, memberships, gameMembers, subs>>

\* It returns, or throws: emitChange() logs the error and goes on.
SubscriberReturns ==
  /\ frames # <<>>
  /\ Top.running
  /\ SetTop([Top EXCEPT !.running = FALSE])
  /\ UNCHANGED <<policy, memberships, gameMembers, subs, stale>>

\* The batch is announced: back to the caller of the operation.
EmitDone ==
  /\ frames # <<>>
  /\ ~Top.running /\ Top.targets = {} /\ Top.todo = {}
  /\ frames' = SubSeq(frames, 1, Len(frames) - 1)
  /\ UNCHANGED <<policy, memberships, gameMembers, subs, stale>>

Init ==
  /\ policy \in Policies
  /\ memberships = [p \in {} |-> {}]
  /\ gameMembers = [g \in {} |-> {}]
  /\ subs = [g \in Games |-> {}]
  /\ frames = <<>>
  /\ stale = {}

Emission ==
  \/ EmitNext
  \/ \E c \in Callbacks : CallSubscriber(c)
  \/ SubscriberReturns
  \/ EmitDone

Next ==
  \/ \E p \in Players, g \in Games : Join(p, g)
  \/ \E ps \in SUBSET Players, g \in Games : JoinAll(ps, g)
  \/ \E p \in Players, g \in Games : Leave(p, g)
  \/ \E p \in Players : LeaveAll(p)
  \/ \E g \in Games : Clear(g)
  \/ \E g \in Games : ClearForDispose(g)
  \/ \E pol \in Policies : SetPolicy(pol)
  \/ \E c \in Callbacks, g \in Games : Subscribe(c, g)
  \/ \E c \in Callbacks, g \in Games : Unsubscribe(c, g)
  \/ Emission

Spec == Init /\ [][Next]_vars

-----------------------------------------------------------------------------
PartialFunctions(S, T) == UNION {[D -> T] : D \in SUBSET S}

\* Every variable has its type, and the stack holds well-formed emissions.
TypeOK ==
  /\ policy \in Policies
  /\ memberships \in PartialFunctions(Players, SUBSET Games)
  /\ gameMembers \in PartialFunctions(Games, SUBSET Players)
  /\ subs \in [Games -> SUBSET Callbacks]
  /\ frames \in Seq(Frame)
  /\ stale \subseteq Callbacks \X Games

\* participationManager.ts:26-28: the two indices never drift apart, and neither
\* keeps an entry for a player or a game that has nobody (playerCount and
\* hasPlayers read the entries).
IndicesAgree ==
  /\ \A p \in Players, g \in Games :
       g \in Entry(memberships, p) <=> p \in Entry(gameMembers, g)
  /\ \A p \in DOMAIN memberships : memberships[p] # {}
  /\ \A g \in DOMAIN gameMembers : gameMembers[g] # {}

\* No lost wake-up: when script code is idle, every subscriber has been called
\* after the last announced change of each game it is subscribed to.  AutoStop and
\* DisconnectTimeout, which re-read the state when called, depend on it.
NoLostWakeup == frames = <<>> => stale = {}

\* Someone is still going to call c for g.
Pending(c, g) ==
  \E i \in 1..Len(frames) :
    \/ \E e \in frames[i].todo : e.game = g
    \/ c \in frames[i].targets /\ frames[i].event.game = g

\* The inductive form of NoLostWakeup: whoever is behind is still to be called.
StaleIsPending == \A cg \in stale : cg[1] \in subs[cg[2]] /\ Pending(cg[1], cg[2])

\* The manager's state is what its two indices make of it: neither keeps a player or a game
\* the other has dropped, and both keep their types, which a missing entry would break.
StateIsConsistent == TypeOK /\ IndicesAgree

\* The relation the two indices stand for.
members == {pg \in Players \X Games : Has(pg[1], pg[2])}

Abstract == INSTANCE Membership WITH policy <- policy, members <- members

\* The indices, the batches and the re-entrant emissions implement the plain relation.
ImplementsMembership == Abstract!Spec

=============================================================================
