---------------------------- MODULE PlayerGroups ----------------------------
(***************************************************************************)
(* Player groups and sets of groups (gamePlayer/playerGroup.ts,             *)
(* groupSet.ts, groupMembershipSignal.ts) with the team chooser and the     *)
(* team cleaner that fill and empty them (gameComponent/region).            *)
(*                                                                          *)
(* A group keeps its entries in an array and an index by id beside it; the  *)
(* set forwards what its groups publish.  Publishing is the last thing an   *)
(* operation does, and a listener may call any operation back, so `stack`   *)
(* holds the publications and the loops under way, the innermost last.      *)
(*                                                                          *)
(* Left out: operations that only read, the data and the class of a group,  *)
(* the reasons of a change, and what onEnter and onJoin do besides calling  *)
(* groups back.                                                             *)
(***************************************************************************)
EXTENDS Naturals, FiniteSetsExt, Sequences, SequencesExt

CONSTANTS
  Ids,       \* player ids
  Groups,    \* the groups there are
  Given,     \* the arrays that groups are constructed with
  Set,       \* stands for the PlayerGroupSet among the signals
  MaxCalls,  \* bound: operations that callbacks call before the outermost one returns
  Careful    \* nobody adds a player who is being removed everywhere, or to a second team,
             \* or removes groups from the set while a player is being removed everywhere

GroupsAssumption ==
  /\ IsFiniteSet(Groups) /\ Set \notin Groups /\ MaxCalls \in Nat /\ Careful \in BOOLEAN
  /\ Given \subseteq Seq([id : Ids, n : 1..2])

VARIABLES
  players,   \* per group, PlayerGroup.players
  index,     \* per group, PlayerGroup.playersById
  set,       \* PlayerGroupSet.groups
  attached,  \* PlayerGroupSet.groupSubscriptions: whom the set listens to
  teams,     \* the teams of the chooser; {} when groups are used without one
  watched,   \* someone (AutoStop, DisconnectTimeout) subscribed to the set's changes
  seen,      \* history: the ids in the set when that subscriber last looked
  stack,     \* publications and loops under way
  calls      \* operations called since the stack was empty

vars == <<players, index, set, attached, teams, watched, seen, stack, calls>>

\* The wrappers of a player: a group constructed with two of one player keeps both.
Entries == [id : Ids, n : 1..2]

IdsOf(entries) == {e.id : e \in ToSet(entries)}

First(entries, id) == entries[Min({i \in DOMAIN entries : entries[i].id = id})]

\* rebuildIndex(): the first entry of an id is the one to find.
Indexed(entries) == [id \in IdsOf(entries) |-> First(entries, id)]

HasId(g, id) == id \in DOMAIN index[g]

\* The ids that PlayerGroupSet.has() finds.
SetIds == UNION {DOMAIN index[g] : g \in ToSet(set)}

Top == Last(stack)

In(op) == stack # <<>> /\ Top.op = op /\ ~Top.runs

\* The innermost publication or loop is over.
Pop == stack' = Front(stack) /\ calls' = IF Len(stack) = 1 THEN 0 ELSE calls

\* Game code runs, at rest or in a callback, and calls an operation.
MayCall ==
  /\ stack # <<>> => Top.runs /\ calls < MaxCalls
  /\ calls' = calls + (IF stack = <<>> THEN 0 ELSE 1)

Sweeping == UNION {stack[i].ids : i \in {j \in DOMAIN stack : stack[j].op = "sweep"}}

\* The callbacks a publication finds: the game's, the set's forwarder, the set's watcher.
Hearers(signal) ==
  {"game"} \union (IF signal \in attached THEN {"forward"} ELSE {})
           \union (IF signal = Set /\ watched THEN {"watcher"} ELSE {})

Publication(signal) ==
  [op |-> "publish", signal |-> signal, to |-> Hearers(signal), runs |-> FALSE]

\* One removed entry after the other is announced once all are gone.
Announcement(g, n) == [op |-> "announce", group |-> g, left |-> n, runs |-> FALSE]

\* A loop over the set's array: over the live one until the set replaces it.
Purge(ids, over, frozen) ==
  [op |-> "purge", ids |-> ids, at |-> 0, frozen |-> frozen, list |-> over, runs |-> FALSE]

\* The groups that list the player more than once.
Doubled(id) ==
  {g \in Groups : \E i, j \in DOMAIN players[g] :
                    i # j /\ players[g][i].id = id /\ players[g][j].id = id}

\* removePlayer(): `doubled` is history.
Sweep(id, over, frozen) ==
  [op |-> "sweep", ids |-> {id}, at |-> 0, frozen |-> frozen, list |-> over, runs |-> FALSE,
   doubled |-> Doubled(id)]

Groupwise(frame) == IF frame.frozen THEN frame.list ELSE set

\* clear() of the set gives it a new array: loops go on over the old one.
Frozen(frames) ==
  [i \in DOMAIN frames |->
     IF frames[i].op \in {"sweep", "purge"} /\ ~frames[i].frozen
     THEN [frames[i] EXCEPT !.frozen = TRUE, !.list = set] ELSE frames[i]]

TypeOK ==
  /\ \A g \in Groups : players[g] \in Seq(Entries) /\ index[g] \in [IdsOf(players[g]) -> Entries]
  /\ seen \subseteq Ids
  /\ set \in Seq(Groups) /\ IsInjective(set) /\ attached \subseteq Groups
  /\ teams \subseteq Groups /\ watched \in BOOLEAN
  /\ \A i \in DOMAIN stack : stack[i].op \in {"publish", "announce", "sweep", "purge", "enter"}

\* new PlayerGroup(class, players) for every group; new PlayerGroupSet().
Init ==
  /\ players \in [Groups -> Given]
  /\ index = [g \in Groups |-> Indexed(players[g])]
  /\ set = <<>> /\ attached = {}
  /\ teams \in {{}, Groups}
  /\ teams # {} => \A g \in Groups : players[g] = <<>>
  /\ watched = FALSE /\ seen = {}
  /\ stack = <<>> /\ calls = 0

-----------------------------------------------------------------------------
(* Publications *)

\* publish(): one callback of the snapshot after the other, an unsubscribed one too.
Deliver(c) ==
  /\ In("publish") /\ c \in Top.to
  /\ LET rest == [stack EXCEPT ![Len(stack)].to = @ \ {c},
                                ![Len(stack)].runs = (c = "game" /\ calls < MaxCalls)]
     IN stack' = IF c = "forward" THEN Append(rest, Publication(Set)) ELSE rest
  /\ seen' = IF c = "watcher" THEN SetIds ELSE seen
  /\ UNCHANGED <<players, index, set, attached, teams, watched, calls>>

\* The game's callback returns, or throws, which is logged.
CallbackReturns ==
  /\ stack # <<>> /\ Top.runs
  /\ stack' = [stack EXCEPT ![Len(stack)].runs = FALSE]
  /\ UNCHANGED <<players, index, set, attached, teams, watched, seen, calls>>

Published ==
  /\ In("publish") /\ Top.to = {}
  /\ Pop
  /\ UNCHANGED <<players, index, set, attached, teams, watched, seen>>

AnnounceNext ==
  /\ In("announce")
  /\ IF Top.left = 0 THEN Pop
     ELSE /\ stack' = Append([stack EXCEPT ![Len(stack)].left = @ - 1], Publication(Top.group))
          /\ UNCHANGED calls
  /\ UNCHANGED <<players, index, set, attached, teams, watched, seen>>

-----------------------------------------------------------------------------
(* A group *)

\* add(): the caller goes on under `rest` once the change is published.
AddTo(g, e, rest) ==
  IF HasId(g, e.id)
  THEN stack' = rest /\ UNCHANGED <<players, index>>
  ELSE /\ players' = [players EXCEPT ![g] = Append(@, e)]
       /\ index' = [index EXCEPT ![g] = [id \in DOMAIN @ \union {e.id} |->
                                           IF id = e.id THEN e ELSE @[id]]]
       /\ stack' = Append(rest, Publication(g))

\* delete(): the indexed entry goes; a second entry of the id takes its place.
DeleteFrom(g, id, rest) ==
  IF ~HasId(g, id)
  THEN stack' = rest /\ UNCHANGED <<players, index>>
  ELSE LET left == RemoveFirst(players[g], index[g][id])
           kept == IF id \in IdsOf(left) THEN DOMAIN index[g] ELSE DOMAIN index[g] \ {id}
       IN /\ players' = [players EXCEPT ![g] = left]
          /\ index' = [index EXCEPT ![g] = [i \in kept |-> IF i = id THEN First(left, i) ELSE @[i]]]
          /\ stack' = Append(rest, Publication(g))

\* The entries of the players who stay.
Without(entries, ids) ==
  LET left[n \in 0..Len(entries)] ==
        IF n = 0 THEN <<>>
        ELSE IF entries[n].id \in ids THEN left[n - 1] ELSE Append(left[n - 1], entries[n])
  IN left[Len(entries)]

\* removeWhere(): the array is replaced, the index rebuilt, and then all are announced.
RemoveFrom(g, ids, rest) ==
  LET left == Without(players[g], ids)
      gone == Len(players[g]) - Len(left)
  IN IF gone = 0
     THEN stack' = rest /\ UNCHANGED <<players, index>>
     ELSE /\ players' = [players EXCEPT ![g] = left]
          /\ index' = [index EXCEPT ![g] = Indexed(left)]
          /\ stack' = Append(rest, Announcement(g, gone))

\* The chooser has the player in another team, or is about to move him.
OtherTeam(g, id) ==
  \/ \E h \in teams \ {g} : HasId(h, id)
  \/ \E i \in DOMAIN stack : stack[i].op = "enter" /\ stack[i].id = id

\* Game code may fill a team by itself, beside the chooser.
Add(g, id) ==
  /\ MayCall
  /\ Careful => id \notin Sweeping /\ ~OtherTeam(g, id)
  /\ AddTo(g, [id |-> id, n |-> 1], stack)
  /\ UNCHANGED <<set, attached, teams, watched, seen>>

Delete(g, id) ==
  /\ MayCall
  /\ DeleteFrom(g, id, stack)
  /\ UNCHANGED <<set, attached, teams, watched, seen>>

RemoveWhere(g, ids) ==
  /\ MayCall
  /\ RemoveFrom(g, ids, stack)
  /\ UNCHANGED <<set, attached, teams, watched, seen>>

Clear(g) ==
  /\ MayCall /\ players[g] # <<>>
  /\ players' = [players EXCEPT ![g] = <<>>]
  /\ index' = [index EXCEPT ![g] = Indexed(<<>>)]
  /\ stack' = Append(stack, Announcement(g, Len(players[g])))
  /\ UNCHANGED <<set, attached, teams, watched, seen>>

-----------------------------------------------------------------------------
(* The set of groups *)

AddGroup(g) ==
  /\ MayCall /\ g \notin ToSet(set)
  /\ set' = Append(set, g)
  /\ attached' = attached \union {g}
  /\ stack' = Append(stack, Publication(Set))
  /\ UNCHANGED <<players, index, teams, watched, seen>>

RemoveGroup(g) ==
  /\ MayCall /\ g \in ToSet(set)
  /\ Careful => Sweeping = {}
  /\ set' = RemoveFirst(set, g)
  /\ attached' = attached \ {g}
  /\ stack' = Append(stack, Publication(Set))
  /\ UNCHANGED <<players, index, teams, watched, seen>>

ClearSet ==
  /\ MayCall /\ set # <<>>
  /\ set' = <<>> /\ attached' = {}
  /\ stack' = Append(Frozen(stack), Publication(Set))
  /\ UNCHANGED <<players, index, teams, watched, seen>>

\* removePlayer(), and the chooser or the cleaner once the player left their region:
\* over the live set, or over the configured teams.
RemovePlayer(id) ==
  /\ MayCall
  /\ stack' = Append(stack, Sweep(id, <<>>, FALSE))
  /\ UNCHANGED <<players, index, set, attached, teams, watched, seen>>

LeaveLobby(id) ==
  /\ stack = <<>> /\ teams # {}
  /\ \E order \in SetToSeqs(teams) : stack' = <<Sweep(id, order, TRUE)>>
  /\ UNCHANGED <<players, index, set, attached, teams, watched, seen, calls>>

SweepNext ==
  /\ In("sweep")
  /\ Top.at < Len(Groupwise(Top))
  /\ \E id \in Top.ids :
       DeleteFrom(Groupwise(Top)[Top.at + 1], id, [stack EXCEPT ![Len(stack)].at = @ + 1])
  /\ UNCHANGED <<set, attached, teams, watched, seen, calls>>

\* clearInvalid() of the set, when the players `gone` are offline.
ClearInvalid(gone) ==
  /\ MayCall
  /\ stack' = Append(stack, Purge(gone, <<>>, FALSE))
  /\ UNCHANGED <<players, index, set, attached, teams, watched, seen>>

\* The chooser is detached: its teams, in the order they were configured in.
DetachChooser(gone) ==
  /\ stack = <<>> /\ teams # {}
  /\ \E order \in SetToSeqs(teams) : stack' = <<Purge(gone, order, TRUE)>>
  /\ UNCHANGED <<players, index, set, attached, teams, watched, seen, calls>>

PurgeNext ==
  /\ In("purge")
  /\ Top.at < Len(Groupwise(Top))
  /\ RemoveFrom(Groupwise(Top)[Top.at + 1], Top.ids, [stack EXCEPT ![Len(stack)].at = @ + 1])
  /\ UNCHANGED <<set, attached, teams, watched, seen, calls>>

LoopEnds ==
  /\ stack # <<>> /\ Top.op \in {"sweep", "purge"} /\ ~Top.runs
  /\ Top.at >= Len(Groupwise(Top))
  /\ Pop
  /\ UNCHANGED <<players, index, set, attached, teams, watched, seen>>

-----------------------------------------------------------------------------
(* The team chooser *)

\* A player enters the region of a team: onEnter is called first.
EnterRegion(id, g) ==
  /\ stack = <<>> /\ g \in teams
  /\ stack' = <<[op |-> "enter", id |-> id, group |-> g, already |-> HasId(g, id),
                 others |-> teams \ {g}, joined |-> FALSE, runs |-> TRUE]>>
  /\ UNCHANGED <<players, index, set, attached, teams, watched, seen, calls>>

\* handlePlayerEnter(): every other team first ...
LeaveOther(g) ==
  /\ In("enter") /\ g \in Top.others
  /\ DeleteFrom(g, Top.id, [stack EXCEPT ![Len(stack)].others = @ \ {g}])
  /\ UNCHANGED <<set, attached, teams, watched, seen, calls>>

\* Mutant: the team is entered before the others are left.
EnterTeamAtOnce ==
  /\ In("enter") /\ ~Top.joined
  /\ AddTo(Top.group, [id |-> Top.id, n |-> 1], [stack EXCEPT ![Len(stack)].joined = TRUE])
  /\ UNCHANGED <<set, attached, teams, watched, seen, calls>>

\* ... then the team itself, ...
EnterTeam ==
  /\ In("enter") /\ Top.others = {} /\ ~Top.joined
  /\ AddTo(Top.group, [id |-> Top.id, n |-> 1], [stack EXCEPT ![Len(stack)].joined = TRUE])
  /\ UNCHANGED <<set, attached, teams, watched, seen, calls>>

\* ... and onJoin, unless the player was in the team before.
Entered ==
  /\ In("enter") /\ Top.joined
  /\ IF Top.already THEN Pop
     ELSE /\ stack' = [stack EXCEPT ![Len(stack)].runs = TRUE, ![Len(stack)].already = TRUE]
          /\ UNCHANGED calls
  /\ UNCHANGED <<players, index, set, attached, teams, watched, seen>>

-----------------------------------------------------------------------------
(* Around the groups *)

Watch ==
  /\ stack = <<>> /\ ~watched
  /\ watched' = TRUE /\ seen' = SetIds
  /\ UNCHANGED <<players, index, set, attached, teams, stack, calls>>

Unwatch ==
  /\ MayCall /\ watched
  /\ watched' = FALSE /\ seen' = {}
  /\ UNCHANGED <<players, index, set, attached, teams, stack>>

Next ==
  \/ \E c \in {"game", "forward", "watcher"} : Deliver(c)
  \/ CallbackReturns \/ Published \/ AnnounceNext
  \/ \E g \in Groups, id \in Ids : Add(g, id) \/ Delete(g, id) \/ EnterRegion(id, g)
  \/ \E g \in Groups, ids \in SUBSET Ids : RemoveWhere(g, ids)
  \/ \E gone \in SUBSET Ids : ClearInvalid(gone) \/ DetachChooser(gone)
  \/ \E g \in Groups : Clear(g) \/ AddGroup(g) \/ RemoveGroup(g) \/ LeaveOther(g)
  \/ \E id \in Ids : RemovePlayer(id) \/ LeaveLobby(id)
  \/ ClearSet \/ SweepNext \/ PurgeNext \/ LoopEnds
  \/ EnterTeam \/ Entered
  \/ Watch \/ Unwatch

Spec == Init /\ [][Next]_vars

-----------------------------------------------------------------------------
(* Properties *)

\* What is looked up by id is what a scan of the array would find, duplicates included
\* (playerGroup.ts:98-119), and the set listens to its own groups and to no other, at every
\* point where game code may look.
LookupsAgree ==
  /\ TypeOK
  /\ \A g \in Groups : index[g] = Indexed(players[g])
  /\ attached = ToSet(set)

\* Whoever looks at the set on each of its changes has seen the present members by the time
\* the operations return, whatever the listeners did in between (groupSet.ts:25-70).
NobodyIsBehind == stack = <<>> /\ watched => seen = SetIds

\* A player sits in no two teams of the chooser, in no callback either, and removePlayer()
\* leaves the player in no group of the set (groupSet.ts:151, regionTeamChooser.ts:104-118).
TeamsAreExclusive ==
  /\ \A id \in Ids : \A g, h \in teams : HasId(g, id) /\ HasId(h, id) => g = h
  /\ In("sweep") /\ Top.at >= Len(Groupwise(Top)) =>
       \A g \in ToSet(Groupwise(Top)), id \in Top.ids : HasId(g, id) => g \in Top.doubled
=============================================================================
