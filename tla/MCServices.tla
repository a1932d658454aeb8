----------------------------- MODULE MCServices -----------------------------
(***************************************************************************)
(* Who takes part in which game, the wrappers of a game's players, the      *)
(* manager of the games and the player groups.  They share no state in the  *)
(* model, so one run explores each by itself: `subject` says whose          *)
(* behaviour this is, and the variables of the others stay as they are.     *)
(***************************************************************************)
EXTENDS Participation, TLC

CONSTANTS
  PlayersDepth,                                  \* GamePlayers
  Keys, Daemons, Instances, None, ManagerDepth,  \* GameManager
  Ids, Groups, Given, Set, GroupsCalls           \* PlayerGroups

VARIABLES
  subject,                                                              \* what is explored
  roster, calls,
  wrappers, active, viewed, disposed,                                   \* GamePlayers
  games, lifecycle, key, sessions, overtaken,                           \* GameManager
  players, index, set, attached, teams, watched, seen, stack            \* PlayerGroups

P == INSTANCE GamePlayers WITH members <- roster, MaxDepth <- PlayersDepth, Careful <- TRUE
M == INSTANCE GameManager WITH members <- roster, MaxDepth <- ManagerDepth
G == INSTANCE PlayerGroups WITH MaxCalls <- GroupsCalls, Careful <- TRUE

ASSUME ServicesAssumption ==
  P!GamePlayersAssumption /\ M!GameManagerAssumption /\ G!GroupsAssumption

playersVars == <<wrappers, active, viewed, disposed>>
managerVars == <<games, lifecycle, key, sessions, overtaken>>
groupsVars  == <<players, index, set, attached, teams, watched, seen, stack>>
allVars     == <<subject, vars, roster, calls, playersVars, managerVars, groupsVars>>

NoPlayers == wrappers = None /\ active = None /\ viewed = None /\ disposed = None

NoManager ==
  games = None /\ lifecycle = None /\ key = None /\ sessions = None /\ overtaken = None

NoGroups ==
  /\ players = None /\ index = None /\ set = None /\ attached = None
  /\ teams = None /\ watched = None /\ seen = None /\ stack = None

AnyInit ==
  /\ subject \in {"participation", "players", "manager", "groups"}
  /\ Init
  /\ subject # "participation" => policy = "shared"
  /\ CASE subject = "participation" ->
            roster = None /\ calls = None /\ NoPlayers /\ NoManager /\ NoGroups
       [] subject = "players" -> P!Init /\ NoManager /\ NoGroups
       [] subject = "manager" -> M!Init /\ NoPlayers /\ NoGroups
       [] OTHER -> G!Init /\ NoPlayers /\ NoManager /\ roster = None

ButParticipation == <<subject, roster, calls, playersVars, managerVars, groupsVars>>

AnyNext ==
  \/ subject = "participation" /\ Next /\ UNCHANGED ButParticipation
  \/ subject = "players" /\ P!Next /\ UNCHANGED <<subject, vars, managerVars, groupsVars>>
  \/ subject = "manager" /\ M!Next /\ UNCHANGED <<subject, vars, playersVars, groupsVars>>
  \/ /\ subject = "groups" /\ G!Next
     /\ UNCHANGED <<subject, vars, roster, playersVars, managerVars>>

Services == AnyInit /\ [][AnyNext]_allVars

Item(id, n) == [id |-> id, n |-> n]

\* Groups start empty, or as a constructor may be called: with two wrappers of one player
\* around somebody else's.
Arrays == {<<>>} \union
  {s \in {<<Item(i, 1), Item(j, 1), Item(i, 2)>> : i, j \in Ids} : s[1].id # s[2].id}

Symmetry ==
  Permutations(Players) \union Permutations(Games) \union Permutations(Callbacks)
  \union Permutations(Groups) \union Permutations(Ids)

-----------------------------------------------------------------------------
\* Wrappers and memberships agree, until and after the disposal.
WrappersFollowMembers == subject = "players" => P!WrappersFollowMembers

\* Nobody of a batch that is being taken back is left behind as a member.
RollbackReleases == [][subject = "players" => P!RollbackReleases]_allVars

\* The registry, the trace sessions and the memberships speak of the same live game, and no
\* game is stuck half way through starting or stopping.
KeysAgree == subject = "manager" => M!KeysAgree /\ M!NoneStuck

\* Lookups by id find what a scan of the groups would find, whoever looks at the set of
\* groups on each of its changes knows its members, and a player sits in one team at most.
GroupsAgree ==
  subject = "groups" => G!LookupsAgree /\ G!NobodyIsBehind /\ G!TeamsAreExclusive
=============================================================================
