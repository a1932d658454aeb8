----------------------------- MODULE Membership -----------------------------
(***************************************************************************)
(* What the participation authority promises, with one relation in place   *)
(* of the two indices the code keeps: who takes part in which game, how a  *)
(* batch is admitted and what may be released in one step.                 *)
(***************************************************************************)

CONSTANTS
  Players,     \* stable player ids
  Games,       \* game keys whose participation is tracked
  Policies     \* the policies setPolicy() may install

VARIABLES
  policy,      \* the installed ParticipationPolicy
  members      \* the relation: <<p, g>> when p takes part in g

absVars == <<policy, members>>

GamesOf(p) == {g \in Games : <<p, g>> \in members}

Init ==
  /\ policy \in Policies
  /\ members = {}

\* Under the exclusive policy a player who takes part in another game is refused.
Admissible(p, g) ==
  policy = "exclusive" => GamesOf(p) \subseteq {g}

\* A batch enters one game, whole and only if every player of it is admissible.
Admit(ps, g) ==
  /\ \A p \in ps : Admissible(p, g)
  /\ members' = members \union (ps \X {g})
  /\ UNCHANGED policy

\* One player leaves one or all games, or one game releases one or all players.
Release(ps, gs) ==
  /\ (\E p \in Players : ps = {p}) \/ (\E g \in Games : gs = {g})
  /\ members' = members \ (ps \X gs)
  /\ UNCHANGED policy

Install(pol) ==
  /\ policy' = pol
  /\ UNCHANGED members

Next ==
  \/ \E ps \in SUBSET Players, g \in Games : Admit(ps, g)
  \/ \E ps \in SUBSET Players, gs \in SUBSET Games : Release(ps, gs)
  \/ \E pol \in Policies : Install(pol)

Spec == Init /\ [][Next]_absVars
=============================================================================
