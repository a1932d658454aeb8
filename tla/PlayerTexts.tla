----------------------------- MODULE PlayerTexts -----------------------------
(***************************************************************************)
(* The texts over players' heads (core/gameComponent/view/                   *)
(* playerTextPrimitive.ts): one primitive of the world for each player of a  *)
(* source, made anew or removed as players come and go, as the component is  *)
(* hidden and shown, attached and detached; and who may read it.             *)
(*                                                                           *)
(* The world shows a primitive whose viewers are the empty list to           *)
(* everybody.  The game's own filter of viewers does not throw.              *)
(***************************************************************************)
EXTENDS Naturals, FiniteSets

CONSTANTS
  None,
  Players,
  Words,   \* what text() may answer
  MaxRuns  \* bounds the calls queued with system.run

TextsAssumption ==
  /\ None \notin Players /\ MaxRuns \in Nat
  /\ Words # {} /\ Words \subseteq STRING \ {""}
  /\ None \notin [text : Words \union {""}, viewers : SUBSET Players]

VARIABLES
  phase,       \* "new", "attached" or "detached"
  visible,
  runs,        \* refreshes queued with system.run
  visibleTo,   \* the option: "all", "self", "others", or "mates", a filter of the game's
  members,     \* the players the source resolves to
  online,      \* the players of the world
  team,        \* what the filter decides by
  says,        \* what text() answers for a player: a word, or None if it throws
  primitives,  \* the map: the players that have an entry
  world        \* of each player, None or the primitive attached to him: [text, viewers]

vars == <<phase, visible, runs, visibleTo, members, online, team, says, primitives, world>>

givenVars == <<visibleTo, members, online, team, says>>

-----------------------------------------------------------------------------
\* The filter: team mates, but not the player himself.
Mates(p) == {q \in online \ {p} : team[q] = team[p]}

\* resolvePlayerEntries(), without those that have no entity.
Present == members \intersect online

Has(p) == p \in primitives

\* applyVisibility() of one that has a text; None if it removes the primitive.
Viewed(p, text) ==
  LET viewers == CASE visibleTo = "mates" -> Mates(p)
                   [] visibleTo = "self" -> {p}
                   [] visibleTo = "others" -> online \ {p}
                   [] OTHER -> {}
  IN IF visibleTo = "mates" /\ viewers = {} THEN None
     ELSE [text |-> text, viewers |-> viewers]

\* The turn of refresh() for p: `added` are those addText() does not refuse, `lost` those whose
\* setText() throws.  A text that is not replaced stays as it is.
Turn(p, added, lost) ==
  IF ~Has(p) /\ p \notin added THEN None
  ELSE IF says[p] = None \/ p \in lost
       THEN IF Has(p) THEN world[p] ELSE [text |-> "", viewers |-> {}]
  ELSE Viewed(p, says[p])

\* clearPrimitives()
Clear ==
  /\ primitives' = {}
  /\ world' = [p \in Players |-> IF Has(p) THEN None ELSE world[p]]

\* refresh(): a turn for each player that is there, then the others' texts are removed.
Refresh(added, lost) ==
  IF ~visible \/ phase # "attached" THEN Clear
  ELSE LET turn == [p \in Present |-> Turn(p, added, lost)]
       IN /\ primitives' = {p \in Present : turn[p] # None}
          /\ world' = [p \in Players |-> IF p \in Present THEN turn[p]
                                         ELSE IF Has(p) THEN None ELSE world[p]]

Outcomes == {o \in (SUBSET Players) \X (SUBSET Players) : o[1] \union o[2] \subseteq Present}

-----------------------------------------------------------------------------
\* onAttach(): the first refresh waits until the world may be changed.
Attach ==
  /\ phase = "new" /\ runs < MaxRuns
  /\ phase' = "attached" /\ runs' = runs + 1
  /\ UNCHANGED <<visible, primitives, world, givenVars>>

\* _onDetach(): the interval is unsubscribed, what is queued is not.
Detach ==
  /\ phase = "attached"
  /\ Clear
  /\ phase' = "detached"
  /\ UNCHANGED <<visible, runs, givenVars>>

Show ==
  /\ runs < MaxRuns
  /\ visible' = TRUE /\ runs' = runs + 1
  /\ UNCHANGED <<phase, primitives, world, givenVars>>

Hide ==
  /\ visible' = FALSE
  /\ Clear
  /\ UNCHANGED <<phase, runs, givenVars>>

\* A call that was queued.
Run ==
  /\ runs > 0
  /\ runs' = runs - 1
  /\ \E o \in Outcomes : Refresh(o[1], o[2])
  /\ UNCHANGED <<phase, visible, givenVars>>

\* The interval, or a call of the game's.
Interval ==
  /\ phase = "attached"
  /\ \E o \in Outcomes : Refresh(o[1], o[2])
  /\ UNCHANGED <<phase, visible, runs, givenVars>>

\* The game, its players and their texts go on.
Changes ==
  /\ \/ /\ \E m \in SUBSET Players : members' = m
        /\ UNCHANGED <<online, team, says>>
     \/ /\ \E o \in SUBSET Players : online' = o
        /\ UNCHANGED <<members, team, says>>
     \/ /\ \E p \in Players, t \in {1, 2} : team' = [team EXCEPT ![p] = t]
        /\ UNCHANGED <<members, online, says>>
     \/ /\ \E p \in Players, w \in Words \union {None} : says' = [says EXCEPT ![p] = w]
        /\ UNCHANGED <<members, online, team>>
  /\ UNCHANGED <<phase, visible, runs, visibleTo, primitives, world>>

Init ==
  /\ phase = "new" /\ visible = TRUE /\ runs = 0
  /\ visibleTo \in {"all", "self", "others", "mates"}
  /\ members = {} /\ online = Players
  /\ team = [p \in Players |-> 1]
  /\ says \in [Players -> Words]
  /\ primitives = {} /\ world = [p \in Players |-> None]

Next == Attach \/ Detach \/ Show \/ Hide \/ Run \/ Interval \/ Changes

Spec == Init /\ [][Next]_vars

-----------------------------------------------------------------------------
TypeOK ==
  /\ phase \in {"new", "attached", "detached"} /\ visible \in BOOLEAN /\ runs \in 0..MaxRuns
  /\ visibleTo \in {"all", "self", "others", "mates"}
  /\ members \subseteq Players /\ online \subseteq Players /\ primitives \subseteq Players
  /\ team \in [Players -> {1, 2}] /\ says \in [Players -> Words \union {None}]
  /\ \A p \in Players : world[p] # None =>
       world[p] \in [text : Words \union {""}, viewers : SUBSET Players]

\* No text is left in the world without an entry that has it removed; there is none while the
\* component is hidden, or when it is detached, whatever was queued before; and a text that a
\* filter has nobody read, or only its player, is not shown to everybody.
TextsAreSound ==
  /\ primitives = {p \in Players : world[p] # None}
  /\ (~visible \/ phase # "attached") => primitives = {}
  /\ visibleTo \in {"self", "mates"} =>
       \A p \in primitives : world[p].text # "" => world[p].viewers # {}
=============================================================================
