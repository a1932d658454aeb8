------------------------------- MODULE Sidebar -------------------------------
(***************************************************************************)
(* The scoreboard at the side of the screen: the component that renders      *)
(* lines when signals say so (core/gameComponent/view/infoScoreboard.ts),    *)
(* and the view that writes them to an objective of the world                *)
(* (core/gameComponent/view/sidebarScoreboard.ts).                           *)
(*                                                                           *)
(* All boards here are of one objective id.  The world keeps the objective   *)
(* when the scripts are reloaded, and commands may remove it, add it anew    *)
(* and show something else; they leave the scores of it alone.               *)
(***************************************************************************)
EXTENDS Naturals, Sequences, FiniteSets

CONSTANTS
  None,
  Boards,
  Providers,  \* the boards with a `lines` option; the others are told their lines
  Contents    \* what the lines may be

Entry == [line : STRING, nth : Nat, score : Nat]
View == [objective : Nat \union {None}, entries : SUBSET Entry]
Objective == [id : Nat, scores : SUBSET Entry, stray : BOOLEAN]

SidebarAssumption ==
  /\ None \notin View /\ None \notin Objective
  /\ IsFiniteSet(Boards) /\ Providers \subseteq Boards /\ None \notin Boards \union Nat
  /\ Contents # {} /\ \A c \in Contents : c \in Seq(STRING)
  /\ "other" \in STRING \* the line of others; the provers know of no literal what it is

VARIABLES
  owner,      \* `activeObjectiveOwners` of the id: a board or None
  view,       \* of each board, None or its view: [objective, entries]
  lines,      \* `currentLines` of each board
  pending,    \* boards with a `pendingRefresh`
  source,     \* what the lines option gives now
  outdated,   \* boards whose last refresh has thrown, or whose objective was removed since
  objective,  \* of the world: None or [id, scores, stray]
  shown       \* the objective in the sidebar, or None

vars == <<owner, view, lines, pending, source, outdated, objective, shown>>

Attached == {b \in Boards : view[b] # None}

\* Objects of the world, of which the old ones are told from the new.
Ids == 1..(Cardinality(Boards) + 2)
FreshId ==
  CHOOSE i \in Ids : (objective # None => objective.id # i)
                     /\ \A b \in Attached : view[b].objective # i

-----------------------------------------------------------------------------
(* SidebarScoreboardView *)

\* makeUniqueLines() and the scores: the n-th line like it is told from the others.
Entries(content) ==
  {[line |-> content[i], nth |-> Cardinality({j \in 1..i : content[j] = content[i]}),
    score |-> Len(content) - i] : i \in DOMAIN content}

IsValid(v) == v.objective # None /\ objective # None /\ objective.id = v.objective

\* Mutant: an objective that is found is taken over with what it has.
ObtainedAsItIs(v) ==
  IF IsValid(v) THEN [v |-> v, o |-> objective]
  ELSE LET o == IF objective # None THEN [objective EXCEPT !.stray = FALSE]
                ELSE [id |-> FreshId, scores |-> {}, stray |-> FALSE]
       IN [v |-> [objective |-> o.id, entries |-> {}], o |-> o]

\* getObjective(): the view's, or the one that is found or added, without its scores.
Obtained(v) ==
  IF IsValid(v) THEN [v |-> v, o |-> objective]
  ELSE LET o == [id |-> IF objective # None THEN objective.id ELSE FreshId,
                 scores |-> {}, stray |-> FALSE]
       IN [v |-> [objective |-> o.id, entries |-> {}], o |-> o]

\* updateLines() writes the differences.
Updated(v, content) ==
  LET got == Obtained(v)
      next == Entries(content)
      gone == {e \in got.v.entries : \A n \in next : n.line # e.line \/ n.nth # e.nth}
      kept == {e \in got.o.scores \ gone : \A n \in next \ got.v.entries :
                 n.line # e.line \/ n.nth # e.nth}
  IN [v |-> [got.v EXCEPT !.entries = next],
      o |-> [got.o EXCEPT !.scores = kept \union (next \ got.v.entries)]]

Uses(b, used) ==
  /\ view' = [view EXCEPT ![b] = used.v]
  /\ objective' = used.o

\* dispose()
Disposes(b) ==
  LET valid == view[b] # None /\ IsValid(view[b])
  IN /\ view' = [view EXCEPT ![b] = None]
     /\ shown' = IF valid /\ shown = view[b].objective THEN None ELSE shown
     /\ objective' = IF valid THEN None ELSE objective
     /\ owner' = IF owner = b THEN None ELSE owner

-----------------------------------------------------------------------------
(* SidebarScoreboard *)

Renders(b, v, content) ==
  /\ Uses(b, Updated(v, content))
  /\ lines' = [lines EXCEPT ![b] = content]
  /\ outdated' = outdated \ {b}

\* Shown at once, if at all; a view cannot be made while another has the id, and an attach
\* that fails later on takes back what it made.
Attach(b, show) ==
  /\ b \notin Attached /\ owner = None
  /\ owner' = b
  /\ Renders(b, [objective |-> None, entries |-> {}], IF b \in Providers THEN source ELSE <<>>)
  /\ shown' = IF show THEN objective'.id ELSE shown
  /\ UNCHANGED <<pending, source>>

AttachThrows(b) ==
  /\ b \in Providers /\ b \notin Attached /\ owner = None
  /\ objective' = None
  /\ shown' = IF objective # None /\ shown = objective.id THEN None ELSE shown
  /\ UNCHANGED <<owner, view, lines, pending, source, outdated>>

Detach(b) ==
  /\ b \in Attached
  /\ Disposes(b)
  /\ pending' = pending \ {b}
  /\ outdated' = outdated \ {b}
  /\ lines' = [lines EXCEPT ![b] = <<>>]
  /\ UNCHANGED source

\* What the lines are made of changes, and a signal of `refreshOn` tells it.
Changes(content) ==
  /\ source' = content
  /\ pending' = pending \union (Attached \intersect Providers)
  /\ UNCHANGED <<owner, view, lines, outdated, objective, shown>>

\* A tick later, whatever signals came meanwhile; the lines or their header may throw.
Refresh(b) ==
  /\ b \in pending
  /\ pending' = pending \ {b}
  /\ \/ Renders(b, view[b], source)
     \/ outdated' = outdated \union {b} /\ UNCHANGED <<view, objective, lines>>
  /\ UNCHANGED <<owner, source, shown>>

\* updateLines(), show() and hide(), of the game.
Told(b, content) ==
  /\ b \in Attached \ Providers
  /\ Renders(b, view[b], content)
  /\ UNCHANGED <<owner, pending, source, shown>>

Show(b) ==
  /\ b \in Attached
  /\ IF b \in Providers THEN Renders(b, view[b], source)
     ELSE Uses(b, Obtained(view[b])) /\ UNCHANGED <<lines, outdated>>
  /\ shown' = objective'.id
  /\ UNCHANGED <<owner, pending, source>>

Hide(b) ==
  /\ b \in Attached
  /\ IsValid(view[b]) /\ shown = view[b].objective
  /\ shown' = None
  /\ UNCHANGED <<owner, view, lines, pending, source, outdated, objective>>

-----------------------------------------------------------------------------
(* Commands, and a reload of the scripts *)

Removed ==
  /\ objective # None
  /\ objective' = None
  /\ shown' = IF shown = objective.id THEN None ELSE shown
  /\ outdated' = outdated \union Attached
  /\ UNCHANGED <<owner, view, lines, pending, source>>

Added ==
  /\ objective = None
  /\ objective' = [id |-> FreshId, scores |-> {[line |-> "other", nth |-> 1, score |-> 0]},
                   stray |-> TRUE]
  /\ UNCHANGED <<owner, view, lines, pending, source, outdated, shown>>

Reloaded ==
  /\ owner # None
  /\ owner' = None /\ view' = [b \in Boards |-> None] /\ pending' = {} /\ outdated' = {}
  /\ lines' = [b \in Boards |-> <<>>]
  /\ objective' = IF objective = None THEN None ELSE [objective EXCEPT !.stray = TRUE]
  /\ UNCHANGED <<source, shown>>

-----------------------------------------------------------------------------
Init ==
  /\ owner = None /\ view = [b \in Boards |-> None] /\ lines = [b \in Boards |-> <<>>]
  /\ pending = {} /\ outdated = {} /\ source \in Contents
  /\ objective = None /\ shown = None

Next ==
  \/ \E b \in Boards :
       \/ Attach(b, TRUE) \/ Attach(b, FALSE) \/ AttachThrows(b) \/ Detach(b)
       \/ Refresh(b) \/ Show(b) \/ Hide(b)
       \/ \E c \in Contents : Told(b, c)
  \/ \E c \in Contents : Changes(c)
  \/ Removed \/ Added \/ Reloaded

Spec == Init /\ [][Next]_vars

-----------------------------------------------------------------------------
\* One board at most has the id; what the world shows of its objective is what the view has
\* written, and that is the lines of the board; and these are the latest, or a refresh is to
\* come, unless the last one has thrown or a command has removed the objective since.
\* An objective that no view has is not of this run of the scripts.
SidebarIsSound ==
  /\ Attached = IF owner = None THEN {} ELSE {owner}
  /\ objective # None => objective.stray \/ \E b \in Attached : IsValid(view[b])
  /\ pending \subseteq Attached
  /\ \A b \in Attached :
       /\ IsValid(view[b]) => objective.scores = view[b].entries
       /\ b \notin outdated => IsValid(view[b]) /\ view[b].entries = Entries(lines[b])
       /\ b \in Providers \ (outdated \union pending) => lines[b] = source
=============================================================================
