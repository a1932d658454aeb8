--------------------------- MODULE RegionBoundary ---------------------------
(***************************************************************************)
(* The boundary of a region for the players of a source                     *)
(* (gameComponent/region/regionBoundary.ts, and regionMonitor.ts, which     *)
(* adapts it).  A scan walks a copy of the source; onEnter and onLeave run  *)
(* inside it and may change the source, move players, scan again or detach  *)
(* the component.                                                           *)
(***************************************************************************)
EXTENDS Naturals, Sequences

CONSTANTS
  Guests,     \* players that may be in the source
  None,
  MaxScans,   \* bound on scans inside callbacks of scans
  Careful     \* no callback detaches the component or scans

BoundaryAssumption ==
  /\ None \notin Guests \union {"enter", "leave", "in", "out"}
  /\ MaxScans \in Nat /\ Careful \in BOOLEAN

VARIABLES
  source,      \* who options.players resolves to
  present,     \* whose native player exists
  within,      \* who is inside the region
  bound,       \* the component is attached
  insideById,  \* what the last scan saw
  scans,       \* the scans under way, innermost last
  heard        \* history: the last each player was reported as, in this stay in the source

vars == <<source, present, within, bound, insideById, scans, heard>>

Scan == [todo |-> source, alive |-> {}, calls |-> None, event |-> None]

Inner == scans[Len(scans)]
Outer == SubSeq(scans, 1, Len(scans) - 1)

Init ==
  /\ source \in SUBSET Guests /\ present \in SUBSET Guests /\ within \in SUBSET present
  /\ bound = TRUE /\ insideById = [g \in {} |-> FALSE] /\ scans = <<>>
  /\ heard = [g \in Guests |-> None]

MayCall == scans # <<>> => Inner.calls # None

-----------------------------------------------------------------------------
(* Game code and the players *)

Enlist(g) ==
  /\ MayCall /\ g \notin source
  /\ source' = source \union {g} /\ heard' = [heard EXCEPT ![g] = None]
  /\ UNCHANGED <<present, within, bound, insideById, scans>>

Dismiss(g) ==
  /\ MayCall /\ g \in source
  /\ source' = source \ {g} /\ heard' = [heard EXCEPT ![g] = None]
  /\ UNCHANGED <<present, within, bound, insideById, scans>>

\* A player walks, or is teleported by a callback.
Moves(g) ==
  /\ MayCall /\ g \in present
  /\ within' = IF g \in within THEN within \ {g} ELSE within \union {g}
  /\ UNCHANGED <<source, present, bound, insideById, scans, heard>>

\* Who comes back is seen as new: joining takes longer than a scan's interval.
Quits(g) ==
  /\ scans = <<>> /\ g \in present
  /\ present' = present \ {g} /\ within' = within \ {g} /\ heard' = [heard EXCEPT ![g] = None]
  /\ UNCHANGED <<source, bound, insideById, scans>>

Comes(g) ==
  /\ scans = <<>> /\ g \notin present /\ g \notin DOMAIN insideById
  /\ present' = present \union {g}
  /\ UNCHANGED <<source, within, bound, insideById, scans, heard>>

Detach ==
  /\ MayCall /\ bound /\ (Careful => scans = <<>>)
  /\ bound' = FALSE /\ insideById' = [g \in {} |-> FALSE]
  /\ UNCHANGED <<source, present, within, scans, heard>>

-----------------------------------------------------------------------------
(* refresh() *)

\* By the interval while the component is attached, or from a callback.
RefreshBegins ==
  /\ bound /\ MayCall /\ Len(scans) < MaxScans /\ (Careful => scans = <<>>)
  /\ scans' = Append(scans, Scan)
  /\ UNCHANGED <<source, present, within, bound, insideById, heard>>

Known(g) == g \in DOMAIN insideById

\* Mutant: somebody outside is reported by every scan.
ReportEachScan(g) ==
  IF g \notin within THEN "leave" ELSE IF Known(g) /\ ~insideById[g] THEN "enter" ELSE None

\* Somebody who is new is reported only if he is outside, anybody else if he has crossed over.
Report(g) ==
  CASE g \notin within /\ (Known(g) => insideById[g]) -> "leave"
    [] g \in within /\ Known(g) /\ ~insideById[g] -> "enter"
    [] OTHER -> None

\* One player: written down first, reported afterwards.
See(g) ==
  /\ scans # <<>> /\ Inner.calls = None /\ g \in Inner.todo \intersect present
  /\ insideById' = [h \in DOMAIN insideById \union {g} |->
                      IF h = g THEN g \in within ELSE insideById[h]]
  /\ scans' = Append(Outer, [Inner EXCEPT !.todo = @ \ {g}, !.alive = @ \union {g},
                               !.event = Report(g), !.calls = IF Report(g) = None THEN None ELSE g])
  /\ heard' = IF Known(g) /\ Report(g) = None THEN heard
              ELSE [heard EXCEPT ![g] = IF g \in within THEN "in" ELSE "out"]
  /\ UNCHANGED <<source, present, within, bound>>

Overlook(g) ==
  /\ scans # <<>> /\ Inner.calls = None /\ g \in Inner.todo \ present
  /\ scans' = Append(Outer, [Inner EXCEPT !.todo = @ \ {g}])
  /\ UNCHANGED <<source, present, within, bound, insideById, heard>>

CallbackReturns ==
  /\ scans # <<>> /\ Inner.calls # None
  /\ scans' = Append(Outer, [Inner EXCEPT !.calls = None, !.event = None])
  /\ UNCHANGED <<source, present, within, bound, insideById, heard>>

\* Who was not in this scan is forgotten.
RefreshEnds ==
  /\ scans # <<>> /\ Inner.calls = None /\ Inner.todo = {}
  /\ insideById' = [g \in DOMAIN insideById \intersect Inner.alive |-> insideById[g]]
  /\ scans' = Outer
  /\ UNCHANGED <<source, present, within, bound, heard>>

Next ==
  \/ Detach \/ RefreshBegins \/ CallbackReturns \/ RefreshEnds
  \/ \E g \in Guests : Enlist(g) \/ Dismiss(g) \/ Moves(g) \/ Quits(g) \/ Comes(g) \/ See(g) \/ Overlook(g)

Spec == Init /\ [][Next]_vars

-----------------------------------------------------------------------------
(* Properties *)

Reported(g) ==
  scans # <<>> /\ Len(scans') = Len(scans) /\ Inner.calls = None /\ Inner'.calls = g

\* A player who stays in the source is reported to enter and to leave in turns, and one who
\* stays outside is reported once (regionBoundary.ts:19-24).
ReportsAlternate ==
  \A g \in Guests :
    Reported(g) => heard[g] # (IF Inner'.event = "leave" THEN "out" ELSE "in")
=============================================================================
