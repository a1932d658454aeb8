---------------------------- MODULE TraceWorkbench ----------------------------
(***************************************************************************)
(* The workbench of the Observatory: what the page keeps and asks for       *)
(* (observatory/src/App.tsx), and the listing, the traces, the deletions    *)
(* and the exports that the server answers with (observatory/server/app.ts).*)
(*                                                                          *)
(* The buttons are disabled while the page is busy, but Ctrl+Enter decodes  *)
(* the file to import whenever it is pressed, and the end of any operation  *)
(* ends the page's being busy.  Beside these run one refresh of the session *)
(* that is shown, and any listings.  Each waits for the server, and is      *)
(* applied to whatever the page shows by then.  One operation of the        *)
(* buttons and one decoding are under way at most, which is a bound: a      *)
(* decoding that ends enables the buttons under an operation.               *)
(***************************************************************************)
EXTENDS Naturals, FiniteSets

CONSTANTS
  Sessions,
  Past,       \* the sessions that are only archived when the page is opened
  Deletable,  \* the sessions of server-net packs; the others are of /connect packs
  File,       \* what an imported file shows
  None,
  Polls,      \* bound: listings at once, of the timer or after toggleStore()
  MaxFaults   \* bound: failed requests and lost connections

WorkbenchAssumption ==
  /\ Deletable \subseteq Sessions /\ Past \subseteq Sessions
  /\ File \notin Sessions /\ None \notin Sessions /\ File # None
  /\ "front" \notin Polls /\ MaxFaults \in Nat

VARIABLES
  alive,     \* sessions that have not ended
  held,      \* sessions that their pack has in its store
  archive,   \* sessions the Observatory has archived
  online,    \* the packs are connected
  rows,      \* `sources`: the sessions that are listed
  shown,     \* `result` and `analysis`: [sid, status], or None
  ref,       \* `selectedRef`
  key,       \* `selectedKey`
  isLive,    \* `isLive`
  busy,      \* `busy`
  decode,    \* decodeImport() is under way
  front,     \* None, or the operation of a button: [op, sid, stage, answer]
  back,      \* None, or the refresh for which `refreshing` is set: [sid, stage, answer]
  listing,   \* the listings under way: None, or [answered, rows]
  faults

worldVars == <<alive, held, archive, online, faults>>
viewVars == <<shown, ref, key, isLive>>
frontVars == <<busy, decode, front>>
vars == <<worldVars, rows, viewVars, frontVars, back, listing>>

Slots == Polls \union {"front"}

-----------------------------------------------------------------------------
(* The server *)

Reachable == IF online THEN held ELSE {}

\* GET /api/sessions: what the packs have, and what is archived besides.
Merged(live, archived) == live \union archived

\* GET /api/session/:id: from the archive, or from its pack.
Fetched(s) ==
  IF s \in archive THEN [ok |-> TRUE, status |-> "finished"]
  ELSE IF s \in Reachable
  THEN [ok |-> TRUE, status |-> IF s \in alive THEN "running" ELSE "finished"]
  ELSE [ok |-> FALSE, status |-> None]

Failed == [ok |-> FALSE, status |-> None]
Done == [ok |-> TRUE, status |-> None]

\* A request that fails for another reason.
Faulty == faults < MaxFaults /\ faults' = faults + 1

\* DELETE /api/net/session/:id; the pack deletes no session that runs.
Delete(s) ==
  /\ archive' = archive \ {s}
  /\ held' = IF online /\ s \notin alive THEN held \ {s} ELSE held

\* POST /api/net/clear
Clear ==
  /\ archive' = archive \ Deletable
  /\ held' = IF online THEN held \ (Deletable \ alive) ELSE held

\* POST /api/net/export, /api/connect/export: all that were listed, or an error.
Exported(asked) == IF \A s \in asked : Fetched(s).ok THEN Done ELSE Failed

-----------------------------------------------------------------------------
(* What the packs and the archiver do. *)

IsOver(s) ==
  /\ s \in alive
  /\ alive' = alive \ {s}
  /\ UNCHANGED <<held, archive, online, faults, rows, viewVars, frontVars, back, listing>>

Archives(s) ==
  /\ s \in Reachable \ alive
  /\ archive' = archive \union {s}
  /\ UNCHANGED <<alive, held, online, faults, rows, viewVars, frontVars, back, listing>>

Collects(s) ==
  /\ s \in held \ alive
  /\ held' = held \ {s}
  /\ UNCHANGED <<alive, archive, online, faults, rows, viewVars, frontVars, back, listing>>

Connection ==
  /\ online => Faulty
  /\ ~online => UNCHANGED faults
  /\ online' = ~online
  /\ UNCHANGED <<alive, held, archive, rows, viewVars, frontVars, back, listing>>

-----------------------------------------------------------------------------
(* The listings: refreshSources() *)

\* The server reads the archive, and then asks the packs.
Asked == [answered |-> FALSE, rows |-> archive]

\* The timer's, every 3 s, whether or not the last one has come.
Polled(i) ==
  /\ i \in Polls /\ listing[i] = None
  /\ listing' = [listing EXCEPT ![i] = Asked]
  /\ UNCHANGED <<worldVars, rows, viewVars, frontVars, back>>

Lists(i) ==
  /\ listing[i] # None
  /\ ~listing[i].answered
  /\ listing' = [listing EXCEPT ![i] = [answered |-> TRUE, rows |-> Merged(Reachable, @.rows)]]
  /\ UNCHANGED <<worldVars, rows, viewVars, frontVars, back>>

\* deleteSession() and clearGroup() wait for theirs.
Listed(i) ==
  /\ listing' = [listing EXCEPT ![i] = None]
  /\ front' = IF i = "front" THEN None ELSE front
  /\ busy' = (busy /\ i # "front")
  /\ UNCHANGED <<alive, held, archive, online, viewVars, decode, back>>

Shows(i) ==
  /\ listing[i] # None
  /\ listing[i].answered
  /\ rows' = listing[i].rows
  /\ Listed(i) /\ UNCHANGED faults

ListFails(i) ==
  /\ listing[i] # None
  /\ Faulty
  /\ Listed(i) /\ UNCHANGED rows

-----------------------------------------------------------------------------
(* The operations of the user's *)

\* A button is pressed, which is disabled while the page is busy.
Begins(op, s) ==
  /\ front = None /\ ~busy
  /\ busy' = TRUE
  /\ front' = [op |-> op, sid |-> s, stage |-> "asked", answer |-> Failed]
  /\ UNCHANGED <<worldVars, rows, viewVars, decode, back, listing>>

Selects(s) == s \in rows /\ Begins("load", s)
Deletes(s) == s \in rows \intersect Deletable /\ Begins("delete", s)
Clears == rows \intersect Deletable # {} /\ Begins("clear", None)
Exports(s) == s \in rows /\ Begins("export", s)

\* What the server answers, and what it does.
Answered(op, s, answer) ==
  /\ answer = CASE op = "load"   -> Fetched(s)
                [] op = "export" -> Exported({s})
                [] OTHER         -> Done
  /\ op = "delete" => Delete(s)
  /\ op = "clear" => Clear
  /\ op \notin {"delete", "clear"} => UNCHANGED <<held, archive>>

Answers == {Failed, Done} \union [ok : {TRUE}, status : {"running", "finished"}]

FrontAnswered(answer) ==
  /\ front # None
  /\ front.stage = "asked"
  /\ \/ Answered(front.op, front.sid, answer) /\ UNCHANGED faults
     \/ answer = Failed /\ Faulty /\ UNCHANGED <<held, archive>>
  /\ front' = [front EXCEPT !.stage = "answered", !.answer = answer]
  /\ UNCHANGED <<alive, online, rows, viewVars, busy, decode, back, listing>>

\* loadSession() shows what it has loaded.
Applies(s, status) ==
  /\ shown' = [sid |-> s, status |-> status]
  /\ ref' = s /\ key' = s /\ isLive' = TRUE

\* decodeImport() shows the file, which nothing is selected for.
ImportApplies ==
  /\ shown' = [sid |-> File, status |-> "finished"]
  /\ ref' = None /\ key' = None /\ isLive' = FALSE

\* deleteSession() closes the view of the session, whose row stays marked.
DeleteApplies(s) ==
  /\ IF ref = s THEN shown' = None /\ ref' = None ELSE UNCHANGED <<shown, ref>>
  /\ UNCHANGED <<key, isLive>>

FrontEnds ==
  /\ front # None
  /\ front.stage = "answered"
  /\ CASE ~front.answer.ok -> UNCHANGED viewVars
       [] front.answer.ok /\ front.op = "load" -> Applies(front.sid, front.answer.status)
       [] front.answer.ok /\ front.op = "delete" -> DeleteApplies(front.sid)
       [] OTHER -> UNCHANGED viewVars
  /\ IF front.answer.ok /\ front.op \in {"delete", "clear"}
     THEN /\ front' = [front EXCEPT !.stage = "listing"]
          /\ listing' = [listing EXCEPT !["front"] = Asked]
          /\ UNCHANGED busy
     ELSE front' = None /\ busy' = FALSE /\ UNCHANGED listing
  /\ UNCHANGED <<worldVars, rows, decode, back>>

\* "Start" or Ctrl+Enter, which does not ask whether the page is busy.
Imports ==
  /\ ~decode
  /\ decode' = TRUE /\ busy' = TRUE
  /\ UNCHANGED <<worldVars, rows, viewVars, front, back, listing>>

\* The server has decoded the file, or could not, or the request failed.
DecodeEnds ==
  /\ decode
  /\ ImportApplies \/ UNCHANGED viewVars
  /\ decode' = FALSE /\ busy' = FALSE
  /\ UNCHANGED <<worldVars, rows, front, back, listing>>

-----------------------------------------------------------------------------
(* The refresh of a running session that is shown *)

\* The effect has its timer.
Armed == isLive /\ shown # None /\ shown.status = "running" /\ ref # None

Ticks ==
  /\ Armed /\ ref \in rows
  /\ back = None
  /\ back' = [sid |-> ref, stage |-> "asked", answer |-> Failed]
  /\ UNCHANGED <<worldVars, rows, viewVars, frontVars, listing>>

BackAnswered(answer) ==
  /\ back # None
  /\ back.stage = "asked"
  /\ \/ answer = Fetched(back.sid) /\ UNCHANGED faults
     \/ answer = Failed /\ Faulty
  /\ back' = [back EXCEPT !.stage = "answered", !.answer = answer]
  /\ UNCHANGED <<alive, held, archive, online, rows, viewVars, frontVars, listing>>

BackEnds ==
  /\ back # None
  /\ back.stage = "answered"
  /\ IF back.answer.ok THEN Applies(back.sid, back.answer.status) ELSE UNCHANGED viewVars
  /\ back' = None
  /\ UNCHANGED <<worldVars, rows, frontVars, listing>>

-----------------------------------------------------------------------------
Init ==
  /\ alive = Sessions \ Past /\ held = Sessions \ Past
  /\ archive = Past /\ online = TRUE
  /\ rows = {}
  /\ shown = None /\ ref = None /\ key = None /\ isLive = FALSE
  /\ busy = FALSE /\ decode = FALSE /\ front = None /\ back = None
  /\ listing = [i \in Slots |-> None]
  /\ faults = 0

FrontStep == FrontEnds \/ \E a \in Answers : FrontAnswered(a)
BackStep == Ticks \/ BackEnds \/ \E a \in Answers : BackAnswered(a)
ListStep(i) == Lists(i) \/ Shows(i) \/ ListFails(i)

Next ==
  \/ \E s \in Sessions :
       IsOver(s) \/ Archives(s) \/ Collects(s) \/ Selects(s) \/ Deletes(s) \/ Exports(s)
  \/ Connection \/ Imports \/ Clears
  \/ FrontStep \/ DecodeEnds \/ BackStep
  \/ \E i \in Slots : Polled(i) \/ ListStep(i)

\* Every request is answered, with an error if need be; timers fire; a pack comes back.
Fairness ==
  /\ WF_vars(FrontStep) /\ WF_vars(DecodeEnds) /\ WF_vars(BackStep)
  /\ \A i \in Slots : WF_vars(Polled(i)) /\ WF_vars(ListStep(i))
  /\ WF_vars(~online /\ Connection)

Spec == Init /\ [][Next]_vars /\ Fairness

-----------------------------------------------------------------------------
\* What is shown is what is selected, though refreshes of a session that is no longer
\* shown or was deleted come late; a file is shown without a selection.
SelectionAgrees ==
  shown # None =>
    IF isLive THEN shown.sid = ref /\ ref = key
    ELSE shown.sid = File /\ ref = None /\ key = None

\* A running session that is shown has ended, and could be loaded from a row that is there.
LagsBehind ==
  /\ Armed
  /\ ref \notin alive
  /\ ref \in (archive \union Reachable) \intersect rows

\* The list is behind the server: a session that nobody has any more is listed, or one
\* that somebody has is not.
RowsBehind == rows # Merged(Reachable, archive)
=============================================================================
