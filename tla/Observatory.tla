----------------------------- MODULE Observatory -----------------------------
(*****************************************************************************)
(* The Observatory's copy of a pack's traces: the WebSocket bridge           *)
(* (observatory/server/net.ts), the requests the pack serves on it           *)
(* (trace/src/serverNet.ts), the archive with its sweeps                     *)
(* (observatory/server/archive.ts) and the deletions of the workbench        *)
(* (observatory/server/app.ts).                                              *)
(*                                                                           *)
(* Two processes and a socket between them.  Each caller of the bridge (the  *)
(* sweep, and every request of the workbench) awaits one reply at a time and *)
(* goes on in the turn in which its promise settles.  The pack keeps one     *)
(* snapshot for all callers.  Both ends may lose the connection at different *)
(* times, a request may time out while it is under way, and the Observatory  *)
(* may be killed between two writes.                                         *)
(*****************************************************************************)
EXTENDS Naturals, Sequences, FiniteSets, SequencesExt

CONSTANTS
  Sessions,   \* trace sessions of one pack
  Conns,      \* bound: connections open at once
  Users,      \* bound: requests of the workbench that are served at once
  None,
  Parts,      \* bound: parts of every trace
  Cap,        \* maxPerSweep
  MaxLate     \* bound: deletions under way that nobody waits for any more

Sweep == "sweep"
Callers == Users \union {Sweep}

ASSUME ObservatoryAssumption ==
  /\ None \notin Sessions /\ None \notin Conns /\ None \notin Callers
  /\ None \notin {"partial", "whole", "torn", "unlisted"}
  /\ Sweep \notin Users
  /\ Parts \in Nat \ {0} /\ Cap \in Nat \ {0} /\ MaxLate \in Nat

VARIABLES
  store,    \* the pack's history store: the status of each session
  cached,   \* the pack's snapshot, None or of one session
  socket,   \* the pack's connection
  conns,    \* the connections as the server sees them
  route,    \* `ready` for the pack's id
  outbox,   \* requests under way to the pack, by connection
  inbox,    \* and what is under way from it
  job,      \* what each caller is doing, and
  link,     \* the connection its request is pending on
  file,     \* <session>.begtrace on disk; "unlisted" has no <session>.json
  deleted,  \* history: sessions the workbench deleted, confirmed by the pack
  revived   \* history: sessions that a sweep saved although their deletion had begun

packVars == <<store, cached, socket>>
history == <<deleted, revived>>
vars == <<packVars, conns, route, outbox, inbox, job, link, file, history>>

\* doomed: the deletion of the trace that is being downloaded has begun.
Idle == [op |-> "idle", sid |-> None, part |-> 0, bytes |-> None, todo |-> {}, saved |-> 0,
         doomed |-> FALSE]

Request(k, j) == [for |-> k, op |-> j.op, sid |-> j.sid]

(*****************************************************************************)
(* The pack.                                                                 *)
(*****************************************************************************)

\* snapshotBytes() of a stored session, which flushes a running one
Snapshot(s) == [sid |-> s, bytes |-> IF store[s] = "finished" THEN "whole" ELSE "partial"]

\* Mutant: begin answers with the snapshot it has, if it is of that session.
BeginCached(s) == IF cached # None /\ cached.sid = s THEN cached ELSE Snapshot(s)

\* What begin encodes, and keeps
Begin(s) == Snapshot(s)

\* perform() throws for what it does not have.
Refuses(r) ==
  \/ r.op = "begin" /\ store[r.sid] = "gone"
  \/ r.op = "part" /\ (cached = None \/ cached.sid # r.sid)

\* What a request deletes: nothing that is running.  (A session that a script reload has
\* cut off counts as running until it is recovered, see TraceHistory.)
Deletes(r) ==
  {s \in Sessions : /\ store[s] = "finished"
                    /\ r.op = "clear" \/ (r.op = "delete" /\ r.sid = s)}

\* list() of the store
Listing == [listed |-> {s \in Sessions : store[s] # "gone"},
            running |-> {s \in Sessions : store[s] = "running"}]

\* The reply to a request, with what it carries
Reply(r) ==
  [for |-> r.for, op |-> r.op, ok |-> ~Refuses(r),
   data |-> IF Refuses(r) THEN None
            ELSE CASE r.op = "list"  -> Listing
                   [] r.op = "begin" -> Begin(r.sid).bytes
                   [] r.op = "part"  -> cached.bytes
                   [] OTHER          -> Deletes(r)]

(* handle(): performs the request and answers it; a send that throws is only *)
(* reported.  The answer to what was given up is dropped on arrival.         *)
Handle(c) ==
  /\ socket = c
  /\ outbox[c] # <<>>
  /\ LET r == Head(outbox[c])
     IN /\ store' = [s \in Sessions |-> IF s \in Deletes(r) THEN "gone" ELSE store[s]]
        /\ cached' = IF r.op = "begin" /\ ~Refuses(r) THEN Begin(r.sid) ELSE cached
        /\ \/ r.for # None /\ inbox' = [inbox EXCEPT ![c] = Append(@, Reply(r))]
           \/ inbox' = inbox
  /\ outbox' = [outbox EXCEPT ![c] = Tail(@)]
  /\ UNCHANGED <<socket, conns, route, job, link, file, history>>

\* connect(): a new socket, whose first message is the handshake.
Dial(c) ==
  /\ socket = None
  /\ conns[c] = "closed"
  /\ socket' = c
  /\ conns' = [conns EXCEPT ![c] = "open"]
  /\ inbox' = [inbox EXCEPT ![c] = <<[for |-> None, op |-> "ready", ok |-> TRUE, data |-> None]>>]
  /\ UNCHANGED <<store, cached, route, outbox, job, link, file, history>>

(* The pack loses its socket, and what is under way to it is lost; the server  *)
(* is not told yet.  (A reload of the scripts drops the snapshot, too, but all *)
(* callers begin anew on a new connection.)                                    *)
Drop ==
  /\ socket # None
  /\ socket' = None
  /\ outbox' = [outbox EXCEPT ![socket] = <<>>]
  /\ UNCHANGED <<store, cached, conns, route, inbox, job, link, file, history>>

\* A session ends, or falls to the retention rules (TraceHistory).
Runs(s) ==
  /\ \/ store[s] = "running" /\ store' = [store EXCEPT ![s] = "finished"]
     \/ store[s] = "finished" /\ store' = [store EXCEPT ![s] = "gone"]
  /\ UNCHANGED <<cached, socket, conns, route, outbox, inbox, job, link, file, history>>

(*****************************************************************************)
(* The callers.                                                              *)
(*****************************************************************************)

(* The loop of sweep(): the next session that the archive has not, while the *)
(* cap allows and the pack is found (on # None).  A download of the          *)
(* workbench is followed by nothing.                                         *)
Onward(j, on, files) ==
  LET missing == {s \in j.todo : files[s] = None}
  IN IF on = None \/ j.saved >= Cap \/ missing = {}
     THEN {Idle}
     ELSE {[Idle EXCEPT !.op = "begin", !.sid = s, !.saved = j.saved,
                        !.todo = missing \ {s}] : s \in missing}

\* The requests with one more of caller k, for job j, on connection c; what is sent to a
\* socket that the pack has left is lost.
With(box, k, j, c) ==
  IF j.op = "idle" \/ c # socket THEN box ELSE [box EXCEPT ![c] = Append(@, Request(k, j))]

Waits(j, c) == IF j.op = "idle" THEN None ELSE c

\* Caller k does j next; what it asks for, it asks on connection c.
Goes(k, j, c) ==
  /\ job' = [job EXCEPT ![k] = j]
  /\ link' = [link EXCEPT ![k] = Waits(j, c)]
  /\ outbox' = With(outbox, k, j, c)

(*****************************************************************************)
(* The bridge of the server.                                                 *)
(*****************************************************************************)

(* rejectPending() of the connections C, and what the callers make of it: a  *)
(* sweep goes on with its next download, over the connection `on`.           *)
Reject(C, on) ==
  LET cut == {k \in Callers : link[k] \in C}
      left == [c \in Conns |-> IF c \in C THEN <<>> ELSE outbox[c]]
  IN \E next \in Onward(job[Sweep], on, file) :
       LET after(k) == IF k = Sweep THEN next ELSE Idle
       IN /\ job' = [k \in Callers |-> IF k \in cut THEN after(k) ELSE job[k]]
          /\ link' = [k \in Callers |-> IF k \in cut THEN Waits(after(k), on) ELSE link[k]]
          /\ outbox' = IF Sweep \in cut THEN With(left, Sweep, next, on) ELSE left

Arrives(c, op) == conns[c] # "closed" /\ inbox[c] # <<>> /\ Head(inbox[c]).op = op

\* Mutant: the stale socket is not closed; it is only no longer found.
ReadyKeepsStale(c) ==
  /\ Arrives(c, "ready")
  /\ conns' = [conns EXCEPT ![c] = "ready"]
  /\ route' = c
  /\ inbox' = [inbox EXCEPT ![c] = Tail(@)]
  /\ UNCHANGED <<packVars, outbox, job, link, file, history>>

\* onMessage() of a handshake: a reconnecting pack replaces its stale socket.
Ready(c) ==
  /\ Arrives(c, "ready")
  /\ LET stale == {route} \ {None, c}
     IN /\ conns' = [d \in Conns |-> IF d = c THEN "ready"
                                     ELSE IF d \in stale THEN "closed" ELSE conns[d]]
        /\ inbox' = [d \in Conns |-> IF d = c THEN Tail(inbox[d])
                                     ELSE IF d \in stale THEN <<>> ELSE inbox[d]]
        /\ Reject(stale, c)
  /\ route' = c
  /\ UNCHANGED <<packVars, file, history>>

\* onClose(), some time after the pack has left the connection.  (Were the server to hear
\* of it first, nothing would pass in between.)
Lost(c) ==
  /\ conns[c] # "closed"
  /\ socket # c
  /\ conns' = [conns EXCEPT ![c] = "closed"]
  /\ inbox' = [inbox EXCEPT ![c] = <<>>]
  /\ route' = IF route = c THEN None ELSE route
  /\ Reject({c}, route')
  /\ UNCHANGED <<packVars, file, history>>

\* A caller has one request under way at most; its place among those of queue q
Has(q, k) == \E i \in DOMAIN q : q[i].for = k

PlaceOf(q, k) == CHOOSE i \in DOMAIN q : q[i].for = k

Forget(q, k) == IF Has(q, k) THEN RemoveAt(q, PlaceOf(q, k)) ELSE q

(* The request of caller k becomes nobody's.  Only deletions are carried out   *)
(* all the same: a late begin does to others what any download does to them,   *)
(* and a late list or part nothing.                                            *)
GivenUp(q, k) ==
  IF Has(q, k) /\ q[PlaceOf(q, k)].op \in {"delete", "clear"}
  THEN [q EXCEPT ![PlaceOf(q, k)].for = None]
  ELSE Forget(q, k)

Abandoned(k) == [c \in Conns |-> GivenUp(outbox[c], k)]

\* Bound: how many deletions nobody waits for.
MayBeLate(box) ==
  Cardinality(UNION {{<<c, i>> : i \in {n \in DOMAIN box[c] : box[c][n].for = None}} : c \in Conns})
    <= MaxLate

\* Mutant: the request is forgotten, and its promise never settles.
TimeoutForgets(k) ==
  /\ link[k] # None
  /\ MayBeLate(Abandoned(k))
  /\ link' = [link EXCEPT ![k] = None]
  /\ outbox' = Abandoned(k)
  /\ inbox' = [c \in Conns |-> Forget(inbox[c], k)]
  /\ UNCHANGED <<packVars, conns, route, job, file, history>>

\* The timer of a request: its promise is rejected, though it may still be carried out.
Timeout(k) ==
  /\ link[k] # None
  /\ MayBeLate(Abandoned(k))
  /\ inbox' = [c \in Conns |-> Forget(inbox[c], k)]
  /\ \E j \in Onward(job[k], route, file) :
       /\ job' = [job EXCEPT ![k] = j]
       /\ link' = [link EXCEPT ![k] = Waits(j, route)]
       /\ outbox' = With(Abandoned(k), k, j, route)
  /\ UNCHANGED <<packVars, conns, route, file, history>>

\* onMessage() of the reply that caller k waits for
Answered(c, k, op) ==
  /\ Arrives(c, op)
  /\ Head(inbox[c]).for = k
  /\ inbox' = [inbox EXCEPT ![c] = Tail(@)]
  /\ UNCHANGED <<packVars, conns, route>>

\* The caller goes on with its next download after a failure.
GoesOn(k) == \E j \in Onward(job[k], route, file) : Goes(k, j, route)

\* A reply that is not ok is thrown.
Refused(c, k) ==
  /\ \E op \in {"begin", "part"} : Answered(c, k, op)
  /\ ~Head(inbox[c]).ok
  /\ GoesOn(k)
  /\ UNCHANGED <<file, history>>

\* What a reply brings of a trace; what the workbench downloads is not looked at here.
Kept(c, k) == IF k = Sweep THEN Head(inbox[c]).data ELSE None

\* download(), after begin
Begun(c, k) ==
  /\ Answered(c, k, "begin")
  /\ Head(inbox[c]).ok
  /\ Goes(k, [job[k] EXCEPT !.op = "part", !.bytes = Kept(c, k)], c)
  /\ UNCHANGED <<file, history>>

(* What has been downloaded with the part that came.  Parts of two snapshots *)
(* have not the length that begin said, or do not decode.                    *)
Received(c, k) ==
  [job[k] EXCEPT !.part = @ + 1, !.bytes = IF @ = Kept(c, k) THEN @ ELSE "torn"]

GotPart(c, k) ==
  /\ Answered(c, k, "part")
  /\ Head(inbox[c]).ok
  /\ Received(c, k).part < Parts
  /\ Goes(k, Received(c, k), c)
  /\ UNCHANGED <<file, history>>

\* What has come is the last part of a download.
Completes(c, k) == Head(inbox[c]).ok /\ Received(c, k).part = Parts

\* The download failed its checks, or was the workbench's, or the disk takes no file.
Ends(c, k) ==
  /\ Answered(c, k, "part")
  /\ Completes(c, k)
  /\ GoesOn(k)
  /\ UNCHANGED <<file, history>>

(*****************************************************************************)
(* The archive.                                                              *)
(*****************************************************************************)

(* save() of the finished download j: the trace is renamed into place, then  *)
(* its record is written, unless that fails.                                 *)
Stores(j, recorded) ==
  /\ j.bytes # "torn"
  /\ file' = [file EXCEPT ![j.sid] = IF recorded THEN j.bytes ELSE "unlisted"]
  /\ revived' = IF j.doomed THEN revived \union {j.sid} ELSE revived
  /\ UNCHANGED deleted

Save(c) ==
  /\ Answered(c, Sweep, "part")
  /\ Completes(c, Sweep)
  /\ \E n \in 0..1 :
       LET j == Received(c, Sweep)
       IN /\ Stores(j, n = 1)
          /\ \E next \in Onward([j EXCEPT !.saved = @ + n], route, file') : Goes(Sweep, next, route)

\* sweep(): unless one is under way, or no pack is connected
SweepBegins ==
  /\ job[Sweep] = Idle
  /\ route # None
  /\ Goes(Sweep, [Idle EXCEPT !.op = "list"], route)
  /\ UNCHANGED <<packVars, conns, route, inbox, file, history>>

Listed(c) ==
  /\ Answered(c, Sweep, "list")
  /\ LET reply == Head(inbox[c]).data
     IN \E j \in Onward([Idle EXCEPT !.todo = reply.listed \ reply.running], route, file) :
          Goes(Sweep, j, route)
  /\ UNCHANGED <<file, history>>

(*****************************************************************************)
(* The workbench.                                                            *)
(*****************************************************************************)

\* A trace that is not archived is downloaded from the pack.
Download(u, s) ==
  /\ job[u] = Idle
  /\ file[s] = None /\ route # None
  /\ Goes(u, [Idle EXCEPT !.op = "begin", !.sid = s], route)
  /\ UNCHANGED <<packVars, conns, route, inbox, file, history>>

\* The archive without the sessions S: remove() of one, clear() of all
Without(S) == [s \in Sessions |-> IF s \in S THEN None ELSE file[s]]

(* Asks the pack, if it is found, to delete the sessions S; s is None for    *)
(* all of them.  The archive's copies of S go at once.                       *)
Tells(u, op, s, S) ==
  LET j == IF route = None THEN Idle ELSE [Idle EXCEPT !.op = op, !.sid = s]
  IN /\ job[u] = Idle
     /\ job' = [job EXCEPT ![u] = j, ![Sweep].doomed = @ \/ job[Sweep].sid \in S]
     /\ link' = [link EXCEPT ![u] = Waits(j, route)]
     /\ outbox' = With(outbox, u, j, route)
     /\ revived' = revived \ S
     /\ UNCHANGED <<packVars, conns, route, inbox, deleted>>

\* Mutant: the archived copy goes only if the pack is offline.
DeleteElsewhere(u, s) ==
  /\ Tells(u, "delete", s, {s})
  /\ file' = IF route = None THEN Without({s}) ELSE file

\* DELETE /api/net/session: the archived copy first, then the pack's.
Delete(u, s) ==
  /\ Tells(u, "delete", s, {s})
  /\ file' = Without({s})

\* POST /api/net/clear
Clear(u) ==
  /\ Tells(u, "clear", None, Sessions)
  /\ file' = Without(Sessions)

\* The pack says what it deleted.
Confirmed(c, u) ==
  /\ \E op \in {"delete", "clear"} : Answered(c, u, op)
  /\ Goes(u, Idle, None)
  /\ deleted' = deleted \union Head(inbox[c]).data
  /\ UNCHANGED <<file, revived>>

(*****************************************************************************)
(* The Observatory is killed and started again.                              *)
(*****************************************************************************)

Restarts ==
  /\ conns' = [c \in Conns |-> "closed"]
  /\ route' = None
  /\ outbox' = [c \in Conns |-> <<>>]
  /\ inbox' = [c \in Conns |-> <<>>]
  /\ job' = [k \in Callers |-> Idle]
  /\ link' = [k \in Callers |-> None]
  /\ UNCHANGED packVars

(* Between the two removals of remove() it leaves a record without a trace,  *)
(* which nothing looks at.                                                   *)
Killed == Restarts /\ UNCHANGED <<file, history>>

\* Between the two writes of save().
KilledSaving(c) ==
  /\ Arrives(c, "part")
  /\ Head(inbox[c]).for = Sweep
  /\ Completes(c, Sweep)
  /\ Stores(Received(c, Sweep), FALSE)
  /\ Restarts

-----------------------------------------------------------------------------

Init ==
  /\ store \in [Sessions -> {"running", "finished"}]
  /\ cached = None
  /\ socket = None
  /\ conns = [c \in Conns |-> "closed"]
  /\ route = None
  /\ outbox = [c \in Conns |-> <<>>]
  /\ inbox = [c \in Conns |-> <<>>]
  /\ job = [k \in Callers |-> Idle]
  /\ link = [k \in Callers |-> None]
  /\ file = [s \in Sessions |-> None]
  /\ deleted = {}
  /\ revived = {}

Receive(c) ==
  \/ Ready(c) \/ Listed(c) \/ Save(c)
  \/ \E k \in Callers : Refused(c, k) \/ Begun(c, k) \/ GotPart(c, k) \/ Ends(c, k)
  \/ \E u \in Users : Confirmed(c, u)

Next ==
  \/ \E s \in Sessions : Runs(s)
  \/ Drop
  \/ \E c \in Conns : Dial(c) \/ Handle(c) \/ Lost(c) \/ Receive(c) \/ KilledSaving(c)
  \/ \E k \in Callers : Timeout(k)
  \/ SweepBegins
  \/ \E u \in Users, s \in Sessions : Download(u, s) \/ Delete(u, s)
  \/ \E u \in Users : Clear(u)
  \/ Killed

Spec == Init /\ [][Next]_vars

\* The timer of the request that a sweep waits for elapses.
Fairness == WF_vars(Timeout(Sweep))

FairSpec == Spec /\ Fairness

-----------------------------------------------------------------------------

Jobs == [op : {"idle", "list", "begin", "part", "delete", "clear"}, sid : Sessions \union {None},
         part : 0..(Parts - 1), bytes : {None, "partial", "whole", "torn"},
         todo : SUBSET Sessions, saved : 0..Cap, doomed : BOOLEAN]

TypeOK ==
  /\ store \in [Sessions -> {"running", "finished", "gone"}]
  /\ cached \in [sid : Sessions, bytes : {"partial", "whole"}] \union {None}
  /\ socket \in Conns \union {None}
  /\ conns \in [Conns -> {"closed", "open", "ready"}]
  /\ route \in Conns \union {None}
  /\ job \in [Callers -> Jobs]
  /\ link \in [Callers -> Conns \union {None}]
  /\ file \in [Sessions -> {None, "partial", "whole", "unlisted"}]
  /\ deleted \subseteq Sessions /\ revived \subseteq Sessions

(* The route of a pack is the one connection that has shaken hands and is    *)
(* open; whoever waits, waits for a reply on it, and nobody waits without a  *)
(* job (ready, connections and pending in net.ts).                           *)
RoutesAgree ==
  /\ TypeOK
  /\ \A c \in Conns : conns[c] = "ready" <=> route = c
  /\ \A k \in Callers : IF job[k] = Idle THEN link[k] = None
                        ELSE link[k] # None /\ link[k] = route

(* What is archived is the trace to its end, not a snapshot of a session     *)
(* that still ran, with a made-up footer (archive.ts, sweep: "A              *)
(* running session has no footer yet; archiving it now would freeze a        *)
(* partial trace"), though the pack's one snapshot is replaced by other      *)
(* downloads and the session goes on between its listing and its download.   *)
ArchiveIsWhole == \A s \in Sessions : file[s] # "partial"

(* What the workbench deleted, and the pack confirmed, is in the archive no  *)
(* more and never comes back, unless a sweep was downloading it when the     *)
(* deletion began and went on to save it (DELETE in app.ts).                 *)
DeletedIsGone == \A s \in deleted \ revived : file[s] = None

(* A sweep ends, whatever the pack and the network do: while one is under    *)
(* way no other begins (sweeping in archive.ts, REQUEST_TIMEOUT_MS).         *)
SweepEnds == job[Sweep] # Idle ~> job[Sweep] = Idle
=============================================================================
