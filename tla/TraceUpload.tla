----------------------------- MODULE TraceUpload -----------------------------
(***************************************************************************)
(* A trace that is pushed: the sink that buffers a session and uploads it   *)
(* when it has ended (createServerNetTraceSink in trace/src/serverNet.ts),  *)
(* the parts it is cut into (trace/src/bridge/ingest.ts), and the server    *)
(* that puts them together again (observatory/server/ingest.ts).            *)
(*                                                                          *)
(* A request of the sink may be lost, may be answered after it has timed    *)
(* out, or may reach the server even later.  The bytes of a container are   *)
(* the numbers 1..n, its chunks and what stands around them.                *)
(***************************************************************************)
EXTENDS Naturals, Sequences, FiniteSets, Functions, FiniteSetsExt, SequencesExt

CONSTANTS
  Sessions,     \* the sessions of a game, one after another
  None,
  Budget,       \* maxBufferedBytes
  Around,       \* bytes a container has besides its chunks
  MaxChunks,    \* bound: bytes of chunks of a session
  PartBytes,    \* TRACE_INGEST_PART_CHARS
  MaxUploads,   \* MAX_PENDING_SESSIONS
  MaxUpload     \* MAX_PENDING_BYTES

UploadAssumption ==
  /\ None \notin Sessions
  /\ Budget \in Nat /\ Around \in Nat /\ MaxChunks \in Nat
  /\ PartBytes \in Nat \ {0} /\ MaxUploads \in Nat \ {0} /\ MaxUpload \in Nat

VARIABLES
  fresh,     \* sessions that have not begun
  buffered,  \* `pending` of the sink: bytes of chunks of each session, or None
  queue,     \* `queue`: [of, size]
  sending,   \* None, or the upload in deliver(), with the part it is at
  request,   \* None, "sent", or the answer to that part: "accepted", "rejected"
  late,      \* requests that timed out and may still arrive
  parts,     \* `pending` of the server: the parts of each session, or None
  idle,      \* those of them that have not progressed for PENDING_TTL_MS
  stored,    \* None, or the file of each session, and how long its container was
  reported,  \* sessions that onError was told of
  cut        \* history: sessions whose upload a restart of the server cut in two

sinkVars == <<fresh, buffered, queue, sending, request>>
serverVars == <<parts, idle, stored>>
vars == <<sinkVars, late, serverVars, reported, cut>>

Total(q) == FoldLeft(LAMBDA n, u : n + u.size, 0, q)

\* encodeTraceIngestParts(): how many, and what part i has of the n bytes.
PartsOf(n) == (n + PartBytes - 1) \div PartBytes

Slice(n, i) == {b \in 1..n : (b - 1) \div PartBytes = i}

-----------------------------------------------------------------------------
(* The sink *)

\* drain(), up to its next request: the next upload, if there is one.
Drained(q) ==
  /\ queue' = IF q = <<>> THEN q ELSE Tail(q)
  /\ sending' = IF q = <<>> THEN None ELSE [of |-> Head(q).of, size |-> Head(q).size, part |-> 0]
  /\ request' = IF q = <<>> THEN None ELSE "sent"

\* The first n uploads of the queue are dropped, and reported.
Dropped(n) == {queue[i].of : i \in 1..n}

\* How many must go for u to fit.
Room(u) ==
  Min({n \in 0..Len(queue) :
         n = Len(queue) \/ Total(SubSeq(queue, n + 1, Len(queue))) + u.size <= Budget})

\* enqueue()
Enqueue(u) ==
  IF u.size > Budget
  THEN /\ reported' = reported \union {u.of}
       /\ UNCHANGED <<queue, sending, request>>
  ELSE LET q == Append(SubSeq(queue, Room(u) + 1, Len(queue)), u)
       IN  /\ reported' = reported \union Dropped(Room(u))
           /\ IF sending = None THEN Drained(q) ELSE queue' = q /\ UNCHANGED <<sending, request>>

\* onSessionStart()
SessionStarts(s) ==
  /\ s \in fresh
  /\ fresh' = fresh \ {s}
  /\ buffered' = [buffered EXCEPT ![s] = 0]
  /\ UNCHANGED <<queue, sending, request, late, serverVars, reported, cut>>

\* onChunk(), of one byte
ChunkComes(s) ==
  /\ buffered[s] # None /\ buffered[s] < MaxChunks
  /\ IF buffered[s] + 1 > Budget
     THEN buffered' = [buffered EXCEPT ![s] = None] /\ reported' = reported \union {s}
     ELSE buffered' = [buffered EXCEPT ![s] = @ + 1] /\ UNCHANGED reported
  /\ UNCHANGED <<fresh, queue, sending, request, late, serverVars, cut>>

\* onSessionEnd()
SessionEnds(s) ==
  /\ buffered[s] # None
  /\ buffered' = [buffered EXCEPT ![s] = None]
  /\ Enqueue([of |-> s, size |-> buffered[s] + Around])
  /\ UNCHANGED <<fresh, late, serverVars, cut>>

\* deliver() has its answer, and goes on to the next part.
Accepted ==
  /\ request = "accepted"
  /\ IF sending.part + 1 < PartsOf(sending.size)
     THEN sending' = [sending EXCEPT !.part = @ + 1] /\ request' = "sent" /\ UNCHANGED queue
     ELSE Drained(queue)
  /\ UNCHANGED <<fresh, buffered, late, serverVars, reported, cut>>

\* deliver() throws, and drain() goes on to the next upload.
Fails == Drained(queue) /\ reported' = reported \union {sending.of}

Rejected ==
  /\ request = "rejected"
  /\ Fails
  /\ UNCHANGED <<fresh, buffered, late, serverVars, cut>>

\* The request times out; if it has not arrived, it may yet, or be lost.
TimesOut ==
  /\ request # None
  /\ Fails
  /\ late' \in {late, IF request = "sent" THEN late \union {sending} ELSE late}
  /\ UNCHANGED <<fresh, buffered, serverVars, cut>>

-----------------------------------------------------------------------------
(* The server *)

\* Mutant: the last part is taken for all of them.
CompleteAtLast(u, had) == u.part + 1 = PartsOf(u.size)

\* All parts are there.
Complete(u, had) == Cardinality(had) = PartsOf(u.size)

Received(u, had) == UNION {Slice(u.size, i) : i \in had}

\* The parts that are there when u comes, after prune().
Before(u) == IF parts[u.of] = None \/ u.of \in idle THEN {} ELSE parts[u.of]

Uploads == {s \in Sessions : parts[s] # None} \ idle

(* accept() of part u, whose answer is ok or not.  All parts of a session are *)
(* of one upload, so that their number always agrees.  A file that cannot be  *)
(* written makes the answer an error.                                         *)
Accept(u, ok) ==
  LET had == Before(u) \union {u.part}
      known == Before(u) # {}
      pruned == [s \in Sessions |-> IF s \in idle THEN None ELSE parts[s]]
      over == Cardinality(Received(u, had)) > MaxUpload
  IN  /\ idle' = {}
      /\ \/ /\ ~known /\ Cardinality(Uploads) >= MaxUploads
            /\ ~ok /\ parts' = pruned /\ UNCHANGED stored
         \/ /\ known \/ Cardinality(Uploads) < MaxUploads
            /\ over
            /\ ~ok /\ parts' = [pruned EXCEPT ![u.of] = None] /\ UNCHANGED stored
         \/ /\ known \/ Cardinality(Uploads) < MaxUploads
            /\ ~over /\ ~Complete(u, had)
            /\ ok /\ parts' = [pruned EXCEPT ![u.of] = had] /\ UNCHANGED stored
         \/ /\ known \/ Cardinality(Uploads) < MaxUploads
            /\ ~over /\ Complete(u, had)
            /\ parts' = [pruned EXCEPT ![u.of] = None]
            /\ stored' = IF ok
                         THEN [stored EXCEPT ![u.of] = [size |-> u.size, bytes |-> Received(u, had)]]
                         ELSE stored

\* The request arrives in time.
Arrives(ok) ==
  /\ request = "sent"
  /\ Accept(sending, ok)
  /\ request' = IF ok THEN "accepted" ELSE "rejected"
  /\ UNCHANGED <<fresh, buffered, queue, sending, late, reported, cut>>

\* A request arrives that nobody waits for.
ArrivesLate(u, ok) ==
  /\ u \in late
  /\ Accept(u, ok)
  /\ late' = late \ {u}
  /\ UNCHANGED <<sinkVars, reported, cut>>

\* An upload has not progressed for too long: not the one whose requests go on.
Idles(s) ==
  /\ parts[s] # None /\ s \notin idle
  /\ sending # None => sending.of # s
  /\ idle' = idle \union {s}
  /\ UNCHANGED <<sinkVars, late, parts, stored, reported, cut>>

\* The Observatory is started again.
Restarts ==
  /\ parts' = [s \in Sessions |-> None] /\ idle' = {}
  /\ cut' = cut \union {s \in Sessions : parts[s] # None}
  /\ UNCHANGED <<sinkVars, late, stored, reported>>

-----------------------------------------------------------------------------
Init ==
  /\ fresh = Sessions
  /\ buffered = [s \in Sessions |-> None]
  /\ queue = <<>> /\ sending = None /\ request = None /\ late = {}
  /\ parts = [s \in Sessions |-> None] /\ idle = {}
  /\ stored = [s \in Sessions |-> None]
  /\ reported = {} /\ cut = {}

Next ==
  \/ \E s \in Sessions : SessionStarts(s) \/ ChunkComes(s) \/ SessionEnds(s) \/ Idles(s)
  \/ Accepted \/ Rejected \/ TimesOut
  \/ \E ok \in BOOLEAN : Arrives(ok) \/ \E u \in late : ArrivesLate(u, ok)
  \/ Restarts

Spec == Init /\ [][Next]_vars

-----------------------------------------------------------------------------
\* What is stored of a session is its container, to the last byte, though requests are lost
\* and come late, and a server that restarts forgets the parts it had.
StoredIsWhole ==
  \A s \in Sessions : stored[s] # None =>
    /\ s \notin fresh /\ buffered[s] = None
    /\ stored[s].bytes = 1..stored[s].size

\* A session that has ended is stored, on its way, or was reported: onError "receives every
\* delivery/queue failure" (serverNet.ts:56).  One that a restart of the server cut in two
\* is not: the server accepts the rest, and waits for the part it has forgotten.
NoneVanishes ==
  \A s \in Sessions \ (fresh \union reported \union cut) :
    \/ buffered[s] # None \/ stored[s] # None
    \/ \E i \in DOMAIN queue : queue[i].of = s
    \/ sending # None /\ sending.of = s

\* A slow or unreachable Observatory never grows the buffers beyond bounds
\* (serverNet.ts:47): the queue keeps within the budget, and so does each session.
BudgetHolds ==
  /\ Total(queue) <= Budget
  /\ \A s \in Sessions : buffered[s] # None => buffered[s] <= Budget
  /\ Cardinality(Uploads) <= MaxUploads

UploadsArrive == StoredIsWhole /\ NoneVanishes /\ BudgetHolds
=============================================================================
