---------------------------- MODULE TraceHistory ----------------------------
(***************************************************************************)
(* TraceHistoryStore (trace/src/runtime/historyStore.ts) under the trace    *)
(* sessions of TraceManager and TraceSession: which sessions it accepts,    *)
(* what it commits of them, what it recovers after a script reload, and     *)
(* what it throws away.                                                     *)
(*                                                                          *)
(* `kv` is the world's dynamic properties, which survive a reload; `store`  *)
(* is the state of the store object.  Dynamic properties are out of reach   *)
(* until worldLoad: `waiters` are the store's callbacks waiting for it, and *)
(* once `ready` they are called one by one, with other code's callbacks     *)
(* between.  Sessions are numbered in the order they begin, which is the    *)
(* order list() sorts by, and every chunk counts as one byte.  Another sink *)
(* is always set, so a session the store does not accept still is traced.   *)
(***************************************************************************)
EXTENDS Naturals, Sequences, FiniteSets, SequencesExt

CONSTANTS
  MaxBegun,      \* bound: sessions begun, in all runtimes
  MaxChunks,     \* bound: chunks of a session
  Keeps,         \* values of maxSessions that configure() may set
  MaxBytes,      \* options.maxBytes
  Oversize,      \* a chunk may be longer than a dynamic property, whose write throws
  Overlaps       \* enable() and disable() may be called while worldLoad is being delivered,
                 \* and restoreEnabled() before it is over

HistoryAssumption ==
  /\ MaxBegun \in Nat /\ MaxChunks \in Nat /\ MaxBytes \in Nat \ {0}
  /\ Keeps \subseteq Nat \ {0} /\ Keeps # {}
  /\ Oversize \in BOOLEAN /\ Overlaps \in BOOLEAN

Sessions == 1..MaxBegun

VARIABLES
  begun,    \* sessions begun so far
  open,     \* sessions of the TraceManager that have not ended
  sealed,   \* TraceSession.chunkCount
  ready,    \* worldLoad has fired in this runtime
  waiters,  \* of "maintain", "restore", "on", "off": the last two write the flag
  store,    \* [on, recover, waiting, timer, keep, active]
  kv,       \* [flag, meta, chunks]
  old,      \* sessions that ended more than maxAgeMs ago
  chosen    \* the last of enable() and disable() called in this runtime, if any

sessionVars == <<begun, open, sealed>>
vars == <<begun, open, sealed, ready, waiters, store, kv, old, chosen>>

\* A session of which nothing is stored.
Absent == [status |-> "absent", count |-> 0, bytes |-> 0]

\* The store object as the constructor leaves it.
Fresh(n) == [on |-> FALSE, recover |-> FALSE, waiting |-> FALSE, timer |-> FALSE,
             keep |-> n, active |-> {}]

-----------------------------------------------------------------------------
(* What is stored.  These operators map the properties k to the properties   *)
(* after an operation; a is activeSessions.                                  *)

Stored(k) == {s \in Sessions : k.meta[s].status # "absent"}

\* Mutant: the metadata goes, the chunks stay.
DeletedMetaOnly(k, S) ==
  [k EXCEPT !.meta = [s \in Sessions |-> IF s \in S THEN Absent ELSE @[s]]]

\* delete() of each of S, none of them active: every property with the session's prefix.
Deleted(k, S) ==
  [k EXCEPT !.meta = [s \in Sessions |-> IF s \in S THEN Absent ELSE @[s]],
            !.chunks = [s \in Sessions |-> IF s \in S THEN {} ELSE @[s]]]

Completed(k, a) == {s \in Stored(k) \ a : k.meta[s].status # "running"}

\* Those after the first n of list(), which puts the newest first.
Beyond(C, n) == {s \in C : Cardinality({t \in C : t > s}) >= n}

BytesOf(k, C) == Cardinality(UNION {{s} \X (1..k.meta[s].bytes) : s \in C})

\* The oldest go until the rest fits: a session goes if it does not fit with all newer.
Over(k, C) == {s \in C : BytesOf(k, {t \in C : t >= s}) > MaxBytes}

\* cleanup(): by age, then by number, then by size.
Cleaned(k, a, n) ==
  LET byAge == Deleted(k, Completed(k, a) \intersect old)
      byNumber == Deleted(byAge, Beyond(Completed(byAge, a), n))
  IN  Deleted(byNumber, Over(byNumber, Completed(byNumber, a)))

\* Mutant: what has ended is taken for stale as well.
RecoveredFinished(k, a) ==
  [k EXCEPT !.meta = [s \in Sessions |->
     IF s \notin a /\ @[s].status \in {"running", "ended"}
     THEN [@[s] EXCEPT !.status = "interrupted"] ELSE @[s]]]

\* recoverInterruptedSessions()
Recovered(k, a) ==
  [k EXCEPT !.meta = [s \in Sessions |->
     IF s \notin a /\ @[s].status = "running"
     THEN [@[s] EXCEPT !.status = "interrupted"] ELSE @[s]]]

\* onChunk() of chunk i: a session that is not active is ignored; a chunk out of order,
\* and one that does not fit, is an error the session reports and forgets.
Chunked(k, s, i, fits) ==
  IF s \in store.active /\ fits /\ i = k.meta[s].count
  THEN [k EXCEPT !.chunks[s] = @ \union {i}, !.meta[s].count = i + 1, !.meta[s].bytes = @ + 1]
  ELSE k

\* onSessionEnd(): the footer has the counts of the session; then cleanup().
Ended(k, s, n) ==
  IF s \in store.active
  THEN Cleaned([k EXCEPT !.meta[s].status = "ended", !.meta[s].count = n],
               store.active \ {s}, store.keep)
  ELSE k

-----------------------------------------------------------------------------
(* The store object, with what it does to the properties and its waiters:    *)
(* w is [store, waiters, kv].                                                *)

World == [store |-> store, waiters |-> waiters, kv |-> kv]

Becomes(w) == store' = w.store /\ waiters' = w.waiters /\ kv' = w.kv

\* runMaintenance(), with startCleanupTimer().
Maintained(w) ==
  LET k == IF w.store.recover THEN Recovered(w.kv, w.store.active) ELSE w.kv
  IN  [w EXCEPT !.kv = Cleaned(k, w.store.active, w.store.keep),
                !.store.recover = FALSE, !.store.timer = TRUE]

\* scheduleMaintenance()
Scheduled(w) ==
  IF ~w.store.on THEN w
  ELSE IF ready THEN Maintained(w)
  ELSE IF w.store.waiting THEN w
  ELSE [w EXCEPT !.store.waiting = TRUE, !.waiters = Append(@, "maintain")]

\* setEnabled(true)
TurnedOn(w) ==
  IF w.store.on THEN w
  ELSE Scheduled([w EXCEPT !.store.on = TRUE, !.store.recover = TRUE])

\* worldLoad's callbacks without c, which was registered once at most.
Without(q, c) ==
  IF c \in Range(q) THEN RemoveAt(q, CHOOSE i \in 1..Len(q) : q[i] = c) ELSE q

\* setEnabled(false).  A callback that worldLoad has begun to call cannot be taken back.
TurnedOff(w) ==
  IF ~w.store.on THEN w
  ELSE [w EXCEPT !.store.on = FALSE, !.store.recover = FALSE, !.store.waiting = FALSE,
                 !.store.timer = FALSE,
                 !.waiters = IF ready THEN @ ELSE Without(@, "maintain")]

Turned(w, to) == IF to THEN TurnedOn(w) ELSE TurnedOff(w)

Word(to) == IF to THEN "on" ELSE "off"

\* persistEnabled()
Persisted(w, to) ==
  IF ready THEN [w EXCEPT !.kv.flag = to] ELSE [w EXCEPT !.waiters = Append(@, Word(to))]

\* A callback after worldLoad.
Called(w, c) ==
  CASE c = "maintain" -> LET v == [w EXCEPT !.store.waiting = FALSE]
                         IN  IF v.store.on THEN Maintained(v) ELSE v
    [] c = "restore" -> Turned(w, w.kv.flag)
    [] OTHER -> [w EXCEPT !.kv.flag = (c = "on")]

-----------------------------------------------------------------------------
\* enable(), disable(): by the pack, by a command or by the Observatory.
Choose(to) ==
  /\ IF ready THEN Overlaps \/ waiters = <<>> ELSE Len(waiters) < 3
  /\ Becomes(Persisted(Turned(World, to), to))
  /\ chosen' = Word(to)
  /\ UNCHANGED <<sessionVars, ready, old>>

\* restoreEnabled()
Restore ==
  /\ IF Overlaps THEN ready \/ Len(waiters) < 3 ELSE ready /\ waiters = <<>>
  /\ Becomes(IF ready THEN Turned(World, kv.flag) ELSE [World EXCEPT !.waiters = Append(@, "restore")])
  /\ UNCHANGED <<sessionVars, ready, old, chosen>>

\* Mutant: a new interval stops the timer for good.
ConfigureStops(n, retimed) ==
  /\ Becomes(LET w == [World EXCEPT !.store.keep = n]
             IN  IF retimed THEN [w EXCEPT !.store.timer = FALSE] ELSE Scheduled(w))
  /\ UNCHANGED <<sessionVars, ready, old, chosen>>

\* configure(): a changed interval stops the timer, which maintenance starts again.
Configure(n, retimed) ==
  /\ Becomes(LET w == [World EXCEPT !.store.keep = n]
             IN  Scheduled(IF retimed THEN [w EXCEPT !.store.timer = FALSE] ELSE w))
  /\ UNCHANGED <<sessionVars, ready, old, chosen>>

\* acceptingSessions
Accepts == store.on /\ ready

\* beginSession(): the session's sinks are fixed here, the store among them if it accepts.
Begin ==
  /\ begun < MaxBegun
  /\ begun' = begun + 1
  /\ open' = open \union {begun'}
  /\ IF Accepts
     THEN /\ store' = [store EXCEPT !.active = @ \union {begun'}]
          /\ kv' = [kv EXCEPT !.meta[begun'] = [Absent EXCEPT !.status = "running"]]
     ELSE UNCHANGED <<store, kv>>
  /\ UNCHANGED <<sealed, ready, waiters, old, chosen>>

\* sealChunk(): the chunk is full, or a snapshot flushes it.
Seal(s) ==
  /\ s \in open /\ sealed[s] < MaxChunks
  /\ \E fits \in {TRUE, ~Oversize} : kv' = Chunked(kv, s, sealed[s], fits)
  /\ sealed' = [sealed EXCEPT ![s] = @ + 1]
  /\ UNCHANGED <<begun, open, ready, waiters, store, old, chosen>>

\* endSession(): what is left is sealed, and the footer committed.
End(s) ==
  /\ s \in open
  /\ open' = open \ {s}
  /\ \E n \in {sealed[s], sealed[s] + 1}, fits \in {TRUE, ~Oversize} :
       /\ n <= MaxChunks
       /\ sealed' = [sealed EXCEPT ![s] = n]
       /\ kv' = Ended(IF n > sealed[s] THEN Chunked(kv, s, sealed[s], fits) ELSE kv, s, n)
  /\ store' = [store EXCEPT !.active = @ \ {s}]
  /\ UNCHANGED <<begun, ready, waiters, old, chosen>>

\* The store's delete(), by the Observatory or the pack.
Delete(s) ==
  /\ ready
  /\ kv' = Deleted(kv, {s} \ store.active)
  /\ UNCHANGED <<sessionVars, ready, waiters, store, old, chosen>>

\* The bridge's clear: delete() of everything that list() does not call running.
Clear ==
  /\ ready
  /\ kv' = Deleted(kv, Completed(kv, store.active))
  /\ UNCHANGED <<sessionVars, ready, waiters, store, old, chosen>>

\* The scheduler runs the periodic cleanup().
Sweep ==
  /\ store.timer /\ waiters = <<>>
  /\ kv' = Cleaned(kv, store.active, store.keep)
  /\ UNCHANGED <<sessionVars, ready, waiters, store, old, chosen>>

WorldLoad ==
  /\ ~ready
  /\ ready' = TRUE
  /\ UNCHANGED <<sessionVars, waiters, store, kv, old, chosen>>

\* worldLoad goes on to the next callback of the store.
Drain ==
  /\ ready /\ waiters # <<>>
  /\ Becomes(Called([World EXCEPT !.waiters = Tail(@)], Head(waiters)))
  /\ UNCHANGED <<sessionVars, ready, old, chosen>>

\* Time passes.  A session that is found running after a reload ends when it is recovered.
Age(s) ==
  /\ s \notin old /\ s <= begun /\ s \notin open
  /\ kv.meta[s].status # "running"
  /\ old' = old \union {s}
  /\ UNCHANGED <<sessionVars, ready, waiters, store, kv, chosen>>

\* The scripts are reloaded, or the server starts again: only the properties are left.
Reload ==
  /\ open' = {} /\ ready' = FALSE /\ waiters' = <<>> /\ chosen' = "none"
  /\ \E n \in Keeps : store' = Fresh(n)
  /\ UNCHANGED <<begun, sealed, kv, old>>

Init ==
  /\ begun = 0 /\ open = {} /\ sealed = [s \in Sessions |-> 0]
  /\ ready = FALSE /\ waiters = <<>> /\ chosen = "none"
  /\ \E n \in Keeps : store = Fresh(n)
  /\ kv = [flag |-> FALSE, meta |-> [s \in Sessions |-> Absent], chunks |-> [s \in Sessions |-> {}]]
  /\ old = {}

Next ==
  \/ \E to \in BOOLEAN : Choose(to)
  \/ \E n \in Keeps, retimed \in BOOLEAN : Configure(n, retimed)
  \/ \E s \in Sessions : Seal(s) \/ End(s) \/ Delete(s) \/ Age(s)
  \/ Restore \/ Begin \/ Clear \/ Sweep \/ WorldLoad \/ Drain \/ Reload

Spec == Init /\ [][Next]_vars

\* The host fires worldLoad, ends it, and runs its intervals.
FairSpec == Spec /\ WF_vars(WorldLoad) /\ WF_vars(Drain) /\ WF_vars(Sweep)

-----------------------------------------------------------------------------
Metas == [status : {"absent", "running", "ended", "interrupted"},
          count : 0..MaxChunks, bytes : 0..MaxChunks]

TypeOK ==
  /\ begun \in 0..MaxBegun /\ open \subseteq 1..begun
  /\ sealed \in [Sessions -> 0..MaxChunks]
  /\ ready \in BOOLEAN
  /\ waiters \in Seq({"maintain", "restore", "on", "off"})
  /\ store \in [on : BOOLEAN, recover : BOOLEAN, waiting : BOOLEAN, timer : BOOLEAN,
                keep : Keeps, active : SUBSET open]
  /\ kv \in [flag : BOOLEAN, meta : [Sessions -> Metas],
             chunks : [Sessions -> SUBSET (0..MaxChunks - 1)]]
  /\ old \subseteq 1..begun
  /\ chosen \in {"none", "on", "off"}

\* read() and toSnapshotBytes() never meet a "Missing Trace chunk": what the metadata
\* counts is there, whole, and nothing is there that no metadata speaks of.
StoredIsReadable == \A s \in Sessions : kv.chunks[s] = 0..(kv.meta[s].count - 1)

\* A stored session is never a half trace (docs/game-trace.md: "preserving all chunks
\* that had already been sealed"), whatever was toggled and reloaded meanwhile.
NothingIsLost == \A s \in Stored(kv) : kv.meta[s].count = sealed[s]

\* What is stored of a session is all there is of it.
StoredIsWhole == StoredIsReadable /\ NothingIsLost

Settled == store.on /\ ready /\ "maintain" \notin Range(waiters)

\* While the store is enabled, a record that says running is of a session that runs.
StaleIsRecovered ==
  Settled => \A s \in Sessions : kv.meta[s].status = "running" => s \in store.active

\* "Active sessions are never collected" (docs/game-trace.md), nor taken for stale.
ActiveIsKept == \A s \in store.active : kv.meta[s].status = "running"

\* A record says running as long as its session does, and no longer.
RunningIsActive == TypeOK /\ ActiveIsKept /\ StaleIsRecovered

\* While the store is enabled, completed sessions stay within number and size, and the
\* cleanup that sees to it is scheduled.
RetentionHolds ==
  Settled => LET C == Completed(kv, store.active)
             IN  /\ Cardinality(C) <= store.keep
                 /\ BytesOf(kv, C) <= MaxBytes
                 /\ store.timer

\* After worldLoad the last enable() or disable() of this runtime is in force, and is
\* what the next runtime will restore.
ChoiceSticks ==
  ready /\ waiters = <<>> /\ chosen # "none" => chosen = Word(store.on) /\ kv.flag = store.on

\* What the store promises of what is stored, at any time.
HistoryIsSound == StoredIsWhole /\ RunningIsActive /\ RetentionHolds /\ ChoiceSticks

\* A finished trace is immutable: it stays as it is until it goes as a whole.
FinishedIsFrozen ==
  \A s \in Sessions : kv.meta[s].status \in {"ended", "interrupted"} =>
    \/ kv'.meta[s] = kv.meta[s] /\ kv'.chunks[s] = kv.chunks[s]
    \/ kv'.meta[s] = Absent /\ kv'.chunks[s] = {}

\* The store is enabled and has a trace that is past its age.
Overdue(s) == s \in old /\ s \in Stored(kv) /\ store.on

\* Traces past their age are collected, unless the store is disabled.
ExpiredIsCollected == \A s \in Sessions : []<>~Overdue(s)

=============================================================================
