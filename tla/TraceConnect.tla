----------------------------- MODULE TraceConnect -----------------------------
(***************************************************************************)
(* Traces over /connect: the Observatory that a running game connects to    *)
(* (observatory/server/connect.ts), and the commands its packs answer       *)
(* (registerTraceConnectCommands in trace/src/minecraft.ts).                *)
(*                                                                          *)
(* Operations pass through one queue; the one at its head sends a command   *)
(* and waits for the answer, again and again.  The game runs commands in    *)
(* the order they were sent.  A request that has timed out is not `live`:   *)
(* its command may still run, and its answer may still come.                *)
(***************************************************************************)
EXTENDS Naturals, Sequences, FiniteSets, SequencesExt

CONSTANTS
  Job,         \* bound: what each caller asks for, once: [op, sid]
  Packs,       \* the configured targets, in their order
  Absent,      \* packs the game does not know the commands of
  Owner,       \* the pack of each session
  Lengths,     \* bound: characters of a session's snapshot as it grows
  PartChars,   \* CONNECT_PART_CHARS
  PageSize,    \* PAGE_SIZE
  None

Callers == DOMAIN Job
Sessions == DOMAIN Owner
PackSet == Range(Packs)

ConnectAssumption ==
  /\ None \notin Sessions
  /\ PackSet # {} /\ Range(Owner) \subseteq PackSet /\ Absent \subseteq PackSet
  /\ \A k \in Callers : Job[k].op \in {"list", "get"} /\ Job[k].sid \in Sessions
  /\ PartChars \in Nat \ {0} /\ PageSize \in Nat \ {0}
  /\ \A v \in DOMAIN Lengths : Lengths[v] \in Nat \ {0} /\ (v > 1 => Lengths[v - 1] < Lengths[v])

VARIABLES
  channel,  \* `channel`: a game is connected
  queue,    \* the callers whose operations wait, or are carried out
  turn,     \* None, or where the operation at the head of the queue is
  result,   \* what the operation of each caller came to, or None
  outbox,   \* commands under way to the game
  inbox,    \* answers under way from it
  store,    \* list() of each pack: its sessions, the newest first
  version,  \* how far each session has grown; 0 before it begins
  cached    \* `cached` of each pack: [sid, version], or None

bridgeVars == <<channel, queue, turn, result>>
wireVars == <<outbox, inbox>>
packVars == <<store, version, cached>>
vars == <<bridgeVars, wireVars, packVars>>

\* The callers whose operations wait, or are carried out.
Asking == Range(queue)

Listing(k) == Job[k].op = "list"

\* What is in the packs.
There == {s \in Sessions : s \in Range(store[Owner[s]])}

-----------------------------------------------------------------------------
(* The packs.  A command is [op, pack, sid, n, live].                        *)

Refusal == [kind |-> "error"]

\* tracelist
ListAnswer(c) ==
  [kind |-> "list", n |-> c.n, total |-> Len(store[c.pack]),
   sessions |-> SubSeq(store[c.pack], c.n * PageSize + 1,
                       Min({(c.n + 1) * PageSize, Len(store[c.pack])}))]

\* tracepart
PartAnswer(c) ==
  LET has == cached[c.pack]
  IN  IF has = None THEN Refusal
      ELSE IF has.sid # c.sid \/ c.n * PartChars >= Lengths[has.version] THEN Refusal
      ELSE [kind |-> "part", sid |-> c.sid, n |-> c.n, version |-> has.version]

\* traceinfo tells the length of the snapshot that it keeps for tracepart.
Answer(c) ==
  CASE c.pack \in Absent -> Refusal
    [] c.op = "list" -> ListAnswer(c)
    [] c.op = "part" -> PartAnswer(c)
    [] OTHER -> IF c.sid \notin There THEN Refusal
                ELSE [kind |-> "info", sid |-> c.sid, chars |-> Lengths[version[c.sid]]]

CacheAfter(c) ==
  IF c.op = "info" /\ c.pack \notin Absent /\ c.sid \in There
  THEN [cached EXCEPT ![c.pack] = [sid |-> c.sid, version |-> version[c.sid]]] ELSE cached

\* The game runs the next command.
Runs ==
  /\ outbox # <<>>
  /\ LET c == Head(outbox)
     IN  inbox' = Append(inbox, [live |-> c.live, body |-> Answer(c)]) /\ cached' = CacheAfter(c)
  /\ outbox' = Tail(outbox)
  /\ UNCHANGED <<bridgeVars, store, version>>

\* A player runs traceinfo.
Meddles(s) ==
  /\ cached' = CacheAfter([op |-> "info", pack |-> Owner[s], sid |-> s])
  /\ UNCHANGED <<bridgeVars, wireVars, store, version>>

\* For the properties: what happens to the sessions while they are listed.
Noted(field, s) ==
  IF turn = None \/ ~Listing(Head(queue)) THEN turn ELSE [turn EXCEPT ![field] = @ \union {s}]

Begins(s) ==
  /\ version[s] = 0
  /\ version' = [version EXCEPT ![s] = 1]
  /\ store' = [store EXCEPT ![Owner[s]] = <<s>> \o @]
  /\ turn' = Noted("came", s)
  /\ UNCHANGED <<channel, queue, result, wireVars, cached>>

Grows(s) ==
  /\ s \in There /\ version[s] < Len(Lengths)
  /\ version' = [version EXCEPT ![s] = @ + 1]
  /\ UNCHANGED <<bridgeVars, wireVars, store, cached>>

IsDeleted(s) ==
  /\ s \in There
  /\ store' = [store EXCEPT ![Owner[s]] = SelectSeq(@, LAMBDA x : x # s)]
  /\ turn' = Noted("gone", s)
  /\ UNCHANGED <<channel, queue, result, wireVars, version, cached>>

-----------------------------------------------------------------------------
(* The bridge.  turn is [ask, packs, open, chars, got, failed, ...]: the     *)
(* request that is waited for, the packs still to list, whether its channel  *)
(* is open, the length that traceinfo told, what has come so far, and the    *)
(* packs that could not be listed.  The rest is history: what was there at   *)
(* its start, and what came and went since.                                  *)

\* How a step of the operation leaves the queue and the outbox `old`: either it
\* sends the next command, which a closed connection drops, ...
Asks(t, old) ==
  /\ turn' = t
  /\ outbox' = IF t.open THEN Append(old, t.ask @@ [live |-> TRUE]) ELSE old
  /\ UNCHANGED <<queue, result>>

\* ... or it settles, and the queue goes on.
Ends(outcome, old) ==
  /\ turn' = None
  /\ queue' = Tail(queue)
  /\ result' = [result EXCEPT ![Head(queue)] = outcome]
  /\ outbox' = old

Fails(old) == Ends([ok |-> FALSE], old)

ListAsk(p, n) == [op |-> "list", pack |-> p, sid |-> None, n |-> n]

\* list() goes on with the next pack, or is over.
NextPack(t, old) ==
  IF Len(t.packs) > 1
  THEN Asks([t EXCEPT !.packs = Tail(@), !.ask = ListAsk(t.packs[2], 0), !.page = <<>>], old)
  ELSE Ends([ok |-> TRUE, got |-> t.got, failed |-> t.failed, was |-> t.was,
             came |-> t.came, gone |-> t.gone], old)

\* A request of list() that fails costs its pack, any other its operation.
Rejects(t, old) ==
  IF t.ask.op = "list" THEN NextPack([t EXCEPT !.failed = @ \union {Head(t.packs)}], old)
  ELSE Fails(old)

\* listTarget() has a page.
Listed(t, a) ==
  LET page == t.page \o a.sessions
  IN  IF Len(page) >= a.total \/ Len(a.sessions) < PageSize
      THEN NextPack([t EXCEPT !.got = @ \union {[sid |-> s, pack |-> Head(t.packs)] : s \in Range(page)}],
                    outbox)
      ELSE Asks([t EXCEPT !.page = page, !.ask.n = @ + 1], outbox)

\* The characters that part n of a snapshot has.
CharsOf(a) ==
  IF Lengths[a.version] >= (a.n + 1) * PartChars THEN PartChars
  ELSE Lengths[a.version] - a.n * PartChars

CharsIn(page) == FoldLeft(LAMBDA n, a : n + CharsOf(a), 0, page)

(* A snapshot that has grown begins as the shorter one did, but for the      *)
(* footer at its end, without which what was put together does not decode.   *)
Decodes(page) == CharsIn(page) = Lengths[Last(page).version]

\* download() has a part.
Received(t, a) ==
  LET page == Append(t.page, a)
  IN  IF (a.n + 1) * PartChars < t.chars
      THEN Asks([t EXCEPT !.page = page, !.ask.n = @ + 1], outbox)
      ELSE IF CharsIn(page) = t.chars /\ Decodes(page)
      THEN Ends([ok |-> TRUE, sid |-> a.sid, page |-> page, from |-> t.from], outbox)
      ELSE Fails(outbox)

\* accept() finds the request that r answers.
Takes(r) == turn # None /\ r.live

\* The answer is of the kind, session, page or part that was asked for.
Fits(a) ==
  CASE a.kind = "list" -> turn.ask.op = "list" /\ a.n = turn.ask.n
    [] a.kind = "info" -> turn.ask.op = "info" /\ a.sid = turn.ask.sid
    [] a.kind = "part" -> turn.ask.op = "part" /\ a.sid = turn.ask.sid /\ a.n = turn.ask.n
    [] OTHER -> FALSE

\* accept(), and how the operation goes on.
Accept ==
  /\ inbox # <<>>
  /\ inbox' = Tail(inbox)
  /\ LET a == Head(inbox).body
     IN  IF ~Takes(Head(inbox)) THEN UNCHANGED <<queue, turn, result, outbox>>
         ELSE IF ~Fits(a) THEN Rejects(turn, outbox)
         ELSE CASE a.kind = "list" -> Listed(turn, a)
                [] a.kind = "info" ->
                     Asks([turn EXCEPT !.chars = a.chars, !.ask.op = "part"], outbox)
                [] OTHER -> Received(turn, a)
  /\ UNCHANGED <<channel, packVars>>

Stale(s) == [i \in DOMAIN s |-> [s[i] EXCEPT !.live = FALSE]]

\* REQUEST_TIMEOUT_MS have passed.
TimesOut ==
  /\ turn # None
  /\ Rejects(turn, Stale(outbox))
  /\ inbox' = Stale(inbox)
  /\ UNCHANGED <<channel, packVars>>

\* The connection closes: release() rejects the request, and what is under way is lost.
Lost ==
  /\ channel
  /\ channel' = FALSE
  /\ inbox' = <<>>
  /\ IF turn # None /\ turn.open THEN Rejects([turn EXCEPT !.open = FALSE], <<>>)
     ELSE outbox' = <<>> /\ UNCHANGED <<queue, turn, result>>
  /\ UNCHANGED packVars

\* A game connects, unless one has.
Connects ==
  /\ ~channel
  /\ channel' = TRUE
  /\ UNCHANGED <<queue, turn, result, wireVars, packVars>>

\* list() and download() wait for their turn.
Asked(k) ==
  /\ k \notin Asking /\ result[k] = None
  /\ queue' = Append(queue, k)
  /\ UNCHANGED <<channel, turn, result, wireVars, packVars>>

\* serial() begins an operation, if a game is connected.
Starts ==
  /\ queue # <<>> /\ turn = None
  /\ LET job == Job[Head(queue)]
         blank == [open |-> TRUE, chars |-> 0, page |-> <<>>, got |-> {}, failed |-> {},
                   was |-> IF job.op = "list" THEN There ELSE {}, came |-> {}, gone |-> {},
                   from |-> version[job.sid]]
     IN  IF ~channel THEN Fails(outbox)
         ELSE IF job.op = "list"
         THEN Asks([ask |-> ListAsk(Head(Packs), 0), packs |-> Packs] @@ blank, outbox)
         ELSE Asks([ask |-> [op |-> "info", pack |-> Owner[job.sid], sid |-> job.sid, n |-> 0],
                    packs |-> <<>>] @@ blank, outbox)
  /\ UNCHANGED <<channel, inbox, packVars>>

-----------------------------------------------------------------------------
Init ==
  /\ channel \in BOOLEAN
  /\ queue = <<>> /\ turn = None
  /\ result = [k \in Callers |-> None]
  /\ outbox = <<>> /\ inbox = <<>>
  /\ \E begun \in SUBSET Sessions :
       store = [p \in PackSet |-> SetToSeq({s \in begun : Owner[s] = p})]
  /\ version = [s \in Sessions |-> IF s \in There THEN 1 ELSE 0]
  /\ cached = [p \in PackSet |-> None]

Next ==
  \/ \E k \in Callers : Asked(k)
  \/ \E s \in Sessions :
       turn # None /\ (Begins(s) \/ Grows(s) \/ IsDeleted(s) \/ Meddles(s))
  \/ Runs \/ Accept \/ TimesOut \/ Lost \/ Connects \/ Starts

\* Timers fire, and the queue goes on.
Fairness == WF_vars(TimesOut) /\ WF_vars(Starts)

Spec == Init /\ [][Next]_vars /\ Fairness

-----------------------------------------------------------------------------
\* What list() reports was in the pack it says while it ran, and nothing is missed that was
\* there all along, unless its pack failed or a deletion moved the pages: "one unreachable
\* pack must not hide the others" (connect.ts:216).
ListingHolds(r) ==
  /\ \A e \in r.got : e.sid \in r.was \union r.came /\ e.pack = Owner[e.sid]
  /\ r.gone = {} =>
       \A s \in r.was : [sid |-> s, pack |-> Owner[s]] \in r.got \/ Owner[s] \in r.failed

\* A download is one snapshot to the last character, and none older than its request,
\* though players run the same commands and late answers arrive.
DownloadHolds(r) ==
  /\ \A i \in DOMAIN r.page : r.page[i].n = i - 1 /\ r.page[i].sid = r.sid
  /\ Last(r.page).version >= r.from
  /\ CharsIn(r.page) = Lengths[Last(r.page).version]

AnswersHold ==
  \A k \in Callers : result[k] # None =>
    (result[k].ok => IF Job[k].op = "list" THEN ListingHolds(result[k])
                     ELSE result[k].sid = Job[k].sid /\ DownloadHolds(result[k]))

\* "A missing response must not wedge the serial queue" (connect.ts:10).
Unwedged == \A k \in Callers : []<>(k \notin Asking)
=============================================================================
