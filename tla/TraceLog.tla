------------------------------- MODULE TraceLog -------------------------------
(***************************************************************************)
(* A trace that is exported by printing it: the game prints the base64 of a  *)
(* session in numbered lines (trace/runtime/consoleExporter.ts), somebody    *)
(* copies them out of the content log, and the Observatory or a tool puts    *)
(* them together again (trace/tools/logParser.ts, observatory/src/decode.mjs)*)
(*                                                                           *)
(* The copy may lack lines, repeat them or have them in another order.  The  *)
(* characters of a session are taken to be all different.                    *)
(***************************************************************************)
EXTENDS Naturals, Sequences, SequencesExt, FiniteSets

CONSTANTS
  None,
  Stored,   \* the finished sessions, the oldest first
  Length,   \* of the base64 of each
  Sizes,    \* what maxPayloadChars is configured to, the default among them
  Default,
  MaxLines  \* bound: the lines of the log

LogAssumption ==
  /\ Stored # <<>> /\ Length \in [ToSet(Stored) -> Nat \ {0}]
  /\ Default \in Sizes /\ Sizes \subseteq Nat \ {0} /\ MaxLines \in Nat
  /\ None \notin ToSet(Stored)

VARIABLES
  log,       \* the lines with a marker: [sid, part, count, payload]
  maxChars,  \* `maxPayloadChars`
  answer     \* None, or of decodeTracePayload(): [asked, kind, sid, text, missing]

vars == <<log, maxChars, answer>>

Sessions == ToSet(Stored)
Base64(s) == [k \in 1..Length[s] |-> <<s, k>>]

-----------------------------------------------------------------------------
(* ConsoleTraceExporter *)

PartCount(s, n) == (Length[s] + n - 1) \div n

Line(s, i, n) ==
  [sid |-> s, part |-> i, count |-> PartCount(s, n),
   payload |-> SubSeq(Base64(s), (i - 1) * n + 1, IF i * n <= Length[s] THEN i * n ELSE Length[s])]

\* export(); without an id, of the latest session.
Export(s) ==
  /\ Len(log) + PartCount(s, maxChars) <= MaxLines
  /\ log' = log \o [i \in 1..PartCount(s, maxChars) |-> Line(s, i, maxChars)]
  /\ answer' = None /\ UNCHANGED maxChars

Configure(n) ==
  /\ n # maxChars
  /\ maxChars' = n
  /\ answer' = None /\ UNCHANGED log

-----------------------------------------------------------------------------
(* What becomes of the log. *)

Loses(i) == log' = RemoveAt(log, i)
Repeats(i) == Len(log) < MaxLines /\ log' = Append(log, log[i])
Swaps(i) == i < Len(log) /\ log' = [log EXCEPT ![i] = log[i + 1], ![i + 1] = log[i]]

Copied(i) ==
  /\ Loses(i) \/ Repeats(i) \/ Swaps(i)
  /\ answer' = None /\ UNCHANGED maxChars

-----------------------------------------------------------------------------
(* collectTraceExports(), and what is answered *)

Of(s) == {i \in DOMAIN log : log[i].sid = s}
Listed == {s \in Sessions : Of(s) # {}}
LastOffset(s) == CHOOSE i \in Of(s) : \A j \in Of(s) : j <= i
Count(s) == log[LastOffset(s)].count

\* Lines of a session that contradict each other; the reader then throws.
Conflict(s) ==
  \E i, j \in Of(s) :
    \/ log[i].count # log[j].count
    \/ log[i].part = log[j].part /\ log[i].payload # log[j].payload

Missing(s) == {p \in 1..Count(s) : \A i \in Of(s) : log[i].part # p}
Complete == {s \in Listed : Missing(s) = {}}

\* The parts in their order.
Joined(s) ==
  FlattenSeq([p \in 1..Count(s) |-> log[CHOOSE i \in Of(s) : log[i].part = p].payload])

Latest(ss) == CHOOSE s \in ss : \A t \in ss : LastOffset(t) <= LastOffset(s)

Answer(asked, kind, s, text, missing) ==
  answer' = [asked |-> asked, kind |-> kind, sid |-> s, text |-> text, missing |-> missing]

\* decodeTracePayload() of a session, or of the latest that is complete.
Decode(asked) ==
  /\ UNCHANGED <<log, maxChars>>
  /\ LET s == IF asked # None THEN asked ELSE Latest(Complete)
     IN IF \E t \in Listed : Conflict(t) THEN Answer(asked, "throws", None, <<>>, {})
        ELSE IF asked # None /\ asked \notin Listed THEN Answer(asked, "unknown", asked, <<>>, {})
        ELSE IF asked # None /\ asked \notin Complete
        THEN Answer(asked, "incomplete", asked, <<>>, Missing(asked))
        ELSE IF asked = None /\ Listed = {} THEN Answer(asked, "unknown", None, <<>>, {})
        ELSE IF asked = None /\ Complete = {}
        THEN Answer(asked, "incomplete", Latest(Listed), <<>>, Missing(Latest(Listed)))
        ELSE Answer(asked, "trace", s, Joined(s), {})

-----------------------------------------------------------------------------
Init == log = <<>> /\ maxChars = Default /\ answer = None

Next ==
  \/ \E s \in Sessions : Export(s)
  \/ \E n \in Sizes : Configure(n)
  \/ \E i \in DOMAIN log : Copied(i)
  \/ \E asked \in Sessions \union {None} : answer = None /\ Decode(asked)

Spec == Init /\ [][Next]_vars

-----------------------------------------------------------------------------
(* What can be put together. *)

Lines(s) == {log[i] : i \in Of(s)}
Printed(s, n) == {Line(s, i, n) : i \in 1..PartCount(s, n)}

\* The log has a session whole, or lines of two sizes of one.
IsThere(s) == \E n \in Sizes : Lines(s) = Printed(s, n)
Mixed == \E s \in Listed : \A n \in Sizes : ~(Lines(s) \subseteq Printed(s, n))

\* What is read is the session that was printed, and the last that is there if none is
\* named; it is read whenever it is there.  Only sizes that are mixed make the reader
\* throw, or give a text whose length is another than the container's.
LogReadsBack ==
  answer # None =>
    LET s == answer.sid
    IN /\ answer.kind = "trace" =>
            /\ answer.text = Base64(s) \/ (Mixed /\ Len(answer.text) # Length[s])
            /\ answer.asked = None =>
                 \A t \in Sessions : IsThere(t) => LastOffset(t) <= LastOffset(s)
       /\ answer.kind = "incomplete" => ~IsThere(s) /\ answer.missing # {}
       /\ answer.kind = "unknown" => s = None \/ Of(s) = {}
       /\ answer.kind = "throws" => Mixed
=============================================================================
