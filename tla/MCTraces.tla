------------------------------- MODULE MCTraces -------------------------------
(***************************************************************************)
(* The trace package: its runtime in a behavior pack, what a session         *)
(* writes, the sink that uploads sessions, the commands that list and fetch  *)
(* them, the frames those travel in, and the page that shows them; the       *)
(* bytes of a trace, its errors, and the lines it is printed in.             *)
(* They share no state in the model, so one run explores each by itself:     *)
(* `subject` says whose behaviour this is.                                   *)
(***************************************************************************)
EXTENDS MCTraceRuntime, TLC

CONSTANTS
  Pushed,    \* TraceUpload
  File,      \* TraceWorkbench
  Viewed,
  e1, e2, Plain  \* TraceErrors

VARIABLES
  session, online, tick, emitted,                                      \* TraceSession
  fresh, buffered, queue, sending, request, late, parts, idle,         \* TraceUpload
  stored, reported, cut,
  channel, line, turn, result, outbox, inbox, shelf, version, cached,  \* TraceConnect
  alive, held, archive, up, rows, shown, ref, key, isLive, busy, decode, front, back,
  listing, faults,                                                     \* TraceWorkbench
  input, wire, lost, read,                                             \* TraceWire
  log, maxChars, answer,                                               \* TraceLog
  error, written,                                                      \* TraceErrors
  stream, conn, messages, said, told, socket                           \* FrameStream

-----------------------------------------------------------------------------
\* Two players' ids and names, texts and what is no value, as events carry them.
Text(x) == [kind |-> "string", text |-> x, name |-> None]
Player(id, name) == [kind |-> "player", text |-> id, name |-> name]
Opaque == [kind |-> "bad", text |-> None, name |-> None]

Pair(k, v) == [key |-> k, value |-> v]
Field(n, type, optional) == [name |-> n, type |-> type, optional |-> optional]

\* Two schemas of one name, as two versions of a module would declare them.
Declared ==
  "new" :> <<Field("a", "uint", TRUE), Field("b", "player", FALSE), Field("c", "string", TRUE)>>
  @@ "old" :> <<Field("a", "string", FALSE)>>

Carried ==
  {<<Pair("a", Text("i")), Pair("b", Player("i", "n"))>>,
   <<Pair("b", Text("i")), Pair("c", Text("n"))>>,
   <<Pair("b", Player("i", "m")), Pair("c", Opaque)>>}

S == INSTANCE TraceSession WITH Ids <- {"i"}, Names <- {"n"}, States <- {"S"}, Components <- {"C"},
       Schemas <- DOMAIN Declared, Label <- [x \in DOMAIN Declared |-> "ev"], Fields <- Declared,
       Title <- "S" :> "s" @@ "C" :> "a", Payloads <- Carried, ChunkRecords <- 4, ChunkTicks <- 1,
       MaxEvents <- 2, MaxRecords <- 0, MaxTick <- 1, Glitches <- TRUE
U == INSTANCE TraceUpload WITH Sessions <- Pushed, Budget <- 4, Around <- 1, MaxChunks <- 4,
       PartBytes <- 2, MaxUploads <- 1, MaxUpload <- 3
X == INSTANCE TraceConnect WITH queue <- line, store <- shelf,
       Job <- "a" :> [op |-> "list", sid |-> "x"] @@ "b" :> [op |-> "get", sid |-> "x"],
       Packs <- <<"p", "q">>, Absent <- {"q"}, Owner <- "x" :> "p" @@ "y" :> "p",
       Lengths <- <<3, 4>>, PartChars <- 2, PageSize <- 1

W == INSTANCE TraceWorkbench WITH online <- up, Sessions <- {Viewed, "kept"},
       Past <- {"kept"}, Deletable <- {Viewed}, Polls <- {"poll"}, MaxFaults <- 1

-----------------------------------------------------------------------------
\* UTF-16 units on either side of every boundary of the encoding; some strings of them.
Units == {0, 127, 128, 2047, 2048, 55295, 55296, 56319, 56320, 57343, 57344, 65535}
Strings ==
  UNION {[1..n -> Units] : n \in 0..2} \union [1..3 -> {65, 55296, 57343, 65535}]

Values ==
  LET Some == {<<"null", None>>, <<"int", -65>>, <<"string", <<2048>>>>}
  IN {<<"null", None>>, <<"false", None>>, <<"number", <<0, 0, 0, 0, 0, 0, 240, 63>>>>}
     \union {<<"uint", n>> : n \in {0, 127, 128, 16383, 16384, 262143}}
     \union {<<"int", n>> : n \in {-1, -64, -65, -8192, -131072, -131073}}
     \union {<<"string", s>> : s \in {<<>>, <<55296>>, <<55296, 56320>>}}
     \union {<<"array", s>> : s \in UNION {[1..n -> Some] : n \in 0..2}}
     \union {<<"object", s>> :
               s \in UNION {[1..n -> [key : {<<>>, <<97>>}, value : Some]] : n \in 0..2}}
     \union {<<"array", <<<<"array", <<<<"uint", 300>>>>>>,
                         <<"object", <<[key |-> <<97>>, value |-> <<"array", <<>>>>]>>>>>>>>}

Containers ==
  [names : {<<<<97>>, <<>>, <<2048>>, <<98>>>>}, begame : {None, <<49>>}, pack : {None, <<>>},
   start : {<<0, 300>>}, config : {None, <<"array", <<<<"true", None>>>>>>},
   chunks : {<<>>, <<<<1, 200>>, <<>>>>}, status : {"completed", "reloaded"}, end : {<<1, 2>>},
   reason : {None, <<97>>}, counts : {<<128, 2>>}]

Inputs ==
  ({"text"} \X Strings) \union ({"value"} \X Values) \union ({"trace"} \X Containers)
  \union ({"bytes"} \X UNION {[1..n -> {0, 90, 255}] : n \in 0..4})

\* Two errors that may cause and aggregate each other in any way.
Thrown ==
  LET Errors(n, m, s) ==
        [name : {n}, message : {m}, stack : {s}, cause : {e1, e2, Plain, None},
         errors : {<<>>, <<e2>>, <<e1, e1>>, <<Plain, e2>>, <<e2, e1, e2>>}]
      NoError == [name |-> 0, message |-> 2, stack |-> 0, cause |-> None, errors |-> <<>>]
  IN {e1 :> x @@ e2 :> y @@ Plain :> NoError :
        x \in Errors(1, 3, 3) \union Errors(1, 1, 1), y \in Errors(1, 0, 0) \union Errors(2, 1, 2)}

I == INSTANCE TraceWire WITH back <- read, MaxSafe <- 262143, VarBytes <- 3
L == INSTANCE TraceLog WITH Stored <- <<"a", "b">>, Length <- "a" :> 4 @@ "b" :> 1,
       Sizes <- {2, 3}, Default <- 2, MaxLines <- 4
R == INSTANCE TraceErrors WITH result <- written, Errors <- {e1, e2}, MaxEntries <- 4,
       MaxDepth <- 2, MaxText <- 9, NameBytes <- 1, MessageBytes <- 2, StackBytes <- 3,
       NestedBytes <- 1

Frame(op, fin, size) == [op |-> op, fin |-> fin, size |-> size]

F == INSTANCE FrameStream WITH heard <- messages, MaxFrame <- 8, HeadBytes <- 2, MaxRead <- 5,
       MaxSent <- 4, MaxSaid <- 2,
       Frames <- {Frame("text", TRUE, 1), Frame("text", FALSE, 2), Frame("text", TRUE, 9),
                  Frame("rest", TRUE, 4), Frame("rest", FALSE, 5), Frame("binary", FALSE, 0),
                  Frame("ping", TRUE, 0), Frame("close", TRUE, 2)}

ASSUME TracesAssumption ==
  S!SessionAssumption /\ U!UploadAssumption /\ X!ConnectAssumption /\ W!WorkbenchAssumption
  /\ I!WireAssumption /\ L!LogAssumption /\ R!ErrorsAssumption
  /\ F!FrameAssumption

sessionVars == <<session, online, tick, emitted>>
uploadVars == <<fresh, buffered, queue, sending, request, late, parts, idle, stored, reported, cut>>
connectVars == <<channel, line, turn, result, outbox, inbox, shelf, version, cached>>
workVars ==
  <<alive, held, archive, up, rows, shown, ref, key, isLive, busy, decode, front, back,
    listing, faults>>
dataVars == <<input, wire, lost, read, log, maxChars, answer, error, written>>
frameVars == <<stream, conn, messages, said, told, socket>>
allVars ==
  <<runtimeVars, sessionVars, uploadVars, connectVars, workVars, dataVars, frameVars>>

NoSession == session = None /\ online = None /\ tick = None /\ emitted = None

NoUpload ==
  /\ fresh = None /\ buffered = None /\ queue = None /\ sending = None /\ request = None
  /\ late = None /\ parts = None /\ idle = None /\ stored = None /\ reported = None /\ cut = None

NoConnect ==
  /\ channel = None /\ line = None /\ turn = None /\ result = None /\ outbox = None
  /\ inbox = None /\ shelf = None /\ version = None /\ cached = None

NoWork ==
  /\ alive = None /\ held = None /\ archive = None /\ up = None /\ rows = None
  /\ shown = None /\ ref = None /\ key = None /\ isLive = None /\ front = None
  /\ busy = None /\ decode = None
  /\ back = None /\ listing = None /\ faults = None

NoWire == input = None /\ wire = None /\ lost = None /\ read = None
NoLog == log = None /\ maxChars = None /\ answer = None
NoErrors == error = None /\ written = None

NoFrames ==
  /\ stream = None /\ conn = None /\ messages = None
  /\ said = None /\ told = None /\ socket = None

AnyInit ==
  /\ subject \in {"bridge", "history", "manager", "session", "upload", "connect", "work",
                  "wire", "log", "errors", "frames"}
  /\ RuntimeInit
  /\ IF subject = "session" THEN S!Init ELSE NoSession
  /\ IF subject = "upload" THEN U!Init ELSE NoUpload
  /\ IF subject = "connect" THEN X!Init ELSE NoConnect
  /\ IF subject = "work" THEN W!Init ELSE NoWork
  /\ IF subject = "wire" THEN I!Init ELSE NoWire
  /\ IF subject = "log" THEN L!Init ELSE NoLog
  /\ IF subject = "errors" THEN R!Init ELSE NoErrors
  /\ IF subject = "frames" THEN F!Init ELSE NoFrames

ButRuntime == <<sessionVars, uploadVars, connectVars, workVars, dataVars, frameVars>>
ButSession ==
  <<runtimeVars, uploadVars,
    connectVars, workVars, dataVars, frameVars>>
ButUpload ==
  <<runtimeVars, sessionVars,
    connectVars, workVars, dataVars, frameVars>>
ButConnect ==
  <<runtimeVars, sessionVars,
    uploadVars, workVars, dataVars, frameVars>>
ButWork ==
  <<runtimeVars, sessionVars,
    uploadVars, connectVars, dataVars, frameVars>>
ButData ==
  <<runtimeVars, sessionVars,
    uploadVars, connectVars, workVars, frameVars>>
ButFrames ==
  <<runtimeVars, sessionVars,
    uploadVars, connectVars, workVars, dataVars>>

AnyNext ==
  \/ RuntimeNext /\ UNCHANGED ButRuntime
  \/ subject = "session" /\ S!Next /\ UNCHANGED ButSession
  \/ subject = "upload" /\ U!Next /\ UNCHANGED ButUpload
  \/ subject = "connect" /\ X!Next /\ UNCHANGED ButConnect
  \/ subject = "work" /\ W!Next /\ UNCHANGED ButWork
  \/ /\ subject = "wire" /\ I!Next
     /\ UNCHANGED <<ButData, log, maxChars, answer, error, written>>
  \/ /\ subject = "log" /\ L!Next
     /\ UNCHANGED <<ButData, input, wire, lost, read, error, written>>
  \/ /\ subject = "errors" /\ R!Next
     /\ UNCHANGED <<ButData, input, wire, lost, read, log, maxChars, answer>>
  \/ subject = "frames" /\ F!Next /\ UNCHANGED ButFrames

\* The fairness of TraceBridge, of TraceHistory, of TraceConnect and of TraceWorkbench, each of
\* its own variables: the others do not change then.
Traces ==
  /\ AnyInit /\ [][AnyNext]_allVars
  /\ WF_bridgeVars(subject = "bridge" /\ B!Tick)
  /\ WF_bridgeVars(subject = "bridge" /\ B!TimerFires)
  /\ \A c \in Sockets : WF_bridgeVars(subject = "bridge" /\ B!CloseEvent(c))
  /\ WF_historyVars(subject = "history" /\ H!WorldLoad)
  /\ WF_historyVars(subject = "history" /\ H!Drain)
  /\ WF_historyVars(subject = "history" /\ H!Sweep)
  /\ WF_connectVars(subject = "connect" /\ X!TimesOut)
  /\ WF_connectVars(subject = "connect" /\ X!Starts)
  /\ WF_workVars(subject = "work" /\ W!FrontStep)
  /\ WF_workVars(subject = "work" /\ W!DecodeEnds)
  /\ WF_workVars(subject = "work" /\ W!BackStep)
  /\ \A i \in W!Slots :
       /\ WF_workVars(subject = "work" /\ W!Polled(i))
       /\ WF_workVars(subject = "work" /\ W!ListStep(i))
  /\ WF_workVars(subject = "work" /\ ~up /\ W!Connection)

-----------------------------------------------------------------------------
(* What the modules say of themselves.                                       *)

\* What a session wrote reads back, as do its bytes and the lines it is printed in, and no
\* error in it outgrows its budgets.
TraceIsWhole ==
  /\ subject = "session" => S!TraceIsWhole /\ S!ChunksFollow
  /\ subject = "wire" => I!WireIsFaithful
  /\ subject = "log" => L!LogReadsBack
  /\ subject = "errors" => R!ErrorsAreBounded

\* What is uploaded, listed or downloaded over /connect is whole, or reported as failed, and
\* so is each message of the connection; the page shows the session that is selected in it.
ArrivesWhole ==
  /\ subject = "upload" => U!UploadsArrive
  /\ subject = "connect" => X!AnswersHold
  /\ subject = "work" => W!SelectionAgrees
  /\ subject = "frames" => F!FramesArrive

\* What is overdue is collected.
ExpiredIsCollected == \A s \in H!Sessions : []<>(subject = "history" => ~H!Overdue(s))

\* A bridge that nobody stopped dials again; an answer that stays away wedges no queue; the page
\* lists what there is, shows that a session has ended, and its buttons are enabled again.
NothingWaitsForever ==
  /\ []<>(subject = "bridge" => ~B!Waits)
  /\ \A k \in X!Callers : []<>(subject = "connect" => k \notin X!Asking)
  /\ []<>(subject = "work" => ~W!RowsBehind)
  /\ []<>(subject = "work" => ~W!LagsBehind)
  /\ []<>(subject = "work" => ~busy)
=============================================================================
