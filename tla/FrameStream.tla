----------------------------- MODULE FrameStream -----------------------------
(***************************************************************************)
(* The transport under the /connect bridge and the browser's page: frames    *)
(* of a WebSocket that arrive in pieces of any size                          *)
(* (observatory/server/ws.ts, RawWebSocketConnection).                       *)
(*                                                                           *)
(* A byte is not modelled: the peer's frames are a sequence, of which a      *)
(* number of bytes has arrived, and a message is the list of the frames its  *)
(* text is in.  The peer keeps to RFC 6455, but its frames and messages may  *)
(* be too large.                                                             *)
(***************************************************************************)
EXTENDS Naturals, Sequences, SequencesExt

CONSTANTS
  None,
  Frames,    \* what the peer may send: [op, fin, size]
  MaxSent,   \* bounds the frames of a stream
  MaxFrame,  \* MAX_FRAME
  HeadBytes,      \* the bytes in front of a payload
  MaxRead,   \* the most the socket hands over at once
  MaxSaid    \* bounds what is sent to the peer

FrameAssumption ==
  /\ Frames \subseteq [op : {"text", "binary", "rest", "ping", "pong", "close"},
                       fin : BOOLEAN, size : Nat]
  /\ MaxFrame \in Nat /\ HeadBytes \in Nat \ {0, 1} /\ MaxSent \in Nat /\ MaxSaid \in Nat
  /\ MaxRead \in 1..(MaxFrame - HeadBytes)


VARIABLES
  stream,  \* the peer's frames
  conn,    \* the connection: see TypeOK
  heard,   \* what onMessage was called with
  said,    \* the frames written to the peer
  told,    \* calls of onClose
  socket   \* "open", or what has ended it: "cut" by the network, "destroyed" by the connection

vars == <<stream, conn, heard, said, told, socket>>

-----------------------------------------------------------------------------
\* The peer's stream: a text or binary message goes on until a last frame, frames of control
\* may come in between, and nothing follows the close frame.
IsControl(f) == f.op \in {"ping", "pong", "close"}

Unfinished(s) ==
  LET data == SelectSeq(s, LAMBDA f : ~IsControl(f))
  IN data # <<>> /\ ~Last(data).fin

Legal(s) ==
  \A i \in DOMAIN s :
    LET before == SubSeq(s, 1, i - 1)
    IN /\ \A j \in 1..(i - 1) : s[j].op # "close"
       /\ ~IsControl(s[i]) => (s[i].op = "rest" <=> Unfinished(before))

Streams == {s \in UNION {[1..n -> Frames] : n \in 0..MaxSent} : Legal(s)}

BytesOf(s) == FoldLeft(LAMBDA n, f : n + HeadBytes + f.size, 0, s)
Size(text) == FoldLeft(LAMBDA n, i : n + stream[i].size, 0, text)

\* The bytes of `buffer`.
Buffered(c) == c.arrived - BytesOf(SubSeq(stream, 1, c.taken))

-----------------------------------------------------------------------------
(* A step of the connection works on this record. *)

Whole == [conn |-> conn, heard |-> heard, said |-> said, told |-> told, socket |-> socket,
          done |-> FALSE]

Becomes(r) ==
  /\ conn' = r.conn /\ heard' = r.heard /\ said' = r.said
  /\ told' = r.told /\ socket' = r.socket

Finish(r) ==
  IF r.conn.closed THEN r ELSE [r EXCEPT !.conn.closed = TRUE, !.told = @ + 1]

Destroy(r) == [Finish(r) EXCEPT !.socket = "destroyed", !.done = TRUE]

Write(r, op, i) == [r EXCEPT !.said = Append(@, <<op, i>>)]
Hear(r, text) == [r EXCEPT !.heard = Append(@, text)]

\* A text frame that is not the last of its message.
First(r, i) == [r EXCEPT !.conn.opcode = "text", !.conn.parts = <<i>>]

Continued(r, i) ==
  LET parts == Append(r.conn.parts, i)
  IN IF Size(parts) > MaxFrame THEN Destroy([r EXCEPT !.conn.parts = parts])
     ELSE IF ~stream[i].fin THEN [r EXCEPT !.conn.parts = parts]
     ELSE Hear([r EXCEPT !.conn.opcode = None, !.conn.parts = <<>>], parts)

\* Frame i is whole: it is taken from the buffer and handled.
Take(before, i) ==
  LET f == stream[i]
      r == [before EXCEPT !.conn.taken = i]
  IN CASE f.op = "close" -> [Finish(Write(r, "close", i)) EXCEPT !.done = TRUE]
       [] f.op = "ping" -> Write(r, "pong", i)
       [] f.op = "text" /\ ~f.fin -> First(r, i)
       [] f.op = "rest" /\ r.conn.opcode = "text" -> Continued(r, i)
       [] f.op = "text" /\ f.fin -> Hear(r, <<i>>)
       [] OTHER -> r

\* receive(): one turn of its loop, for the frame the buffer begins with.
Turn(r, i) ==
  IF r.done THEN r
  ELSE IF Buffered(r.conn) < HeadBytes THEN [r EXCEPT !.done = TRUE]
  ELSE IF stream[i].size > MaxFrame THEN Destroy(r)
  ELSE IF Buffered(r.conn) < HeadBytes + stream[i].size THEN [r EXCEPT !.done = TRUE]
  ELSE Take(r, i)

\* receive(); a connection that is closed receives like any other.
Data(n) ==
  /\ socket = "open"
  /\ conn.arrived + n <= BytesOf(stream)
  /\ LET r == [Whole EXCEPT !.conn.arrived = @ + n]
     IN Becomes(IF Buffered(r.conn) > MaxFrame * 2 THEN Destroy(r)
                ELSE FoldLeft(Turn, r, [k \in 1..(Len(stream) - conn.taken) |-> conn.taken + k]))
  /\ UNCHANGED stream

\* The peer has ended its side, with or without a close frame, or the connection is lost.
Gone ==
  /\ socket = "open"
  /\ Becomes([Finish(Whole) EXCEPT !.socket = "cut"])
  /\ UNCHANGED stream

\* send(): a write that throws closes the connection.
Send ==
  /\ ~conn.closed /\ Len(said) < MaxSaid
  /\ Becomes(Write(Whole, "text", 0)) \/ Becomes(Finish(Whole))
  /\ UNCHANGED stream

\* close(): the peer may still be sending.
Close ==
  /\ ~conn.closed
  /\ Becomes(Finish(Write(Whole, "close", 0))) \/ Becomes(Finish(Whole))
  /\ UNCHANGED stream

Init ==
  /\ stream \in Streams
  /\ conn = [arrived |-> 0, taken |-> 0, opcode |-> None, parts |-> <<>>, closed |-> FALSE]
  /\ heard = <<>> /\ said = <<>> /\ told = 0 /\ socket = "open"

Next == (\E n \in 1..MaxRead : Data(n)) \/ Gone \/ Send \/ Close

Spec == Init /\ [][Next]_vars

-----------------------------------------------------------------------------
TypeOK ==
  /\ stream \in Streams
  /\ conn \in [arrived : 0..BytesOf(stream), taken : 0..Len(stream), opcode : {None, "text"},
               parts : Seq(DOMAIN stream), closed : BOOLEAN]
  /\ heard \in Seq(Seq(DOMAIN stream)) /\ told \in Nat
  /\ socket \in {"open", "cut", "destroyed"}

\* What the peer has said in its first n frames: of every text message that ends there, and
\* is not too large, the frames it is in.
Opening(i) == CHOOSE j \in 1..i : /\ stream[j].op \in {"text", "binary"}
                                  /\ \A k \in (j + 1)..i : stream[k].op \notin {"text", "binary"}
Parts(i) == SelectSeq([k \in 1..i |-> k],
                      LAMBDA k : k >= Opening(i) /\ ~IsControl(stream[k]))
Ends(i) == ~IsControl(stream[i]) /\ stream[i].fin /\ stream[Opening(i)].op = "text"
Messages(n) ==
  LET ends == SelectSeq([k \in 1..n |-> k], Ends)
  IN SelectSeq([k \in DOMAIN ends |-> Parts(ends[k])], LAMBDA text : Size(text) <= MaxFrame)

\* The frames whose last byte has arrived.
Complete == {n \in DOMAIN stream : BytesOf(SubSeq(stream, 1, n)) <= conn.arrived}

\* However the bytes are cut, the messages of the frames taken are heard, whole, in order and
\* once; every ping has its pong; every complete frame is taken, and no other; only what is too
\* large has the connection destroyed; and who has opened it is told once that it is closed.
FramesArrive ==
  /\ heard = Messages(conn.taken)
  /\ SelectSeq(said, LAMBDA w : w[1] = "pong") =
       [k \in DOMAIN SelectSeq(SubSeq(stream, 1, conn.taken), LAMBDA f : f.op = "ping") |->
          <<"pong", SelectSeq([i \in 1..conn.taken |-> i], LAMBDA i : stream[i].op = "ping")[k]>>]
  /\ 1..conn.taken \subseteq Complete
  /\ socket # "destroyed" => Complete \subseteq 1..conn.taken
  /\ socket = "destroyed" =>
       \/ conn.taken < Len(stream) /\ stream[conn.taken + 1].size > MaxFrame
       \/ Size(conn.parts) > MaxFrame
  /\ told = (IF conn.closed THEN 1 ELSE 0)
  /\ socket # "open" => conn.closed
=============================================================================
