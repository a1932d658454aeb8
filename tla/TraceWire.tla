------------------------------ MODULE TraceWire ------------------------------
(***************************************************************************)
(* The bytes of a trace: numbers, strings and values (trace/wire/binary.ts), *)
(* the container of a session (wire/container.ts), and the base64 that it    *)
(* travels in (wire/base64.ts).                                              *)
(*                                                                           *)
(* A writer writes one input; some of what it wrote may be lost at the end;  *)
(* a reader reads the rest.  A string is the sequence of its UTF-16 units; an  *)
(* input and a value are pairs, of what it is and of what is in it.           *)
(***************************************************************************)
EXTENDS Integers, Sequences, SequencesExt

CONSTANTS
  None,
  MaxSafe,   \* Number.MAX_SAFE_INTEGER
  VarBytes,  \* 8: the bytes of the longest number that is read
  Inputs     \* what is written: pairs of a kind and a value, string, trace or bytes

Kind(x) == x[1]
Of(x) == x[2]

WireAssumption ==
  /\ VarBytes \in 1..3 /\ MaxSafe \in 1..(128 ^ VarBytes - 1)
  /\ \A i \in Inputs : Kind(i) \in {"value", "text", "trace", "bytes"}

VARIABLES
  input,  \* what is written
  wire,   \* None, or what there is of it
  lost,   \* how much of it is lost
  back    \* None, or what is read: [at, v], `at` being 0 when the reader throws

vars == <<input, wire, lost, back>>

-----------------------------------------------------------------------------
(* BinaryWriter *)

Total(s) == FoldLeft(LAMBDA x, y : x + y, 0, s)

VarUint[n \in Nat] == IF n < 128 THEN <<n>> ELSE <<128 + (n % 128)>> \o VarUint[n \div 128]

ZigZag(n) == IF n >= 0 THEN n * 2 ELSE -n * 2 - 1

High(c) == c \in 55296..56319
Low(c) == c \in 56320..57343

\* A unit that begins a pair, and one that ends it.
Paired(s, i) == i < Len(s) /\ High(s[i]) /\ Low(s[i + 1])
EndsPair(s, i) == i > 1 /\ Paired(s, i - 1)

\* utf8ByteLength(), of one character.
Width(s, i) ==
  CASE s[i] < 128       -> 1
    [] s[i] \in 128..2047 -> 2
    [] Paired(s, i)     -> 4
    [] OTHER            -> 3

Tail6(code, n) == 128 + ((code \div 64 ^ n) % 64)

\* encodeUtf8(), of one character; a unit without its pair is written as it is.
Bytes(s, i) ==
  LET code == IF Paired(s, i) THEN 65536 + (s[i] % 1024) * 1024 + (s[i + 1] % 1024) ELSE s[i]
  IN CASE Width(s, i) = 1 -> <<code>>
       [] Width(s, i) = 2 -> <<192 + code \div 64, Tail6(code, 0)>>
       [] Width(s, i) = 3 -> <<224 + code \div 4096, Tail6(code, 1), Tail6(code, 0)>>
       [] OTHER -> <<240 + code \div 262144, Tail6(code, 2), Tail6(code, 1), Tail6(code, 0)>>

Utf8(s) == FlattenSeq([i \in DOMAIN s |-> IF EndsPair(s, i) THEN <<>> ELSE Bytes(s, i)])

ByteLength(s) == Total([i \in DOMAIN s |-> IF EndsPair(s, i) THEN 0 ELSE Width(s, i)])

\* truncateUtf8(): up to the first character that does not fit.
Truncated(s, max) ==
  LET Past == {i \in DOMAIN s :
                ~EndsPair(s, i) /\ ByteLength(SubSeq(s, 1, i - 1)) + Width(s, i) > max}
  IN IF Past = {} THEN s
     ELSE SubSeq(s, 1, (CHOOSE i \in Past : \A j \in Past : i <= j) - 1)

WriteString(s) == VarUint[Len(Utf8(s))] \o Utf8(s)

Tags == <<"null", "false", "true", "uint", "int", "number", "string", "array", "object">>
TagOf(value) == (CHOOSE t \in DOMAIN Tags : Tags[t] = Kind(value)) - 1

\* writeRawValue()
RECURSIVE WriteValue(_)
WriteValue(value) ==
  <<TagOf(value)>> \o (
  CASE Kind(value) \in {"null", "false", "true"} -> <<>>
    [] Kind(value) = "uint"   -> VarUint[Of(value)]
    [] Kind(value) = "int"    -> VarUint[ZigZag(Of(value))]
    [] Kind(value) = "number" -> Of(value)
    [] Kind(value) = "string" -> WriteString(Of(value))
    [] Kind(value) = "array"  ->
         VarUint[Len(Of(value))]
         \o FlattenSeq([i \in DOMAIN Of(value) |-> WriteValue(Of(value)[i])])
    [] OTHER ->
         VarUint[Len(Of(value))]
         \o FlattenSeq([i \in DOMAIN Of(value) |->
              WriteString(Of(value)[i].key) \o WriteValue(Of(value)[i].value)]))

\* The writer throws: a negative number is doubled before it is written.
Unwritable(value) == Kind(value) = "int" /\ ZigZag(Of(value)) > MaxSafe

-----------------------------------------------------------------------------
(* BinaryReader: where the next read is, and the value. *)

Thrown == [at |-> 0, v |-> None]
Read(at, v) == [at |-> at, v |-> v]

ReadByte(d, at) == IF at \in DOMAIN d THEN Read(at + 1, d[at]) ELSE Thrown

ReadBytes(d, at, n) ==
  IF at > 0 /\ at + n - 1 <= Len(d) THEN Read(at + n, SubSeq(d, at, at + n - 1)) ELSE Thrown

ReadVarUint(d, at) ==
  LET Ends == {i \in DOMAIN d : i \in at..(at + VarBytes - 1) /\ d[i] < 128}
      End == CHOOSE i \in Ends : \A j \in Ends : i <= j
      n == Total([i \in 1..(End - at + 1) |-> (d[at + i - 1] % 128) * 128 ^ (i - 1)])
  IN IF at = 0 \/ Ends = {} THEN Thrown
     ELSE IF n > MaxSafe THEN Thrown ELSE Read(End + 1, n)

ReadVarInt(d, at) ==
  LET n == ReadVarUint(d, at)
  IN IF n.at = 0 THEN Thrown
     ELSE Read(n.at, IF n.v % 2 = 0 THEN n.v \div 2 ELSE -((n.v + 1) \div 2))

\* How many bytes follow the first one of a character.
Follow(byte) ==
  CASE byte < 128 -> 0 [] byte \in 192..223 -> 1 [] byte \in 224..239 -> 2
    [] byte \in 240..247 -> 3 [] OTHER -> 4

LowBits(b, i) == b[i] % 64

\* decodeUtf8(), of the character that begins at i: its number, its units, and whether it
\* is one.
Code(b, i) ==
  CASE Follow(b[i]) = 0 -> b[i]
    [] Follow(b[i]) = 1 -> (b[i] % 32) * 64 + LowBits(b, i + 1)
    [] Follow(b[i]) = 2 -> (b[i] % 16) * 4096 + LowBits(b, i + 1) * 64 + LowBits(b, i + 2)
    [] OTHER -> (b[i] % 8) * 262144 + LowBits(b, i + 1) * 4096
                + LowBits(b, i + 2) * 64 + LowBits(b, i + 3)

Units(code, long) ==
  IF long THEN <<55296 + (code - 65536) \div 1024, 56320 + ((code - 65536) % 1024)>>
  ELSE <<code>>

SoundAt(b, i) ==
  /\ Follow(b[i]) < 4 /\ i + Follow(b[i]) <= Len(b)
  /\ \A j \in (i + 1)..(i + Follow(b[i])) : b[j] \in 128..191
  /\ Code(b, i) < 1114112

Utf16(b) ==
  FoldLeft(LAMBDA r, i :
             IF i # r.at THEN r  \* within a character, or after one that is none
             ELSE IF SoundAt(b, i)
                  THEN Read(i + Follow(b[i]) + 1, r.v \o Units(Code(b, i), Follow(b[i]) = 3))
                  ELSE Thrown,
           Read(1, <<>>), [i \in 1..Len(b) |-> i])

\* As many bytes as the number before them says, and the string in them.
Sized(d, n) == ReadBytes(d, n.at, n.v)
Text(at, s) == IF at = 0 \/ s.at = 0 THEN Thrown ELSE Read(at, s.v)
TextIn(b) == Text(b.at, Utf16(b.v))

ReadString(d, at) == TextIn(Sized(d, ReadVarUint(d, at)))

\* n things, one after the other, with what Item reads at a place.
ReadAll(Item(_), at, n) ==
  LET Then(r, i) ==
        LET one == Item(r.at)
        IN IF r.at = 0 \/ one.at = 0 THEN Thrown ELSE Read(one.at, Append(r.v, one.v))
  IN FoldLeft(Then, Read(at, <<>>), [i \in 1..n |-> i])

\* As many things as the number before them says.
Several(Item(_), n) == IF n.at = 0 THEN Thrown ELSE ReadAll(Item, n.at, n.v)

Tagged(tag, r) == IF r.at = 0 THEN Thrown ELSE Read(r.at, <<tag, r.v>>)

\* readRawValue(): a tag, then what the tag says.  The entries of an object, a list here, are
\* assigned to a plain object, which would lose one named __proto__: no input has such a one.
RECURSIVE ReadValue(_, _)
ReadContent(d, at, tag) ==
  LET Entry(k) ==
        LET e == ReadValue(d, k.at)
        IN IF k.at = 0 \/ e.at = 0 THEN Thrown ELSE Read(e.at, [key |-> k.v, value |-> e.v])
  IN CASE tag \in {"null", "false", "true"} -> Read(at, None)
       [] tag = "uint"   -> ReadVarUint(d, at)
       [] tag = "int"    -> ReadVarInt(d, at)
       [] tag = "number" -> ReadBytes(d, at, 8)
       [] tag = "string" -> ReadString(d, at)
       [] tag = "array"  -> Several(LAMBDA p : ReadValue(d, p), ReadVarUint(d, at))
       [] OTHER -> Several(LAMBDA p : Entry(ReadString(d, p)), ReadVarUint(d, at))

ReadValue(d, at) ==
  LET t == ReadByte(d, at)
  IN IF t.at = 0 \/ t.v + 1 \notin DOMAIN Tags THEN Thrown
     ELSE Tagged(Tags[t.v + 1], ReadContent(d, t.at, Tags[t.v + 1]))

-----------------------------------------------------------------------------
(* The container: [names, versions, ticks, config, chunks, status, over, reason, *)
(* counts], of which versions, config and reason may be None.                *)

Magic == <<66, 69, 71, 84>>  \* TRACE_MAGIC
Version == 1                 \* TRACE_FORMAT_VERSION
Statuses == <<"completed", "aborted", "crashed", "interrupted", "reloaded">>

Numbers(ns) == FlattenSeq([i \in DOMAIN ns |-> VarUint[ns[i]]])
Strings(ss) == FlattenSeq([i \in DOMAIN ss |-> WriteString(ss[i])])
Bit(present, n) == IF present THEN n ELSE 0

Flags(t) == Bit(t.begame # None, 1) + Bit(t.pack # None, 2) + Bit(t.config # None, 4)

\* encodeBegTrace()
Encoded(t) ==
  Magic \o <<Version>> \o Strings(t.names) \o <<Flags(t)>>
  \o (IF t.begame = None THEN <<>> ELSE WriteString(t.begame))
  \o (IF t.pack = None THEN <<>> ELSE WriteString(t.pack))
  \o Numbers(t.start)
  \o (IF t.config = None THEN <<>> ELSE WriteValue(t.config))
  \o VarUint[Len(t.chunks)]
  \o FlattenSeq([i \in DOMAIN t.chunks |-> VarUint[Len(t.chunks[i])] \o t.chunks[i]])
  \o <<(CHOOSE i \in DOMAIN Statuses : Statuses[i] = t.status) - 1>>
  \o Numbers(t.end)
  \o (IF t.reason = None THEN <<0>> ELSE <<1>> \o WriteString(t.reason))
  \o Numbers(t.counts)

\* What is read only if the flags or a byte say so.
If(present, r, at) == IF present THEN r ELSE Read(at, None)

Chunk(d, at) == Sized(d, ReadVarUint(d, at))

Fields == <<"magic", "version", "names", "flags", "begame", "pack", "start",
            "config", "chunks", "status", "end", "reason", "counts">>

\* decodeBegTraceContainer(), of one field; `flags` was read before those that need it.
Field(d, at, field, flags) ==
  CASE field = "magic" ->
         LET m == ReadBytes(d, at, Len(Magic)) IN IF m.v = Magic THEN m ELSE Thrown
    [] field = "version" ->
         LET b == ReadByte(d, at) IN IF b.v = Version THEN b ELSE Thrown
    [] field = "names"  -> ReadAll(LAMBDA p : ReadString(d, p), at, 4)
    [] field = "flags"  -> ReadByte(d, at)
    [] field = "begame" -> If(flags % 2 = 1, ReadString(d, at), at)
    [] field = "pack"   -> If((flags \div 2) % 2 = 1, ReadString(d, at), at)
    [] field = "config" -> If((flags \div 4) % 2 = 1, ReadValue(d, at), at)
    [] field = "chunks" -> Several(LAMBDA p : Chunk(d, p), ReadVarUint(d, at))
    [] field = "status" ->
         LET b == ReadByte(d, at)
         IN IF b.at > 0 /\ b.v + 1 \in DOMAIN Statuses
            THEN Read(b.at, Statuses[b.v + 1]) ELSE Thrown
    [] field = "reason" ->
         LET why == ReadByte(d, at)
         IN IF why.at = 0 THEN Thrown ELSE If(why.v # 0, ReadString(d, why.at), why.at)
    [] OTHER -> ReadAll(LAMBDA p : ReadVarUint(d, p), at, 2)

\* decodeBegTraceContainer(): every field in its turn, up to the end of the input.
Decoded(d) ==
  LET Then(r, field) ==
        LET one == Field(d, r.at, field, r.v["flags"])
        IN IF one.at = 0 THEN [r EXCEPT !.at = 0]
           ELSE Read(one.at, [r.v EXCEPT ![field] = one.v])
      all == FoldLeft(LAMBDA r, field : IF r.at = 0 THEN r ELSE Then(r, field),
                      Read(1, [f \in ToSet(Fields) |-> None]), Fields)
  IN IF all.at # Len(d) + 1 THEN Thrown
     ELSE Read(all.at, [f \in ToSet(Fields) \ {"magic", "version", "flags"} |-> all.v[f]])

-----------------------------------------------------------------------------
(* Base64: characters are numbers, 64 is the padding, and 65 any white space. *)

Pad == 64
Space == 65

\* encodeBase64()
Base64(b) ==
  FlattenSeq([g \in 1..((Len(b) + 2) \div 3) |->
    LET Byte(k) == IF 3 * (g - 1) + k \in DOMAIN b THEN b[3 * (g - 1) + k] ELSE 0
        n == Byte(1) * 65536 + Byte(2) * 256 + Byte(3)
        left == Len(b) - 3 * (g - 1)
    IN <<n \div 262144, (n \div 4096) % 64,
         IF left > 1 THEN (n \div 64) % 64 ELSE Pad,
         IF left > 2 THEN n % 64 ELSE Pad>>])

\* decodeBase64()
Unbase64(chars) ==
  LET text == SelectSeq(chars, LAMBDA c : c # Space)
      groups == Len(text) \div 4
      At(g, k) == text[4 * (g - 1) + k]
      Six(c) == IF c = Pad THEN 0 ELSE c
      padding == CASE Len(text) = 0 -> 0
                   [] Len(text) > 1 /\ text[Len(text)] = Pad /\ text[Len(text) - 1] = Pad -> 2
                   [] OTHER -> IF text[Len(text)] = Pad THEN 1 ELSE 0
      Sound(g) == /\ At(g, 1) # Pad /\ At(g, 2) # Pad
                  /\ At(g, 3) = Pad => At(g, 4) = Pad
                  /\ g < groups => At(g, 3) # Pad /\ At(g, 4) # Pad
      Bits(g) == At(g, 1) * 262144 + At(g, 2) * 4096 + Six(At(g, 3)) * 64 + Six(At(g, 4))
      all == FlattenSeq([g \in 1..groups |->
               <<Bits(g) \div 65536, (Bits(g) \div 256) % 256, Bits(g) % 256>>])
  IN IF Len(text) % 4 # 0 THEN Thrown
     ELSE IF \E g \in 1..groups : ~Sound(g) THEN Thrown
     ELSE Read(Len(text) + 1, SubSeq(all, 1, groups * 3 - padding))

-----------------------------------------------------------------------------
Written(i) ==
  CASE Kind(i) = "value" -> WriteValue(Of(i))
    [] Kind(i) = "text"  -> WriteString(Of(i))
    [] Kind(i) = "trace" -> Encoded(Of(i))
    [] OTHER            -> Base64(Of(i))

ReadBack(i, d) ==
  CASE Kind(i) = "value" -> ReadValue(d, 1)
    [] Kind(i) = "text"  -> ReadString(d, 1)
    [] Kind(i) = "trace" -> Decoded(d)
    [] OTHER            -> Unbase64(d)

Init ==
  /\ input \in Inputs
  /\ wire = None /\ lost = 0 /\ back = None

Writes ==
  /\ wire = None
  /\ ~(Kind(input) = "value" /\ Unwritable(Of(input)))
  /\ wire' = Written(input)
  /\ UNCHANGED <<input, lost, back>>

\* The end is missing; base64 may have been wrapped, too.
Loses(n) ==
  /\ wire # None /\ lost = 0 /\ back = None
  /\ n \in 1..Len(wire)
  /\ wire' = SubSeq(wire, 1, Len(wire) - n)
  /\ lost' = n
  /\ UNCHANGED <<input, back>>

Wraps(n) ==
  /\ wire # None /\ Kind(input) = "bytes" /\ back = None
  /\ n \in DOMAIN wire /\ ~Contains(wire, Space)
  /\ wire' = SubSeq(wire, 1, n) \o <<Space>> \o SubSeq(wire, n + 1, Len(wire))
  /\ UNCHANGED <<input, lost, back>>

Reads ==
  /\ wire # None /\ back = None
  /\ back' = ReadBack(input, wire)
  /\ UNCHANGED <<input, wire, lost>>

Next == Writes \/ Reads \/ \E n \in 1..64 : Loses(n) \/ Wraps(n)

Spec == Init /\ [][Next]_vars

-----------------------------------------------------------------------------
\* What was written is read, to its end; of what has lost its end nothing is read, unless
\* it is base64, of which whole groups are.
ReadsBack ==
  back # None =>
    IF lost = 0 THEN back.at > 0 /\ back.v = Of(input)
    ELSE back.at > 0 => Kind(input) = "bytes" /\ IsPrefix(back.v, Of(input))

\* A string is cut after as many whole characters as fit.
CutsWell ==
  Kind(input) = "text" =>
    LET s == Of(input)
    IN /\ ByteLength(s) = Len(Utf8(s))
       /\ \A max \in 0..ByteLength(s) :
            LET cut == Truncated(s, max)
                Whole == {n \in 0..Len(s) : ~(n > 0 /\ Paired(s, n))}
            IN /\ IsPrefix(cut, s) /\ Len(cut) \in Whole /\ ByteLength(cut) <= max
               /\ \A n \in Whole : ByteLength(SubSeq(s, 1, n)) <= max => n <= Len(cut)

WireIsFaithful == ReadsBack /\ CutsWell
=============================================================================
