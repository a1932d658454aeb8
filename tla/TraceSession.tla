----------------------------- MODULE TraceSession -----------------------------
(***************************************************************************)
(* What one TraceSession writes (trace/src/runtime/session.ts) and what the  *)
(* decoder makes of it (trace/src/wire/decoder.ts).                          *)
(*                                                                           *)
(* Strings, players, states, components and schemas are written once, as     *)
(* definitions that later records refer to by number, into whatever chunk    *)
(* is active; a chunk is sealed when it is full, when it spans too many      *)
(* ticks, when a snapshot is asked for and at the end.  An event is either   *)
(* written as a whole or given up, and its definitions stay.  The bytes of a *)
(* record are abstracted to its fields, and a chunk is as long as it has     *)
(* records; numbers count from 1, so that 0 is the code's "none".            *)
(***************************************************************************)
EXTENDS Integers, Sequences, FiniteSets, Functions, SequencesExt, TLC

CONSTANTS
  Ids,           \* players' ids
  Names,         \* players' names
  States, Components,
  Schemas,       \* schema objects, and of each
  Label,         \* its name, and
  Fields,        \* its fields, [name, type, optional]
  Title,         \* the names of states and components
  Payloads,      \* what events carry: sequences of [key, value]
  None,
  ChunkRecords,  \* maxChunkBytes, in records
  ChunkTicks,    \* maxChunkTickSpan
  MaxEvents,     \* bound: events of the session
  MaxRecords,    \* bound: definitions written between two events
  MaxTick,       \* bound: ticks
  Glitches       \* the tick source may answer what is no tick

SessionAssumption ==
  /\ None \notin Ids /\ None \notin Names
  /\ ChunkRecords \in Nat \ {0} /\ ChunkTicks \in Nat \ {0}
  /\ MaxEvents \in Nat /\ MaxRecords \in Nat /\ MaxTick \in Nat /\ Glitches \in BOOLEAN

VARIABLES
  session,  \* the tables of the encoder, its active chunk, the sealed ones, `sequence`, `ended`
  online,   \* connectionState: None, or the last that was heard of a player
  tick,     \* system.currentTick
  emitted   \* history: the events that were accepted

vars == <<session, online, tick, emitted>>

Game == [kind |-> "game", of |-> None]

\* newChunk()
NewChunk(n) == [index |-> n, payload |-> <<>>, count |-> 0, first |-> 0, start |-> 0, previous |-> 0]

-----------------------------------------------------------------------------
(* The encoder.  These operators map the session w to the session after.     *)

Put(w, r) == [w EXCEPT !.active.payload = Append(@, r)]

Ref(s, x) == CHOOSE i \in DOMAIN s : s[i] = x

\* ensureString()
EnsureString(w, text) ==
  IF text \in Range(w.strings) THEN w
  ELSE Put([w EXCEPT !.strings = Append(@, text)],
           [tag |-> "string", ref |-> Len(w.strings) + 1, text |-> text])

PlayerRef(w, id) == CHOOSE i \in DOMAIN w.players : w.players[i].id = id

HasPlayer(w, id) == \E i \in DOMAIN w.players : w.players[i].id = id

\* ensurePlayer(): a new name defines the player anew.
EnsurePlayer(w, id, name) ==
  LET known == IF HasPlayer(w, id) THEN w.players[PlayerRef(w, id)].name ELSE None
      called == IF name = None THEN known ELSE name
      entry == [id |-> id, name |-> called]
      ref == IF HasPlayer(w, id) THEN PlayerRef(w, id) ELSE Len(w.players) + 1
      u == EnsureString([w EXCEPT !.players = IF HasPlayer(w, id) THEN [@ EXCEPT ![ref] = entry]
                                              ELSE Append(@, entry)], id)
      v == IF called = None THEN u ELSE EnsureString(u, called)
  IN  IF HasPlayer(w, id) /\ name \in {None, known} THEN w
      ELSE Put(v, [tag |-> "player", ref |-> ref, id |-> Ref(v.strings, id),
                   name |-> IF called = None THEN 0 ELSE Ref(v.strings, called)])

\* ensureState()
EnsureState(w, s) ==
  IF s \in Range(w.states) THEN w
  ELSE LET v == EnsureString([w EXCEPT !.states = Append(@, s)], Title[s])
       IN  Put(v, [tag |-> "state", ref |-> Len(v.states), name |-> Ref(v.strings, Title[s])])

\* ensureComponent(), which throws before its state is registered.
EnsureComponent(w, c, s) ==
  IF c \in Range(w.components) \/ s \notin Range(w.states) THEN w
  ELSE LET v == EnsureString([w EXCEPT !.components = Append(@, c)], Title[c])
       IN  Put(v, [tag |-> "component", ref |-> Len(v.components),
                   state |-> Ref(v.states, s), name |-> Ref(v.strings, Title[c])])

\* ensureSchema(): a schema of the same name must have the same fields.
Known(w, schema) == {i \in DOMAIN w.schemas : Label[w.schemas[i]] = Label[schema]}

Collides(w, schema) == \E i \in Known(w, schema) : Fields[w.schemas[i]] # Fields[schema]

EnsureSchema(w, schema) ==
  IF Known(w, schema) # {} THEN w
  ELSE LET u == EnsureString([w EXCEPT !.schemas = Append(@, schema)], Label[schema])
           v == FoldLeft(LAMBDA x, f : EnsureString(x, f.name), u, Fields[schema])
       IN  Put(v, [tag |-> "schema", type |-> 127 + Len(v.schemas), name |-> Ref(v.strings, Label[schema]),
                   fields |-> [i \in DOMAIN Fields[schema] |->
                     [Fields[schema][i] EXCEPT !.name = Ref(v.strings, @)]]])

TypeId(w, schema) == 127 + CHOOSE i \in Known(w, schema) : TRUE

\* Mutant: a flush throws away the definitions that no event has followed yet.
SealChunkDrops(w) ==
  IF w.active.count = 0 THEN [w EXCEPT !.active = NewChunk(Len(w.chunks) + 2)]
  ELSE [w EXCEPT !.chunks = Append(@, w.active), !.active = NewChunk(Len(w.chunks) + 2)]

\* sealChunk(): definitions without an event wait for one.
SealChunk(w) ==
  IF w.active.count = 0 THEN w
  ELSE [w EXCEPT !.chunks = Append(@, w.active), !.active = NewChunk(Len(w.chunks) + 2)]

\* rotateByTick()
RotateByTick(w, at) ==
  IF w.active.count > 0 /\ at - w.active.start >= ChunkTicks THEN SealChunk(w) ELSE w

\* prepareSource()
PrepareSource(w, source) == IF source.of = None THEN w ELSE EnsureString(w, Title[source.of])

\* writeSource(): all of it is defined by now.
WriteSource(w, source) ==
  [kind |-> source.kind,
   ref |-> CASE source.kind = "state" -> Ref(w.states, source.of)
             [] source.kind = "component" -> Ref(w.components, source.of)
             [] OTHER -> 0,
   name |-> IF source.of = None THEN 0 ELSE Ref(w.strings, Title[source.of])]

\* prepareValue()
PrepareValue(w, v) ==
  CASE v.kind = "string" -> EnsureString(w, v.text)
    [] v.kind = "player" -> EnsurePlayer(w, v.text, v.name)
    [] OTHER -> w

PrepareEntry(w, e) == PrepareValue(EnsureString(w, e.key), e.value)

Encoded(w, v) ==
  [kind |-> v.kind,
   ref |-> CASE v.kind = "string" -> Ref(w.strings, v.text)
             [] v.kind = "player" -> PlayerRef(w, v.text)
             [] OTHER -> 0]

(* A payload is written beside the chunk, [w, ok, out]: w has the definitions *)
(* that even now turn out to be missing, and `ok` is lost where it throws.    *)
Blank(w) == [w |-> w, ok |-> TRUE, out |-> <<>>]

\* writeValue(), of one entry of an object; "bad" is what has no encoding.
WriteEntry(a, e) ==
  IF ~a.ok THEN a
  ELSE IF e.value.kind = "bad" THEN [a EXCEPT !.w = EnsureString(@, e.key), !.ok = FALSE]
  ELSE LET v == PrepareEntry(a.w, e)
       IN  [w |-> v, ok |-> TRUE,
            out |-> Append(a.out, [key |-> Ref(v.strings, e.key), value |-> Encoded(v, e.value)])]

ValueOf(payload, field) == {payload[i].value : i \in {j \in DOMAIN payload : payload[j].key = field.name}}

\* prepareCustomField(), of a field that may be missing: what it checks, in the order
\* of the fields, and what it defines on the way.
PrepareField(a, field, payload) ==
  LET values == ValueOf(payload, field)
      value == CHOOSE v \in values : TRUE
  IN  IF ~a.ok THEN a
      ELSE IF values = {} THEN [a EXCEPT !.ok = field.optional]
      ELSE IF value.kind # (IF field.type = "uint" THEN "number" ELSE "string")
      THEN [a EXCEPT !.ok = FALSE]
      ELSE [a EXCEPT !.w = CASE field.type = "string" -> EnsureString(@, value.text)
                             [] field.type = "player" -> EnsurePlayer(@, value.text, None)
                             [] OTHER -> @]

\* writeCustomField(), of a field that may be missing.
WriteField(a, field, payload) ==
  LET values == ValueOf(payload, field)
      value == CHOOSE v \in values : TRUE
  IN  IF values = {} THEN a
      ELSE [a EXCEPT !.out = Append(@, [kind |-> field.type,
              ref |-> CASE field.type = "string" -> Ref(a.w.strings, value.text)
                        [] field.type = "player" -> PlayerRef(a.w, value.text)
                        [] OTHER -> 0])]

Optional(fields) == SelectSeq(fields, LAMBDA f : f.optional)

\* The bit set of the optional fields that are there.
Bits(fields, payload) ==
  [i \in DOMAIN Optional(fields) |-> ValueOf(payload, Optional(fields)[i]) # {}]

\* The first event of a chunk sets where its ticks and sequence numbers begin.
Opened(w, at) ==
  IF w.active.count > 0 THEN w
  ELSE [w EXCEPT !.active.first = w.sequence + 1, !.active.start = at, !.active.previous = at]

\* appendEvent(): a is what the payload has become in w.  A tick before the last one
\* cannot be written.
AppendEvent(w, at, type, source, bits, a) ==
  IF at < w.active.previous THEN w
  ELSE IF ~a.ok THEN a.w
  ELSE LET v == Put(a.w, [tag |-> "event", delta |-> at - w.active.previous, type |-> type,
                          source |-> WriteSource(a.w, source), bits |-> bits, payload |-> a.out])
           x == [v EXCEPT !.sequence = @ + 1, !.active.count = @ + 1, !.active.previous = at]
       IN  IF Len(x.active.payload) >= ChunkRecords THEN SealChunk(x) ELSE x

\* emitBuiltin()
EmitBuiltin(w, at, type, source, payload) ==
  LET p == FoldLeft(PrepareEntry, PrepareSource(RotateByTick(w, at), source), payload)
      u == Opened(p, at)
  IN  IF w.ended THEN w
      ELSE AppendEvent(u, at, type, source, <<>>, FoldLeft(WriteEntry, Blank(u), payload))

\* emitCustom()
EmitCustom(w, at, schema, source, payload) ==
  LET fields == Fields[schema]
      r == PrepareSource(RotateByTick(w, at), source)
      s == EnsureSchema(r, schema)
      p == FoldLeft(LAMBDA a, f : PrepareField(a, f, payload), Blank(s), fields)
      u == Opened(p.w, at)
  IN  IF w.ended THEN w
      ELSE IF Collides(r, schema) THEN r
      ELSE IF ~p.ok THEN p.w
      ELSE AppendEvent(u, at, TypeId(u, schema), source, Bits(fields, payload),
                       FoldLeft(LAMBDA a, f : WriteField(a, f, payload), Blank(u), fields))

-----------------------------------------------------------------------------
(* The decoder: d is [ok, strings, players, schemas, events], the tables     *)
(* functions of the numbers, and goes on from chunk to chunk.                *)

Unread == [ok |-> TRUE, strings |-> <<>>, players |-> <<>>, schemas |-> <<>>, states |-> <<>>,
           components |-> <<>>, events |-> <<>>, tick |-> 0, sequence |-> 0]

Set(f, k, x) == (k :> x) @@ f

\* getString(), with 0 for a string that is left out.
Names0(d, ref) == ref = 0 \/ ref \in DOMAIN d.strings

\* The definitions.
Define(d, r) ==
  CASE r.tag = "string" -> [d EXCEPT !.strings = Set(@, r.ref, r.text)]
    [] r.tag = "player" ->
         IF Names0(d, r.id) /\ Names0(d, r.name)
         THEN [d EXCEPT !.players = Set(@, r.ref, d.strings[r.id])] ELSE [d EXCEPT !.ok = FALSE]
    [] r.tag = "state" ->
         IF Names0(d, r.name) THEN [d EXCEPT !.states = Set(@, r.ref, r.name)]
         ELSE [d EXCEPT !.ok = FALSE]
    [] r.tag = "component" ->
         IF Names0(d, r.name) THEN [d EXCEPT !.components = Set(@, r.ref, r.name)]
         ELSE [d EXCEPT !.ok = FALSE]
    [] r.tag = "schema" ->
         IF Names0(d, r.name) /\ \A i \in DOMAIN r.fields : Names0(d, r.fields[i].name)
         THEN [d EXCEPT !.schemas = Set(@, r.type, r)] ELSE [d EXCEPT !.ok = FALSE]

\* readSource()
ReadSource(d, s) == [kind |-> s.kind, ref |-> s.ref, name |-> IF s.name = 0 THEN None ELSE d.strings[s.name]]

\* readValue(), of a value: its kind is lost where a player becomes an id.
Readable(d, v) ==
  CASE v.kind = "string" -> v.ref \in DOMAIN d.strings
    [] v.kind = "player" -> v.ref \in DOMAIN d.players
    [] OTHER -> TRUE

ReadValue(d, v) ==
  CASE v.kind = "string" -> d.strings[v.ref]
    [] v.kind = "player" -> d.players[v.ref]
    [] OTHER -> None

\* readCustomPayload(): the fields that are there, by the bit set.
Present(fields, bits) ==
  SelectSeq([i \in DOMAIN fields |-> [fields[i] EXCEPT !.optional =
               @ /\ ~bits[Cardinality({j \in 1..i : fields[j].optional})]]],
            LAMBDA f : ~f.optional)

CustomReadable(d, schema, r) ==
  LET fields == Present(schema.fields, r.bits)
  IN  /\ Len(fields) = Len(r.payload)
      /\ \A i \in DOMAIN fields : fields[i].type = r.payload[i].kind /\ Readable(d, r.payload[i])

ReadCustomPayload(d, schema, r) ==
  LET fields == Present(schema.fields, r.bits)
  IN  {<<d.strings[fields[i].name], ReadValue(d, r.payload[i])>> : i \in DOMAIN fields}

\* An event record.
EventReadable(d, r) ==
  /\ Names0(d, r.source.name)
  /\ IF r.type \in DOMAIN d.schemas THEN CustomReadable(d, d.schemas[r.type], r)
     ELSE \A i \in DOMAIN r.payload :
            r.payload[i].key \in DOMAIN d.strings /\ Readable(d, r.payload[i].value)

\* The type of an event as it is read: a number, or the name of a schema.
Builtin(n) == [id |-> n, name |-> None]
Custom(name) == [id |-> 0, name |-> name]

ReadEvent(d, r) ==
  [sequence |-> d.sequence, tick |-> d.tick + r.delta, source |-> ReadSource(d, r.source),
   type |-> IF r.type \in DOMAIN d.schemas THEN Custom(d.strings[d.schemas[r.type].name])
            ELSE Builtin(r.type),
   payload |-> IF r.type \in DOMAIN d.schemas THEN ReadCustomPayload(d, d.schemas[r.type], r)
               ELSE {<<d.strings[r.payload[i].key], ReadValue(d, r.payload[i].value)>> :
                       i \in DOMAIN r.payload}]

ReadRecord(d, r) ==
  IF ~d.ok THEN d
  ELSE IF r.tag # "event" THEN Define(d, r)
  ELSE IF ~EventReadable(d, r) THEN [d EXCEPT !.ok = FALSE]
  ELSE [d EXCEPT !.events = Append(@, ReadEvent(d, r)), !.tick = @ + r.delta, !.sequence = @ + 1]

\* decodeChunk()
DecodeChunk(d, c) ==
  LET after == FoldLeft(ReadRecord, [d EXCEPT !.tick = c.start, !.sequence = c.first], c.payload)
  IN  IF Len(after.events) - Len(d.events) = c.count THEN after ELSE [after EXCEPT !.ok = FALSE]

\* decodeBegTrace(), of a container with these chunks and a footer that counts n events.
DecodeBegTrace(chunks, n) ==
  LET d == FoldLeft(DecodeChunk, Unread, chunks)
  IN  IF Len(d.events) = n THEN d ELSE [d EXCEPT !.ok = FALSE]

-----------------------------------------------------------------------------
(* The calls of the session's owner, its scopes and the connection events.   *)

Sources ==
  {Game} \union {[kind |-> "state", of |-> s] : s \in Range(session.states)}
         \union {[kind |-> "component", of |-> c] : c \in Range(session.components)}

\* currentTick()
Now == IF Glitches THEN {tick, 0} ELSE {tick}

Roomy == Len(session.active.payload) < ChunkRecords + MaxRecords

\* What an event is, for the history.
Said(w, at, type, source, payload) ==
  [sequence |-> w.sequence + 1, tick |-> at,
   source |-> [kind |-> source.kind,
               ref |-> CASE source.kind = "state" -> Ref(w.states, source.of)
                         [] source.kind = "component" -> Ref(w.components, source.of)
                         [] OTHER -> 0,
               name |-> IF source.of = None THEN None ELSE Title[source.of]],
   type |-> type,
   payload |-> {<<payload[i].key, IF payload[i].value.kind = "number" THEN None
                                  ELSE payload[i].value.text>> : i \in DOMAIN payload}]

Hears(w, event) ==
  /\ session' = w
  /\ emitted' = IF w.sequence > session.sequence THEN Append(emitted, event) ELSE emitted

Emit(source, payload) ==
  /\ session.sequence < MaxEvents /\ Roomy
  /\ \E at \in Now : Hears(EmitBuiltin(session, at, 1, source, payload),
                           Said(session, at, Builtin(1), source, payload))
  /\ UNCHANGED <<online, tick>>

EmitSchema(schema, source, payload) ==
  /\ session.sequence < MaxEvents /\ Roomy
  /\ \E at \in Now : Hears(EmitCustom(session, at, schema, source, payload),
       Said(session, at, Custom(Label[schema]), source,
            SelectSeq(payload, LAMBDA e : \E i \in DOMAIN Fields[schema] : Fields[schema][i].name = e.key)))
  /\ UNCHANGED <<online, tick>>

\* registerPlayer()
RegisterPlayer(id, name) ==
  /\ Roomy
  /\ session' = EnsurePlayer(session, id, name)
  /\ UNCHANGED <<online, tick, emitted>>

\* createStateScope(), createComponentScope()
CreateStateScope(s) ==
  /\ ~session.ended
  /\ session' = EnsureState(session, s)
  /\ UNCHANGED <<online, tick, emitted>>

CreateComponentScope(c, s) ==
  /\ ~session.ended
  /\ session' = EnsureComponent(session, c, s)
  /\ UNCHANGED <<online, tick, emitted>>

\* noteConnection(), of a player the trace has heard of: 2 is connected, 3 reconnected,
\* 4 disconnected.
NoteConnection(id, name, isOnline) ==
  /\ HasPlayer(session, id) /\ session.sequence < MaxEvents /\ Roomy
  /\ LET u == EnsurePlayer(session, id, name)
         type == IF isOnline THEN (IF online[id] = "off" THEN 3 ELSE 2) ELSE 4
         payload == <<[key |-> "player", value |-> [kind |-> "player", text |-> id, name |-> name]]>>
     IN  IF ~isOnline /\ online[id] = "off" THEN session' = u /\ UNCHANGED emitted
         ELSE \E at \in Now : Hears(EmitBuiltin(u, at, type, [kind |-> "connection", of |-> None], payload),
                                    Said(u, at, Builtin(type), [kind |-> "connection", of |-> None], payload))
  /\ online' = [online EXCEPT ![id] = IF isOnline THEN "on" ELSE "off"]
  /\ UNCHANGED tick

\* flush(), for a snapshot of a running session
Flush ==
  /\ ~session.ended
  /\ session' = SealChunk(session)
  /\ UNCHANGED <<online, tick, emitted>>

\* end()
End ==
  /\ ~session.ended
  /\ session' = SealChunk([session EXCEPT !.ended = TRUE])
  /\ UNCHANGED <<online, tick, emitted>>

Tick ==
  /\ tick < MaxTick
  /\ tick' = tick + 1
  /\ UNCHANGED <<session, online, emitted>>

Init ==
  /\ session = [strings |-> <<>>, players |-> <<>>, states |-> <<>>, components |-> <<>>,
                schemas |-> <<>>, active |-> NewChunk(1), sequence |-> 0, chunks |-> <<>>,
                ended |-> FALSE]
  /\ online = [id \in Ids |-> None]
  /\ tick = 0
  /\ emitted = <<>>

Next ==
  \/ \E s \in Sources, p \in Payloads :
       Emit(s, p) \/ \E schema \in Schemas : EmitSchema(schema, s, p)
  \/ \E id \in Ids, name \in Names \union {None} :
       RegisterPlayer(id, name) \/ \E b \in BOOLEAN : NoteConnection(id, name, b)
  \/ \E s \in States : CreateStateScope(s) \/ \E c \in Components : CreateComponentScope(c, s)
  \/ Flush \/ End \/ Tick

Spec == Init /\ [][Next]_vars

-----------------------------------------------------------------------------
Sealed == IF session.chunks = <<>> THEN 0
          ELSE Last(session.chunks).first + Last(session.chunks).count - 1

\* Whatever was sealed so far decodes to the events that were accepted so far, in their
\* order, with their ticks, sources and values: no definition is missing, none stands
\* for something else, and an event that failed half way has left no trace of itself.
TraceIsWhole ==
  LET d == DecodeBegTrace(session.chunks, Sealed)
  IN  /\ d.ok
      /\ d.events = SubSeq(emitted, 1, Sealed)
      /\ session.sequence = Len(emitted)
      /\ session.ended => Sealed = Len(emitted)

\* The chunks follow one another: the history store accepts no other (historyStore.ts:202).
ChunksFollow ==
  \A i \in DOMAIN session.chunks :
    /\ session.chunks[i].index = i
    /\ session.chunks[i].count > 0
    /\ session.chunks[i].first = 1 + (IF i = 1 THEN 0 ELSE session.chunks[i - 1].first
                                                          + session.chunks[i - 1].count - 1)
=============================================================================
