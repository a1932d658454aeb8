--------------------------- MODULE ServicesProofs ---------------------------
(* Who takes part in which game, the wrappers of a game's players and the    *)
(* registry of the games, for any players, subscribers, games and keys and   *)
(* call stacks of any depth.                                                 *)
EXTENDS MCServices, SequenceLemmas

-----------------------------------------------------------------------------
(* The two helpers on Maps of Sets. *)

\* Adding values to some keys adds exactly those pairs.
LEMMA AddAllEntry ==
  ASSUME NEW f, NEW keys, NEW vals, NEW k
  PROVE  Entry(AddAll(f, keys, vals), k)
           = IF k \in keys THEN Entry(f, k) \union vals ELSE Entry(f, k)
BY DEF Entry, AddAll

\* Removing values from some keys removes exactly those pairs, whether or not
\* the emptied entry is deleted.
LEMMA RemoveAllEntry ==
  ASSUME NEW f, NEW keys, NEW vals, NEW k
  PROVE  Entry(RemoveAll(f, keys, vals), k)
           = IF k \in keys THEN Entry(f, k) \ vals ELSE Entry(f, k)
<1>1. CASE k \in DOMAIN f /\ k \in keys /\ f[k] \ vals = {}
  BY <1>1 DEF Entry, RemoveAll
<1>2. CASE k \in DOMAIN f /\ ~(k \in keys /\ f[k] \ vals = {})
  BY <1>2 DEF Entry, RemoveAll
<1>3. CASE k \notin DOMAIN f
  BY <1>3 DEF Entry, RemoveAll
<1>4. QED BY <1>1, <1>2, <1>3

\* Maps of Sets stay Maps of Sets.
LEMMA PartialFunctionMembership ==
  ASSUME NEW S, NEW T, NEW f
  PROVE  f \in PartialFunctions(S, T)
           <=> /\ f = [x \in DOMAIN f |-> f[x]]
               /\ DOMAIN f \subseteq S
               /\ \A x \in DOMAIN f : f[x] \in T
<1>1. ASSUME f \in PartialFunctions(S, T)
      PROVE  /\ f = [x \in DOMAIN f |-> f[x]]
             /\ DOMAIN f \subseteq S
             /\ \A x \in DOMAIN f : f[x] \in T
  <2>1. PICK D \in SUBSET S : f \in [D -> T]
    BY <1>1 DEF PartialFunctions
  <2>2. QED BY <2>1
<1>2. ASSUME f = [x \in DOMAIN f |-> f[x]],
             DOMAIN f \subseteq S,
             \A x \in DOMAIN f : f[x] \in T
      PROVE  f \in PartialFunctions(S, T)
  <2>1. f \in [DOMAIN f -> T]
    BY <1>2
  <2>2. DOMAIN f \in SUBSET S
    BY <1>2
  <2>3. QED BY <2>1, <2>2 DEF PartialFunctions
<1>3. QED BY <1>1, <1>2

LEMMA AddAllType ==
  ASSUME NEW S, NEW T, NEW f \in PartialFunctions(S, SUBSET T),
         NEW keys \in SUBSET S, NEW vals \in SUBSET T
  PROVE  AddAll(f, keys, vals) \in PartialFunctions(S, SUBSET T)
<1> DEFINE h == AddAll(f, keys, vals)
<1>1. /\ DOMAIN f \subseteq S
      /\ \A x \in DOMAIN f : f[x] \in SUBSET T
  BY PartialFunctionMembership
<1>2. /\ h = [x \in DOMAIN h |-> h[x]]
      /\ DOMAIN h \subseteq S
  BY <1>1 DEF AddAll
<1>3. \A x \in DOMAIN h : h[x] \in SUBSET T
  BY <1>1 DEF AddAll, Entry
<1>4. QED BY <1>2, <1>3, PartialFunctionMembership

LEMMA RemoveAllType ==
  ASSUME NEW S, NEW T, NEW f \in PartialFunctions(S, SUBSET T),
         NEW keys, NEW vals
  PROVE  RemoveAll(f, keys, vals) \in PartialFunctions(S, SUBSET T)
<1> DEFINE h == RemoveAll(f, keys, vals)
<1>1. /\ DOMAIN f \subseteq S
      /\ \A x \in DOMAIN f : f[x] \in SUBSET T
  BY PartialFunctionMembership
<1>2. /\ h = [x \in DOMAIN h |-> h[x]]
      /\ DOMAIN h \subseteq S
  BY <1>1 DEF RemoveAll
<1>3. \A x \in DOMAIN h : h[x] \in SUBSET T
  BY <1>1 DEF RemoveAll
<1>4. QED BY <1>2, <1>3, PartialFunctionMembership

\* An entry holds values of the codomain only.
LEMMA EntryType ==
  ASSUME NEW S, NEW T, NEW f \in PartialFunctions(S, SUBSET T), NEW k
  PROVE  Entry(f, k) \subseteq T
BY PartialFunctionMembership DEF Entry

-----------------------------------------------------------------------------
(* Type correctness. *)

IndexType ==
  /\ memberships \in PartialFunctions(Players, SUBSET Games)
  /\ gameMembers \in PartialFunctions(Games, SUBSET Players)

LEMMA LinkType ==
  ASSUME IndexType, NEW ps \in SUBSET Players, NEW gs \in SUBSET Games, Link(ps, gs)
  PROVE  IndexType'
BY AddAllType DEF IndexType, Link

LEMMA UnlinkType ==
  ASSUME IndexType, NEW ps, NEW gs, Unlink(ps, gs)
  PROVE  IndexType'
BY RemoveAllType DEF IndexType, Unlink

EmissionType ==
  /\ frames \in Seq(Frame)
  /\ stale \subseteq Callbacks \X Games

LEMMA AnnounceType ==
  ASSUME EmissionType, NEW type \in {"joined", "left"},
         NEW ps \in SUBSET Players, NEW gs \in SUBSET Games, Announce(type, ps, gs)
  PROVE  EmissionType'
<1> DEFINE fr == [todo |-> {Event(type, p, g) : p \in ps, g \in gs},
                  event |-> NoEvent, targets |-> {}, running |-> FALSE]
<1>1. {Event(type, p, g) : p \in ps, g \in gs} \subseteq Events
  BY DEF Events, Event
<1>2. fr \in Frame
  BY <1>1 DEF Frame
<1>3. frames' = Append(frames, fr)
  BY DEF Announce
<1>4. frames' \in Seq(Frame)
  BY <1>2, <1>3 DEF EmissionType
<1>5. stale' \subseteq Callbacks \X Games
  BY DEF Announce, EmissionType
<1>6. QED BY <1>4, <1>5 DEF EmissionType

\* The running frame of a non-empty stack is one of its frames.
LEMMA TopType ==
  ASSUME frames \in Seq(Frame), frames # <<>>
  PROVE  Len(frames) \in 1..Len(frames) /\ Top \in Frame
BY DEF Top

LEMMA SetTopType ==
  ASSUME frames \in Seq(Frame), frames # <<>>, NEW fr \in Frame, SetTop(fr)
  PROVE  frames' \in Seq(Frame)
BY DEF SetTop

LEMMA EmissionStepType ==
  ASSUME TypeOK, Emission
  PROVE  TypeOK'
<1>0. /\ frames # <<>>
      /\ frames \in Seq(Frame)
      /\ Top \in Frame
      /\ UNCHANGED <<policy, memberships, gameMembers, subs>>
      /\ stale' \subseteq stale
  BY TopType DEF Emission, EmitNext, CallSubscriber, SubscriberReturns, EmitDone, TypeOK
<1>1. ASSUME EmitNext PROVE frames' \in Seq(Frame)
  <2>1. PICK e \in Top.todo :
          SetTop([Top EXCEPT !.todo = @ \ {e}, !.event = e, !.targets = subs[e.game]])
    BY <1>1 DEF EmitNext
  <2>2. e \in Events /\ subs[e.game] \in SUBSET Callbacks
    BY <1>0 DEF Frame, Events, TypeOK
  <2>3. [Top EXCEPT !.todo = @ \ {e}, !.event = e, !.targets = subs[e.game]] \in Frame
    BY <1>0, <2>2 DEF Frame
  <2>4. QED BY <1>0, <2>1, <2>3, SetTopType
<1>2. ASSUME NEW c \in Callbacks, CallSubscriber(c) PROVE frames' \in Seq(Frame)
  <2>1. [Top EXCEPT !.targets = @ \ {c}, !.running = TRUE] \in Frame
    BY <1>0 DEF Frame
  <2>2. QED BY <1>0, <1>2, <2>1, SetTopType DEF CallSubscriber
<1>3. ASSUME SubscriberReturns PROVE frames' \in Seq(Frame)
  <2>1. [Top EXCEPT !.running = FALSE] \in Frame
    BY <1>0 DEF Frame
  <2>2. QED BY <1>0, <1>3, <2>1, SetTopType DEF SubscriberReturns
<1>4. ASSUME EmitDone PROVE frames' \in Seq(Frame)
  BY <1>0, <1>4 DEF EmitDone
<1>5. frames' \in Seq(Frame)
  BY <1>1, <1>2, <1>3, <1>4 DEF Emission
<1>6. QED BY <1>0, <1>5 DEF TypeOK

\* The operations of script code that change the membership.
Operation ==
  \/ \E p \in Players, g \in Games : Join(p, g)
  \/ \E ps \in SUBSET Players, g \in Games : JoinAll(ps, g)
  \/ \E p \in Players, g \in Games : Leave(p, g)
  \/ \E p \in Players : LeaveAll(p)
  \/ \E g \in Games : Clear(g)
  \/ \E g \in Games : ClearForDispose(g)

\* The operations that do not.
Settings ==
  \/ \E pol \in Policies : SetPolicy(pol)
  \/ \E c \in Callbacks, g \in Games : Subscribe(c, g)
  \/ \E c \in Callbacks, g \in Games : Unsubscribe(c, g)

LEMMA NextCases == Next <=> Operation \/ Settings \/ Emission
BY DEF Next, Operation, Settings

\* Every operation either links a batch of admissible newcomers to one game or
\* unlinks one player or one game, and announces exactly what it changed unless
\* the game is being disposed.
LinkStep ==
  \E ps \in SUBSET Players, g \in Games :
    /\ ps # {}
    /\ \A p \in ps : CanJoin(p, g) /\ ~Has(p, g)
    /\ Link(ps, {g})
    /\ Announce("joined", ps, {g})

UnlinkStep ==
  \E ps \in SUBSET Players, gs \in SUBSET Games :
    /\ ps # {} /\ gs # {}
    /\ (\E p \in Players : ps = {p}) \/ (\E g \in Games : gs = {g})
    /\ Unlink(ps, gs)
    /\ Announce("left", ps, gs) \/ UNCHANGED <<frames, stale>>

LEMMA OperationCases ==
  ASSUME IndexType, Operation
  PROVE  (LinkStep \/ UnlinkStep) /\ UNCHANGED <<policy, subs>>
<1>1. ASSUME NEW p \in Players, NEW g \in Games, Join(p, g) PROVE LinkStep
  <2>1. /\ {p} \in SUBSET Players
        /\ {p} # {}
        /\ \A q \in {p} : CanJoin(q, g) /\ ~Has(q, g)
        /\ Link({p}, {g})
        /\ Announce("joined", {p}, {g})
    BY <1>1 DEF Join
  <2>2. QED BY <2>1 DEF LinkStep
<1>2. ASSUME NEW ps \in SUBSET Players, NEW g \in Games, JoinAll(ps, g) PROVE LinkStep
  <2>1. /\ Newcomers(ps, g) \in SUBSET Players
        /\ Newcomers(ps, g) # {}
        /\ \A q \in Newcomers(ps, g) : CanJoin(q, g) /\ ~Has(q, g)
    BY <1>2 DEF JoinAll, Newcomers
  <2>2. Link(Newcomers(ps, g), {g}) /\ Announce("joined", Newcomers(ps, g), {g})
    BY <1>2 DEF JoinAll
  <2>3. QED BY <2>1, <2>2 DEF LinkStep
<1>3. ASSUME NEW p \in Players, NEW g \in Games, Leave(p, g) PROVE UnlinkStep
  <2>1. /\ {p} \in SUBSET Players /\ {g} \in SUBSET Games
        /\ {p} # {} /\ {g} # {}
        /\ \E q \in Players : {p} = {q}
        /\ Unlink({p}, {g})
        /\ Announce("left", {p}, {g})
    BY <1>3 DEF Leave
  <2>2. QED BY <2>1 DEF UnlinkStep
<1>4. ASSUME NEW p \in Players, LeaveAll(p) PROVE UnlinkStep
  <2>1. Entry(memberships, p) \in SUBSET Games
    BY EntryType DEF IndexType
  <2>2. /\ {p} \in SUBSET Players
        /\ {p} # {} /\ Entry(memberships, p) # {}
        /\ \E q \in Players : {p} = {q}
        /\ Unlink({p}, Entry(memberships, p))
        /\ Announce("left", {p}, Entry(memberships, p))
    BY <1>4 DEF LeaveAll
  <2>3. QED BY <2>1, <2>2 DEF UnlinkStep
<1>5. ASSUME NEW g \in Games, Clear(g) \/ ClearForDispose(g) PROVE UnlinkStep
  <2>1. Entry(gameMembers, g) \in SUBSET Players
    BY EntryType DEF IndexType
  <2>2. /\ {g} \in SUBSET Games
        /\ {g} # {} /\ Entry(gameMembers, g) # {}
        /\ \E h \in Games : {g} = {h}
        /\ Unlink(Entry(gameMembers, g), {g})
        /\ \/ Announce("left", Entry(gameMembers, g), {g})
           \/ UNCHANGED <<frames, stale>>
    BY <1>5 DEF Clear, ClearForDispose
  <2>3. QED BY <2>1, <2>2 DEF UnlinkStep
<1>6. UNCHANGED <<policy, subs>>
  BY DEF Operation, Join, JoinAll, Leave, LeaveAll, Clear, ClearForDispose
<1>7. LinkStep \/ UnlinkStep
  BY <1>1, <1>2, <1>3, <1>4, <1>5 DEF Operation
<1>8. QED BY <1>6, <1>7

\* Every variable has its type, whatever subscribers do while a batch is announced.
THEOREM TypeCorrect == Spec => []TypeOK
<1>1. Init => TypeOK
  <2>1. ASSUME Init PROVE IndexType
    BY <2>1, PartialFunctionMembership DEF Init, IndexType
  <2>2. QED BY <2>1 DEF Init, TypeOK, IndexType
<1>2. TypeOK /\ [Next]_vars => TypeOK'
  <2> SUFFICES ASSUME TypeOK, [Next]_vars PROVE TypeOK'
    OBVIOUS
  <2>1. CASE Operation
    <3>0. IndexType /\ EmissionType
      BY DEF TypeOK, IndexType, EmissionType
    <3>1. UNCHANGED <<policy, subs>>
      BY <2>1, <3>0, OperationCases
    <3>2. CASE LinkStep
      <4>1. PICK ps \in SUBSET Players, g \in Games :
              Link(ps, {g}) /\ Announce("joined", ps, {g})
        BY <3>2 DEF LinkStep
      <4>2. IndexType'
        BY <3>0, <4>1, LinkType
      <4>3. EmissionType'
        BY <3>0, <4>1, AnnounceType
      <4>4. QED BY <3>1, <4>2, <4>3 DEF TypeOK, IndexType, EmissionType
    <3>3. CASE UnlinkStep
      <4>1. PICK ps \in SUBSET Players, gs \in SUBSET Games :
              /\ Unlink(ps, gs)
              /\ Announce("left", ps, gs) \/ UNCHANGED <<frames, stale>>
        BY <3>3 DEF UnlinkStep
      <4>2. IndexType'
        BY <3>0, <4>1, UnlinkType
      <4>3. EmissionType'
        <5>1. CASE Announce("left", ps, gs)
          BY <3>0, <5>1, AnnounceType
        <5>2. CASE UNCHANGED <<frames, stale>>
          BY <3>0, <5>2 DEF EmissionType
        <5>3. QED BY <4>1, <5>1, <5>2
      <4>4. QED BY <3>1, <4>2, <4>3 DEF TypeOK, IndexType, EmissionType
    <3>4. QED BY <2>1, <3>0, <3>2, <3>3, OperationCases
  <2>2. CASE Settings
    BY <2>2 DEF Settings, SetPolicy, Subscribe, Unsubscribe, TypeOK
  <2>3. CASE Emission
    BY <2>3, EmissionStepType
  <2>4. CASE UNCHANGED vars
    BY <2>4 DEF vars, TypeOK
  <2>5. QED BY <2>1, <2>2, <2>3, <2>4, NextCases
<1>3. QED BY <1>1, <1>2, PTL DEF Spec

-----------------------------------------------------------------------------
(* The two indices and the exclusive policy. *)

LEMMA LinkIndices ==
  ASSUME IndicesAgree, NEW ps \in SUBSET Players, NEW gs \in SUBSET Games,
         ps # {}, gs # {}, Link(ps, gs)
  PROVE  IndicesAgree'
<1>1. ASSUME NEW p \in Players, NEW g \in Games
      PROVE  g \in Entry(memberships', p) <=> p \in Entry(gameMembers', g)
  BY AddAllEntry DEF Link, IndicesAgree
<1>2. \A p \in DOMAIN memberships' : memberships'[p] # {}
  BY DEF Link, AddAll, Entry, IndicesAgree
<1>3. \A g \in DOMAIN gameMembers' : gameMembers'[g] # {}
  BY DEF Link, AddAll, Entry, IndicesAgree
<1>4. QED BY <1>1, <1>2, <1>3 DEF IndicesAgree, Entry

LEMMA UnlinkIndices ==
  ASSUME IndicesAgree, NEW ps, NEW gs, Unlink(ps, gs)
  PROVE  IndicesAgree'
<1>1. ASSUME NEW p \in Players, NEW g \in Games
      PROVE  g \in Entry(memberships', p) <=> p \in Entry(gameMembers', g)
  BY RemoveAllEntry DEF Unlink, IndicesAgree
<1>2. \A p \in DOMAIN memberships' : memberships'[p] # {}
  BY DEF Unlink, RemoveAll, IndicesAgree
<1>3. \A g \in DOMAIN gameMembers' : gameMembers'[g] # {}
  BY DEF Unlink, RemoveAll, IndicesAgree
<1>4. QED BY <1>1, <1>2, <1>3 DEF IndicesAgree, Entry

\* Only the operations touch the indices.
LEMMA OtherStepsKeepIndices ==
  ASSUME Settings \/ Emission \/ UNCHANGED vars
  PROVE  UNCHANGED <<memberships, gameMembers>>
BY DEF Settings, SetPolicy, Subscribe, Unsubscribe, Emission, EmitNext,
       CallSubscriber, SubscriberReturns, EmitDone, vars

\* participationManager.ts:26: the two indices never drift apart.
THEOREM IndicesNeverDrift == Spec => []IndicesAgree
<1>1. Init => IndicesAgree
  BY DEF Init, IndicesAgree, Entry
<1>2. TypeOK /\ IndicesAgree /\ [Next]_vars => IndicesAgree'
  <2> SUFFICES ASSUME TypeOK, IndicesAgree, [Next]_vars PROVE IndicesAgree'
    OBVIOUS
  <2>1. CASE Operation
    <3>1. IndexType
      BY DEF TypeOK, IndexType
    <3>2. CASE LinkStep
      BY <3>2, LinkIndices DEF LinkStep
    <3>3. CASE UnlinkStep
      BY <3>3, UnlinkIndices DEF UnlinkStep
    <3>4. QED BY <2>1, <3>1, <3>2, <3>3, OperationCases
  <2>2. CASE Settings \/ Emission \/ UNCHANGED vars
    BY <2>2, OtherStepsKeepIndices DEF IndicesAgree, Entry
  <2>3. QED BY <2>1, <2>2, NextCases
<1>3. QED BY <1>1, <1>2, TypeCorrect, PTL DEF Spec

\* The state of the manager is consistent: its types and its two indices (Participation).
THEOREM StateStaysConsistent == Spec => []StateIsConsistent
BY TypeCorrect, IndicesNeverDrift, PTL DEF StateIsConsistent

-----------------------------------------------------------------------------
(* No lost wake-up. *)

\* An announced change leaves nobody behind without an event still to come.
LEMMA AnnounceIsPending ==
  ASSUME TypeOK, StaleIsPending, NEW type \in {"joined", "left"},
         NEW ps \in SUBSET Players, ps # {}, NEW gs \in SUBSET Games,
         Announce(type, ps, gs), UNCHANGED subs
  PROVE  StaleIsPending'
<1> DEFINE fr == [todo |-> {Event(type, p, g) : p \in ps, g \in gs},
                  event |-> NoEvent, targets |-> {}, running |-> FALSE]
           n == Len(frames)
<1>1. /\ frames \in Seq(Frame)
      /\ n \in Nat
      /\ frames' = Append(frames, fr)
  BY DEF Announce, TypeOK
<1>2. /\ Len(frames') = n + 1
      /\ \A i \in 1..n : frames'[i] = frames[i]
      /\ frames'[n + 1] = fr
  BY <1>1
<1>3. ASSUME NEW cg \in stale' PROVE cg[1] \in subs'[cg[2]] /\ Pending(cg[1], cg[2])'
  <2>1. CASE cg \in stale
    <3>1. cg[1] \in subs[cg[2]] /\ Pending(cg[1], cg[2])
      BY <2>1 DEF StaleIsPending
    <3>2. PICK i \in 1..n : \/ \E e \in frames[i].todo : e.game = cg[2]
                            \/ cg[1] \in frames[i].targets /\ frames[i].event.game = cg[2]
      BY <3>1 DEF Pending
    <3>3. i \in 1..Len(frames') /\ frames'[i] = frames[i]
      BY <1>1, <1>2
    <3>4. QED BY <3>1, <3>2, <3>3 DEF Pending
  <2>2. CASE cg \notin stale
    <3>1. cg \in Callbacks \X gs /\ cg[1] \in subs[cg[2]]
      BY <1>3, <2>2 DEF Announce
    <3>2. PICK p \in ps : TRUE
      OBVIOUS
    <3>3. Event(type, p, cg[2]) \in fr.todo /\ Event(type, p, cg[2]).game = cg[2]
      BY <3>1, <3>2 DEF Event
    <3>4. n + 1 \in 1..Len(frames')
      BY <1>1, <1>2
    <3>5. QED BY <1>2, <3>1, <3>3, <3>4 DEF Pending
  <2>3. QED BY <2>1, <2>2
<1>4. QED BY <1>3 DEF StaleIsPending

\* Whatever the running emission does, it calls those it took off the batch.
LEMMA EmissionKeepsPending ==
  ASSUME TypeOK, StaleIsPending, Emission
  PROVE  StaleIsPending'
<1> DEFINE n == Len(frames)
<1>0. /\ frames \in Seq(Frame) /\ frames # <<>>
      /\ n \in 1..n /\ n \in Nat /\ Top = frames[n]
      /\ UNCHANGED subs
  <2>1. frames # <<>> /\ UNCHANGED subs
    BY DEF Emission, EmitNext, CallSubscriber, SubscriberReturns, EmitDone
  <2>2. frames \in Seq(Frame)
    BY DEF TypeOK
  <2>3. QED BY <2>1, <2>2 DEF Top
<1>1. ASSUME NEW cg \in stale'
      PROVE  cg[1] \in subs'[cg[2]] /\ Pending(cg[1], cg[2])'
  <2>1. cg \in stale
    BY DEF Emission, EmitNext, CallSubscriber, SubscriberReturns, EmitDone
  <2>2. cg[1] \in subs[cg[2]] /\ Pending(cg[1], cg[2])
    BY <2>1 DEF StaleIsPending
  <2>3. PICK i \in 1..n : \/ \E e \in frames[i].todo : e.game = cg[2]
                          \/ cg[1] \in frames[i].targets /\ frames[i].event.game = cg[2]
    BY <2>2 DEF Pending
  <2>4. ASSUME NEW fr, SetTop(fr),
               i = n => \/ \E e \in fr.todo : e.game = cg[2]
                        \/ cg[1] \in fr.targets /\ fr.event.game = cg[2]
        PROVE  Pending(cg[1], cg[2])'
    <3>1. Len(frames') = n /\ frames'[n] = fr /\ \A j \in 1..n : j # n => frames'[j] = frames[j]
      BY <1>0, <2>4 DEF SetTop
    <3>2. i \in 1..Len(frames')
      BY <3>1
    <3>3. \/ \E e \in frames'[i].todo : e.game = cg[2]
          \/ cg[1] \in frames'[i].targets /\ frames'[i].event.game = cg[2]
      BY <2>3, <2>4, <3>1
    <3>4. QED BY <3>2, <3>3 DEF Pending
  <2>5. CASE EmitNext
    <3>1. PICK e \in Top.todo :
            SetTop([Top EXCEPT !.todo = @ \ {e}, !.event = e, !.targets = subs[e.game]])
      BY <2>5 DEF EmitNext
    <3> DEFINE fr == [Top EXCEPT !.todo = @ \ {e}, !.event = e, !.targets = subs[e.game]]
    <3>2. Top \in Frame /\ Top.targets = {}
      BY <1>0, <2>5, TopType DEF EmitNext
    <3>3. fr.todo = Top.todo \ {e} /\ fr.event = e /\ fr.targets = subs[e.game]
      BY <3>2 DEF Frame
    <3>4. i = n => \/ \E d \in fr.todo : d.game = cg[2]
                   \/ cg[1] \in fr.targets /\ fr.event.game = cg[2]
      BY <1>0, <2>2, <2>3, <3>2, <3>3
    <3>5. QED BY <1>0, <2>2, <2>4, <3>1, <3>4
  <2>6. CASE \E c \in Callbacks : CallSubscriber(c)
    <3>1. PICK c \in Callbacks : CallSubscriber(c)
      BY <2>6
    <3> DEFINE fr == [Top EXCEPT !.targets = @ \ {c}, !.running = TRUE]
    <3>2. Top \in Frame
      BY <1>0, TopType
    <3>3. fr.todo = Top.todo /\ fr.event = Top.event /\ fr.targets = Top.targets \ {c}
      BY <3>2 DEF Frame
    <3>4. SetTop(fr) /\ stale' = stale \ {<<c, Top.event.game>>}
      BY <3>1 DEF CallSubscriber
    <3>5. stale \subseteq Callbacks \X Games
      BY DEF TypeOK
    <3>6. cg = <<cg[1], cg[2]>> /\ cg # <<c, Top.event.game>>
      BY <2>1, <3>4, <3>5
    <3>7. i = n => \/ \E d \in fr.todo : d.game = cg[2]
                   \/ cg[1] \in fr.targets /\ fr.event.game = cg[2]
      BY <1>0, <2>3, <3>3, <3>6
    <3>8. QED BY <1>0, <2>2, <2>4, <3>4, <3>7
  <2>7. CASE SubscriberReturns
    <3> DEFINE fr == [Top EXCEPT !.running = FALSE]
    <3>1. Top \in Frame
      BY <1>0, TopType
    <3>2. fr.todo = Top.todo /\ fr.event = Top.event /\ fr.targets = Top.targets
      BY <3>1 DEF Frame
    <3>3. QED BY <1>0, <2>2, <2>3, <2>4, <2>7, <3>2 DEF SubscriberReturns
  <2>8. CASE EmitDone
    <3>1. /\ Top.targets = {} /\ Top.todo = {}
          /\ frames' = SubSeq(frames, 1, n - 1)
      BY <2>8 DEF EmitDone
    <3>2. i # n
      BY <1>0, <2>3, <3>1
    <3>3. i \in 1..(n - 1) /\ Len(frames') = n - 1 /\ frames'[i] = frames[i]
      BY <1>0, <3>1, <3>2
    <3>4. QED BY <1>0, <2>2, <2>3, <3>3 DEF Pending
  <2>9. QED BY <2>5, <2>6, <2>7, <2>8 DEF Emission
<1>2. QED BY <1>1 DEF StaleIsPending

\* Whoever is behind a game it is subscribed to is still going to be called.
THEOREM StaleIsPendingInvariant == Spec => []StaleIsPending
<1>1. Init => StaleIsPending
  BY DEF Init, StaleIsPending
<1>2. TypeOK /\ StaleIsPending /\ [Next]_vars => StaleIsPending'
  <2> SUFFICES ASSUME TypeOK, StaleIsPending, [Next]_vars PROVE StaleIsPending'
    OBVIOUS
  <2>1. CASE Operation
    <3>0. IndexType
      BY DEF TypeOK, IndexType
    <3>1. UNCHANGED subs
      BY <2>1, <3>0, OperationCases
    <3>2. CASE LinkStep
      BY <3>1, <3>2, AnnounceIsPending DEF LinkStep
    <3>3. CASE UnlinkStep
      <4>1. PICK ps \in SUBSET Players, gs \in SUBSET Games :
              /\ ps # {}
              /\ Announce("left", ps, gs) \/ UNCHANGED <<frames, stale>>
        BY <3>3 DEF UnlinkStep
      <4>2. CASE Announce("left", ps, gs)
        BY <3>1, <4>1, <4>2, AnnounceIsPending
      <4>3. CASE UNCHANGED <<frames, stale>>
        BY <3>1, <4>3 DEF StaleIsPending, Pending
      <4>4. QED BY <4>1, <4>2, <4>3
    <3>4. QED BY <2>1, <3>0, <3>2, <3>3, OperationCases
  <2>2. ASSUME NEW pol \in Policies, SetPolicy(pol) PROVE StaleIsPending'
    BY <2>2 DEF SetPolicy, StaleIsPending, Pending
  <2>3. ASSUME NEW c \in Callbacks, NEW g \in Games, Subscribe(c, g) PROVE StaleIsPending'
    <3>1. \A h \in Games : subs[h] \subseteq subs'[h]
      BY <2>3 DEF Subscribe, TypeOK
    <3>2. \A cg \in stale : cg[2] \in Games
      BY DEF TypeOK
    <3>3. UNCHANGED <<frames, stale>>
      BY <2>3 DEF Subscribe
    <3>4. QED BY <3>1, <3>2, <3>3 DEF StaleIsPending, Pending
  <2>4. ASSUME NEW c \in Callbacks, NEW g \in Games, Unsubscribe(c, g) PROVE StaleIsPending'
    <3>1. stale' = stale \ {<<c, g>>} /\ UNCHANGED frames
      BY <2>4 DEF Unsubscribe
    <3>2. \A cg \in stale : cg \in Callbacks \X Games
      BY DEF TypeOK
    <3>3. \A cg \in stale' : cg[1] \in subs[cg[2]] => cg[1] \in subs'[cg[2]]
      BY <2>4, <3>1, <3>2 DEF Unsubscribe, TypeOK
    <3>4. QED BY <3>1, <3>3 DEF StaleIsPending, Pending
  <2>5. CASE Emission
    BY <2>5, EmissionKeepsPending
  <2>6. CASE UNCHANGED vars
    BY <2>6 DEF vars, StaleIsPending, Pending
  <2>7. QED BY <2>1, <2>2, <2>3, <2>4, <2>5, <2>6, NextCases DEF Settings
<1>3. QED BY <1>1, <1>2, TypeCorrect, PTL DEF Spec

\* autoStop.ts:103, disconnectTimeout.ts:66 rely on it: once script code is idle,
\* every subscriber has been called since the last announced change of its games.
THEOREM NoWakeupIsLost == Spec => []NoLostWakeup
<1>1. StaleIsPending => NoLostWakeup
  BY DEF StaleIsPending, NoLostWakeup, Pending
<1>2. QED BY <1>1, StaleIsPendingInvariant, PTL

-----------------------------------------------------------------------------
(* Participation implements Membership. *)

\* Linking a batch adds those pairs to the relation.
LEMMA LinkMembers ==
  ASSUME NEW ps \in SUBSET Players, NEW gs \in SUBSET Games, Link(ps, gs)
  PROVE  members' = members \union (ps \X gs)
<1>1. ASSUME NEW p \in Players, NEW g \in Games
      PROVE  <<p, g>> \in members' <=> <<p, g>> \in members \/ (p \in ps /\ g \in gs)
  BY AddAllEntry DEF members, Has, Link
<1>2. members' \subseteq Players \X Games /\ members \subseteq Players \X Games
  BY DEF members
<1>3. ps \X gs \subseteq Players \X Games
  OBVIOUS
<1>4. QED BY <1>1, <1>2, <1>3

\* Unlinking a batch removes those pairs from the relation.
LEMMA UnlinkMembers ==
  ASSUME NEW ps \in SUBSET Players, NEW gs \in SUBSET Games, Unlink(ps, gs)
  PROVE  members' = members \ (ps \X gs)
<1>1. ASSUME NEW p \in Players, NEW g \in Games
      PROVE  <<p, g>> \in members' <=> <<p, g>> \in members /\ ~(p \in ps /\ g \in gs)
  BY RemoveAllEntry DEF members, Has, Unlink
<1>2. members' \subseteq Players \X Games /\ members \subseteq Players \X Games
  BY DEF members
<1>3. QED BY <1>1, <1>2

\* The indices and the re-entrant announcements implement the plain relation:
\* every step is an admission, a release, a change of policy or invisible.
THEOREM RefinesMembership == Spec => ImplementsMembership
<1>1. Init => Abstract!Init
  BY DEF Init, Abstract!Init, members, Has, Entry
<1>2. TypeOK /\ [Next]_vars => [Abstract!Next]_(Abstract!absVars)
  <2> SUFFICES ASSUME TypeOK, [Next]_vars
               PROVE  Abstract!Next \/ UNCHANGED <<policy, members>>
    BY DEF Abstract!absVars
  <2>0. IndexType
    BY DEF TypeOK, IndexType
  <2>1. CASE Operation
    <3>1. UNCHANGED policy
      BY <2>0, <2>1, OperationCases
    <3>2. CASE LinkStep
      <4>1. PICK ps \in SUBSET Players, g \in Games :
              /\ \A p \in ps : CanJoin(p, g) /\ ~Has(p, g)
              /\ Link(ps, {g})
        BY <3>2 DEF LinkStep
      <4>2. ASSUME NEW p \in ps PROVE Abstract!Admissible(p, g)
        <5>1. policy = "exclusive" => Entry(memberships, p) \subseteq {g}
          BY <4>1 DEF CanJoin, Has
        <5>2. Abstract!GamesOf(p) \subseteq Entry(memberships, p)
          BY DEF Abstract!GamesOf, members, Has
        <5>3. QED BY <5>1, <5>2 DEF Abstract!Admissible
      <4>3. members' = members \union (ps \X {g})
        BY <4>1, LinkMembers
      <4>4. Abstract!Admit(ps, g)
        BY <3>1, <4>2, <4>3 DEF Abstract!Admit
      <4>5. QED BY <4>4 DEF Abstract!Next
    <3>3. CASE UnlinkStep
      <4>1. PICK ps \in SUBSET Players, gs \in SUBSET Games :
              /\ (\E p \in Players : ps = {p}) \/ (\E g \in Games : gs = {g})
              /\ Unlink(ps, gs)
        BY <3>3 DEF UnlinkStep
      <4>2. members' = members \ (ps \X gs)
        BY <4>1, UnlinkMembers
      <4>3. Abstract!Release(ps, gs)
        BY <3>1, <4>1, <4>2 DEF Abstract!Release
      <4>4. QED BY <4>3 DEF Abstract!Next
    <3>4. QED BY <2>0, <2>1, <3>2, <3>3, OperationCases
  <2>2. ASSUME NEW pol \in Policies, SetPolicy(pol) PROVE Abstract!Next
    <3>1. Abstract!Install(pol)
      BY <2>2 DEF SetPolicy, Abstract!Install, members, Has
    <3>2. QED BY <3>1 DEF Abstract!Next
  <2>3. CASE \/ \E c \in Callbacks, g \in Games : Subscribe(c, g) \/ Unsubscribe(c, g)
             \/ Emission
             \/ UNCHANGED vars
    <3>1. UNCHANGED <<policy, memberships>>
      BY <2>3 DEF Subscribe, Unsubscribe, Emission, EmitNext, CallSubscriber,
                  SubscriberReturns, EmitDone, vars
    <3>2. QED BY <3>1 DEF members, Has
  <2>4. QED BY <2>1, <2>2, <2>3, NextCases DEF Settings
<1>3. QED BY <1>1, <1>2, TypeCorrect, PTL DEF Spec, Abstract!Spec, ImplementsMembership

-----------------------------------------------------------------------------
(* Call stacks.                                                              *)

LEMMA PStack ==
  ASSUME NEW q
  PROVE  P!Front(q) = Front(q) /\ P!Last(q) = Last(q)
BY DEF P!Front, P!Last, Front, Last

-----------------------------------------------------------------------------
(* The wrappers: the inductive invariant.                                    *)

Joins == {"join", "joinAll"}

\* Those who answer for a member without an active wrapper.
Claims == Joins \union {"rollback"}

\* A join under way is about members, a departure that is announced about others.
FrameFits(f) ==
  /\ f.op \in Joins => /\ f.batch # {} /\ f.todo \subseteq f.batch
                       /\ f.batch \subseteq roster /\ ~disposed
  /\ f.op = "join" => f.todo = f.batch
  /\ f.op = "left" => f.todo \intersect roster = {}

\* A call takes nobody back whom another call is still joining.
Apart(i, j) ==
  calls[i].op \in Claims /\ calls[j].op \in Joins /\ (j < i \/ calls[i].op = "rollback") =>
    calls[i].todo \intersect calls[j].batch = {}

Claimed(p) == \E i \in 1..Len(calls) : calls[i].op \in Claims /\ p \in calls[i].todo

FramesFit ==
  \A i \in 1..Len(calls) : FrameFits(calls[i]) /\ \A j \in 1..Len(calls) : Apart(i, j)

Claimants == \A p \in roster \intersect wrappers : p \in active \/ Claimed(p)

PInv ==
  /\ P!TypeOK /\ P!DisposedHoldsNothing /\ P!ActiveAreMembers
  /\ FramesFit /\ Claimants

LEMMA PInvImplies ==
  ASSUME PInv
  PROVE  P!WrappersFollowMembers
<1>1. ASSUME NEW p \in roster \intersect wrappers
      PROVE  p \in active \/ P!Joining(p) \/ P!RollingBack(p)
  <2> SUFFICES ASSUME Claimed(p) PROVE P!Joining(p) \/ P!RollingBack(p)
    BY DEF PInv, Claimants
  <2>1. PICK i \in 1..Len(calls) : calls[i].op \in Claims /\ p \in calls[i].todo
    BY DEF Claimed
  <2>2. FrameFits(calls[i])
    BY DEF PInv, FramesFit
  <2> QED
    BY <2>1, <2>2 DEF Claims, Joins, FrameFits, P!Joining, P!RollingBack
<1> QED
  BY <1>1 DEF PInv, P!WrappersFollowMembers, P!MembersAreActive

LEMMA JoiningAreMembers ==
  ASSUME PInv, NEW p, P!Joining(p)
  PROVE  p \in roster /\ ~disposed
<1>1. PICK i \in 1..Len(calls) : calls[i].op \in {"join", "joinAll"} /\ p \in calls[i].batch
  BY DEF P!Joining
<1> QED
  BY <1>1 DEF PInv, FramesFit, FrameFits, Joins

LEMMA DisposedIsEmpty ==
  ASSUME PInv, disposed
  PROVE  roster = {} /\ wrappers = {} /\ active = {} /\ viewed = {}
BY DEF PInv, P!DisposedHoldsNothing, P!TypeOK

(* What a stack looks like to the frames that stay.                          *)
LEMMA TypedFrames ==
  ASSUME P!TypeOK
  PROVE  /\ calls \in Seq(P!Frame) /\ Len(calls) \in Nat
         /\ \A i \in 1..Len(calls) :
              /\ calls[i] \in P!Frame
              /\ calls[i].op \in P!Ops
              /\ calls[i].batch \subseteq Players
              /\ calls[i].todo \subseteq Players
<1>1. calls \in Seq(P!Frame) /\ Len(calls) \in Nat
  BY DEF P!TypeOK
<1>2. \A i \in 1..Len(calls) : calls[i] \in P!Frame
  BY <1>1, ElementOfSeq
<1> QED
  BY <1>1, <1>2 DEF P!Frame

LEMMA CallTypes ==
  ASSUME NEW op \in P!Ops, NEW a \in SUBSET Players, NEW b \in SUBSET Players
  PROVE  /\ P!Call(op, a, b) \in P!Frame
         /\ P!Call(op, a, b) = [op |-> op, batch |-> a, todo |-> b, listens |-> FALSE]
         /\ P!Announcement(op, a) = P!Call(op, a, a)
BY DEF P!Call, P!Announcement, P!Frame

-----------------------------------------------------------------------------
(* The wrappers: the steps.                                                  *)

(* Wrapping members, or anybody whom view() is called for.                   *)
LEMMA WrapKeeps ==
  ASSUME PInv, NEW ps \in SUBSET Players,
         wrappers' = wrappers \union ps, active' = active \union ps,
         viewed \subseteq viewed', viewed' \subseteq viewed \union ps,
         \A p \in ps : p \in roster \/ p \in viewed',
         ~disposed,
         UNCHANGED <<roster, disposed, calls>>
  PROVE  PInv'
<1>1. P!TypeOK'
  BY DEF PInv, P!TypeOK
<1>2. P!DisposedHoldsNothing'
  BY DEF P!DisposedHoldsNothing
<1>3. P!ActiveAreMembers'
  BY DEF PInv, P!ActiveAreMembers, P!Leaving
<1>4. FramesFit'
  BY DEF PInv, FramesFit, FrameFits, Apart
<1>5. Claimants'
  BY DEF PInv, Claimants, Claimed
<1> QED
  BY <1>1, <1>2, <1>3, <1>4, <1>5 DEF PInv

(* The innermost frame goes, whose business is done.                         *)
LEMMA PopKeeps ==
  ASSUME PInv, calls # <<>>, calls' = Front(calls),
         NEW ps \in SUBSET Players, ps = {} \/ (ps \subseteq roster /\ ~disposed),
         wrappers' = wrappers \union ps,
         active' = active \union ps,
         UNCHANGED <<roster, viewed, disposed>>,
         Last(calls).op = "left" => Last(calls).todo = {},
         Last(calls).op \in Claims => Last(calls).todo \intersect wrappers' \subseteq active'
  PROVE  PInv'
<1>0. /\ calls \in Seq(P!Frame) /\ Len(calls) \in Nat
      /\ calls' \in Seq(P!Frame) /\ Len(calls') = Len(calls) - 1
      /\ Last(calls) = calls[Len(calls)] /\ Len(calls) \in 1..Len(calls)
      /\ \A i \in 1..Len(calls') : calls'[i] = calls[i] /\ i \in 1..Len(calls)
  <2>1. calls \in Seq(P!Frame) /\ Len(calls) \in Nat
    BY TypedFrames DEF PInv
  <2> QED
    BY <2>1, FrontFacts
<1>1. P!TypeOK'
  BY <1>0 DEF PInv, P!TypeOK
<1>2. P!DisposedHoldsNothing'
  BY DEF PInv, P!DisposedHoldsNothing
<1>3. P!ActiveAreMembers'
  <2> SUFFICES ASSUME NEW p \in active' \ viewed' PROVE p \in roster' \/ P!Leaving(p)'
    BY DEF P!ActiveAreMembers
  <2>1. CASE p \in ps
    BY <2>1
  <2>2. CASE p \in active /\ P!Leaving(p)
    <3>1. PICK i \in 1..Len(calls) : calls[i].op = "left" /\ p \in calls[i].todo
      BY <2>2 DEF P!Leaving
    <3>2. i # Len(calls)
      BY <1>0, <3>1
    <3>3. i \in 1..Len(calls') /\ calls'[i] = calls[i]
      BY <1>0, <3>2
    <3> QED
      BY <3>1, <3>3 DEF P!Leaving
  <2> QED
    BY <2>1, <2>2 DEF PInv, P!ActiveAreMembers
<1>4. FramesFit'
  <2>1. ASSUME NEW i \in 1..Len(calls') PROVE FrameFits(calls[i])'
    <3>1. calls'[i] = calls[i] /\ FrameFits(calls[i])
      BY <1>0, <2>1 DEF PInv, FramesFit
    <3> QED
      BY <3>1 DEF FrameFits
  <2>2. ASSUME NEW i \in 1..Len(calls'), NEW j \in 1..Len(calls') PROVE Apart(i, j)'
    <3>1. calls'[i] = calls[i] /\ calls'[j] = calls[j] /\ Apart(i, j)
      BY <1>0, <2>2 DEF PInv, FramesFit
    <3> QED
      BY <3>1 DEF Apart
  <2> QED
    BY <2>1, <2>2 DEF FramesFit
<1>5. Claimants'
  <2> SUFFICES ASSUME NEW p \in roster \intersect wrappers', p \notin active' PROVE Claimed(p)'
    BY DEF Claimants
  <2>1. Claimed(p)
    BY DEF PInv, Claimants
  <2>2. PICK i \in 1..Len(calls) : calls[i].op \in Claims /\ p \in calls[i].todo
    BY <2>1 DEF Claimed
  <2>3. i # Len(calls)
    BY <1>0, <2>2
  <2>4. i \in 1..Len(calls') /\ calls'[i] = calls[i]
    BY <1>0, <2>3
  <2> QED
    BY <2>2, <2>4 DEF Claimed
<1> QED
  BY <1>1, <1>2, <1>3, <1>4, <1>5 DEF PInv

LEMMA JoinReturnsKeeps ==
  ASSUME PInv, P!JoinReturns \/ P!JoinAllReturns
  PROVE  PInv'
<1>0. /\ calls # <<>> /\ calls' = Front(calls)
      /\ Last(calls).op \in Joins
      /\ wrappers' = wrappers \union Last(calls).batch
      /\ active' = active \union Last(calls).batch
      /\ UNCHANGED <<roster, viewed, disposed>>
  BY PStack DEF P!JoinReturns, P!JoinAllReturns, P!Wrap, P!Top, P!In, Joins
<1>1. Last(calls) = calls[Len(calls)] /\ Len(calls) \in 1..Len(calls)
  BY <1>0, TypedFrames, FrontFacts DEF PInv
<1>2. /\ Last(calls).batch \subseteq Players /\ Last(calls).todo \subseteq Last(calls).batch
      /\ Last(calls).batch \subseteq roster /\ ~disposed
  BY <1>0, <1>1, TypedFrames DEF PInv, FramesFit, FrameFits
<1> QED
  BY <1>0, <1>2, PopKeeps DEF Joins

LEMMA NothingLeftKeeps ==
  ASSUME PInv, P!JoinThrows \/ P!RollbackDone \/ P!AnnounceDone
  PROVE  PInv'
<1>0. /\ calls # <<>> /\ calls' = Front(calls)
      /\ \/ Last(calls).op = "join" /\ Last(calls).batch \intersect wrappers = {}
         \/ Last(calls).todo = {}
      /\ UNCHANGED <<roster, wrappers, active, viewed, disposed>>
  BY PStack DEF P!JoinThrows, P!RollbackDone, P!AnnounceDone, P!Announcing, P!Top, P!In
<1>1. Last(calls) = calls[Len(calls)] /\ Len(calls) \in 1..Len(calls)
  BY <1>0, TypedFrames, FrontFacts DEF PInv
<1>2. Last(calls).op = "join" => Last(calls).todo = Last(calls).batch
  BY <1>1 DEF PInv, FramesFit, FrameFits
<1>3. /\ wrappers' = wrappers \union {} /\ active' = active \union {}
      /\ {} \in SUBSET Players
      /\ Last(calls).op = "left" => Last(calls).todo = {}
      /\ Last(calls).todo \intersect wrappers' \subseteq active'
  BY <1>0, <1>2
<1> QED
  BY <1>0, <1>3, PopKeeps

(* A join begins, of players nobody is dropping, and is announced.           *)
LEMMA BeginKeeps ==
  ASSUME PInv, NEW op \in Joins, NEW ps \in SUBSET Players, ps # {}, ~disposed,
         op = "join" => ps \intersect roster = {},
         \A p \in ps : ~P!Leaving(p) /\ ~P!RollingBack(p),
         roster' = roster \union ps,
         calls' = calls \o <<P!Call(op, ps, ps \ roster), P!Announcement("joined", ps \ roster)>>,
         UNCHANGED <<wrappers, active, viewed, disposed>>
  PROVE  PInv'
<1> DEFINE n == Len(calls)
           f == [op |-> op, batch |-> ps, todo |-> ps \ roster, listens |-> FALSE]
           g == [op |-> "joined", batch |-> ps \ roster, todo |-> ps \ roster, listens |-> FALSE]
<1>0. /\ calls \in Seq(P!Frame) /\ n \in Nat
      /\ calls' \in Seq(P!Frame) /\ Len(calls') = n + 2
      /\ \A i \in 1..n : calls'[i] = calls[i]
      /\ calls'[n + 1] = f /\ calls'[n + 2] = g
      /\ \A i \in 1..n : calls[i] \in P!Frame
  <2>1. /\ f \in P!Frame /\ g \in P!Frame /\ calls' = calls \o <<f, g>>
        /\ calls \in Seq(P!Frame)
    BY TypedFrames DEF P!Call, P!Announcement, P!Frame, P!Ops, Joins, PInv
  <2> HIDE DEF f, g
  <2>2. /\ calls' \in Seq(P!Frame) /\ Len(calls') = Len(calls) + 2
        /\ \A i \in 1..Len(calls) : calls'[i] = calls[i]
        /\ calls'[Len(calls) + 1] = f /\ calls'[Len(calls) + 2] = g
    <3> DEFINE q == calls \o <<f, g>>
    <3>1. /\ q \in Seq(P!Frame) /\ Len(q) = Len(calls) + 2
          /\ \A i \in 1..Len(calls) : q[i] = calls[i]
          /\ q[Len(calls) + 1] = f /\ q[Len(calls) + 2] = g
      BY <2>1, PushTwoFacts
    <3> QED
      BY <2>1, <3>1
  <2> QED
    BY <2>1, <2>2, TypedFrames DEF PInv
<1>1. P!TypeOK'
  BY <1>0 DEF PInv, P!TypeOK
<1>2. P!DisposedHoldsNothing'
  BY DEF P!DisposedHoldsNothing
<1>3. P!ActiveAreMembers'
  <2> SUFFICES ASSUME NEW p \in active \ viewed, p \notin roster' PROVE P!Leaving(p)'
    BY DEF P!ActiveAreMembers
  <2>1. PICK i \in 1..n : calls[i].op = "left" /\ p \in calls[i].todo
    BY DEF PInv, P!ActiveAreMembers, P!Leaving
  <2>2. i \in 1..Len(calls') /\ calls'[i] = calls[i]
    BY <1>0
  <2> QED
    BY <2>1, <2>2 DEF P!Leaving
<1>4. FramesFit'
  <2>1. ASSUME NEW i \in 1..Len(calls') PROVE FrameFits(calls[i])'
    <3>1. CASE i \in 1..n
      <4>1. FrameFits(calls[i]) /\ calls'[i] = calls[i]
        BY <1>0, <3>1 DEF PInv, FramesFit
      <4>2. calls[i].op = "left" => calls[i].todo \intersect ps = {}
        BY <3>1 DEF P!Leaving
      <4> QED
        BY <4>1, <4>2 DEF FrameFits
    <3>2. CASE i = n + 1
      <4>1. /\ calls'[i].op = op /\ calls'[i].batch = ps /\ calls'[i].todo = ps \ roster
        <5>1. calls'[i] = f
          BY <1>0, <3>2
        <5> QED
          BY <5>1
      <4>2. op # "left"
        BY DEF Joins
      <4> QED
        BY <4>1, <4>2 DEF FrameFits
    <3>3. CASE i = n + 2
      BY <1>0, <3>3 DEF FrameFits, Joins
    <3> QED
      BY <1>0, <3>1, <3>2, <3>3
  <2>2. ASSUME NEW i \in 1..Len(calls'), NEW j \in 1..Len(calls') PROVE Apart(i, j)'
    <3>1. CASE i \in 1..n /\ j \in 1..n
      BY <1>0, <3>1 DEF PInv, FramesFit, Apart
    <3>2. CASE i \in 1..n /\ j = n + 1
      <4>1. calls[i].op = "rollback" => calls[i].todo \intersect ps = {}
        BY <3>2 DEF P!RollingBack
      <4> QED
        BY <1>0, <3>2, <4>1 DEF Apart
    <3>3. CASE i = n + 1 /\ j \in 1..n
      <4>1. calls[j].op \in Joins => calls[j].batch \subseteq roster
        BY <3>3 DEF PInv, FramesFit, FrameFits
      <4> QED
        BY <1>0, <3>3, <4>1 DEF Apart
    <3>4. CASE i = n + 1 /\ j = n + 1
      BY <1>0, <3>4 DEF Apart, Joins
    <3>5. CASE i = n + 2 \/ j = n + 2
      BY <1>0, <3>5 DEF Apart, Joins, Claims
    <3>6. /\ i \in 1..n \/ i = n + 1 \/ i = n + 2
          /\ j \in 1..n \/ j = n + 1 \/ j = n + 2
      <4>1. Len(calls') = n + 2 /\ n \in Nat
        BY <1>0
      <4> HIDE DEF n
      <4> QED
        BY <4>1
    <3> QED
      BY <3>1, <3>2, <3>3, <3>4, <3>5, <3>6
  <2> QED
    BY <2>1, <2>2 DEF FramesFit
<1>5. Claimants'
  <2> SUFFICES ASSUME NEW p \in roster' \intersect wrappers, p \notin active PROVE Claimed(p)'
    BY DEF Claimants
  <2>1. CASE p \in roster
    <3>1. PICK i \in 1..n : calls[i].op \in Claims /\ p \in calls[i].todo
      BY <2>1 DEF PInv, Claimants, Claimed
    <3>2. i \in 1..Len(calls') /\ calls'[i] = calls[i]
      BY <1>0
    <3> QED
      BY <3>1, <3>2 DEF Claimed
  <2>2. CASE p \notin roster
    <3>1. n + 1 \in 1..Len(calls') /\ p \in calls'[n + 1].todo /\ calls'[n + 1].op \in Claims
      BY <1>0, <2>2 DEF Claims
    <3> QED
      BY <3>1 DEF Claimed
  <2> QED
    BY <2>1, <2>2
<1> QED
  BY <1>1, <1>2, <1>3, <1>4, <1>5 DEF PInv

LEMMA JoinKeeps ==
  ASSUME PInv, NEW p \in Players, P!Join(p)
  PROVE  PInv'
<1>1. /\ ~disposed /\ p \notin roster /\ ~P!Leaving(p) /\ ~P!RollingBack(p)
      /\ roster' = roster \union {p}
      /\ calls' = calls \o <<P!Call("join", {p}, {p}), P!Announcement("joined", {p})>>
      /\ UNCHANGED <<wrappers, active, viewed, disposed>>
  BY DEF P!Join, P!MayCall, P!MayJoin
<1>2. {p} \ roster = {p} /\ {p} \intersect roster = {} /\ {p} # {} /\ {p} \in SUBSET Players
  BY <1>1
<1> QED
  BY <1>1, <1>2, BeginKeeps DEF Joins

LEMMA JoinAllKeeps ==
  ASSUME PInv, NEW ps \in (SUBSET Players) \ {{}}, P!JoinAll(ps)
  PROVE  PInv'
<1>1. /\ ~disposed /\ \A p \in ps : ~P!Leaving(p) /\ ~P!RollingBack(p)
      /\ roster' = roster \union ps
      /\ calls' = calls \o <<P!Call("joinAll", ps, ps \ roster), P!Announcement("joined", ps \ roster)>>
      /\ UNCHANGED <<wrappers, active, viewed, disposed>>
  BY DEF P!JoinAll, P!MayCall, P!MayJoin
<1>2. "joinAll" \in Joins /\ "joinAll" # "join" /\ ps \in SUBSET Players /\ ps # {}
  BY DEF Joins
<1> QED
  BY <1>1, <1>2, BeginKeeps

LEMMA GetKeeps ==
  ASSUME PInv, NEW p \in Players, P!Get(p) \/ P!View(p)
  PROVE  PInv'
<1>1. /\ ~disposed
      /\ wrappers' = wrappers \union {p} /\ active' = active \union {p}
      /\ UNCHANGED <<roster, disposed, calls>>
      /\ viewed \subseteq viewed' /\ viewed' \subseteq viewed \union {p}
      /\ \A q \in {p} : q \in roster \/ q \in viewed'
  BY DEF P!Get, P!View, P!Wrap, P!MayCall
<1>2. {p} \in SUBSET Players
  OBVIOUS
<1> QED
  BY <1>1, <1>2, WrapKeeps

(* The calls under way have less to do, and a departure may be announced.    *)
LEMMA ShrinkKeeps ==
  ASSUME PInv,
         Len(calls') \in {Len(calls), Len(calls) + 1},
         \A i \in 1..Len(calls) :
           /\ calls'[i].op = calls[i].op /\ calls'[i].batch = calls[i].batch
           /\ calls'[i].todo \subseteq calls[i].todo
           /\ calls[i].op = "join" => calls'[i].todo = calls[i].todo,
         Len(calls') = Len(calls) + 1 =>
           /\ calls'[Len(calls) + 1].op = "left"
           /\ calls'[Len(calls) + 1].todo \intersect roster' = {},
         roster' \subseteq roster,
         \A p \in roster \ roster' : ~P!Joining(p),
         disposed' => disposed \/ \A p \in Players : ~P!Joining(p)
  PROVE  FramesFit'
<1> DEFINE n == Len(calls)
<1>0. n \in Nat /\ \A i \in 1..n : calls[i].batch \subseteq Players
  BY TypedFrames DEF PInv
<1>1. ASSUME NEW i \in 1..Len(calls') PROVE FrameFits(calls[i])'
  <2>1. CASE i \in 1..n
    <3>1. FrameFits(calls[i])
      BY <2>1 DEF PInv, FramesFit
    <3>2. ASSUME calls[i].op \in Joins
          PROVE  calls[i].batch \subseteq roster' /\ ~disposed'
      <4>1. \A p \in calls[i].batch : P!Joining(p)
        BY <2>1, <3>2 DEF P!Joining, Joins
      <4> QED
        BY <1>0, <2>1, <3>1, <3>2, <4>1 DEF FrameFits
    <3> QED
      BY <2>1, <3>1, <3>2 DEF FrameFits
  <2>2. CASE i = n + 1
    BY <1>0, <2>2 DEF FrameFits, Joins
  <2> QED
    BY <1>0, <2>1, <2>2
<1>2. ASSUME NEW i \in 1..Len(calls'), NEW j \in 1..Len(calls') PROVE Apart(i, j)'
  <2>1. CASE i \in 1..n /\ j \in 1..n
    <3>1. Apart(i, j)
      BY <2>1 DEF PInv, FramesFit
    <3> QED
      BY <2>1, <3>1 DEF Apart
  <2>2. CASE i = n + 1 \/ j = n + 1
    BY <1>0, <2>2 DEF Apart, Joins, Claims
  <2> QED
    BY <1>0, <2>1, <2>2
<1> QED
  BY <1>1, <1>2 DEF FramesFit

LEMMA AnnounceKeeps ==
  ASSUME PInv, NEW p \in Players, P!Announce(p)
  PROVE  PInv'
<1> DEFINE n == Len(calls)
           f == [calls[n] EXCEPT !.todo = @ \ {p}, !.listens = TRUE]
<1>0. /\ calls # <<>> /\ Last(calls).op \in {"joined", "left"} /\ p \in Last(calls).todo
      /\ calls' = [calls EXCEPT ![n] = f]
      /\ UNCHANGED <<roster, wrappers, disposed>>
      /\ IF Last(calls).op = "left" /\ ~disposed
         THEN active' = active \ {p} /\ viewed' = viewed \ {p}
         ELSE UNCHANGED <<active, viewed>>
  BY PStack DEF P!Announce, P!Announcing, P!Top, P!Deactivate
<1>1. /\ calls \in Seq(P!Frame) /\ n \in Nat /\ n \in 1..n /\ Last(calls) = calls[n]
      /\ \A i \in 1..n : calls[i] \in P!Frame
  BY <1>0, TypedFrames, FrontFacts DEF PInv
<1>2. /\ f \in P!Frame /\ f.op = calls[n].op /\ f.batch = calls[n].batch
      /\ f.todo = calls[n].todo \ {p}
  BY <1>1 DEF P!Frame
<1> HIDE DEF f
<1>3. /\ calls' \in Seq(P!Frame) /\ Len(calls') = n
      /\ \A i \in 1..n : calls'[i] = IF i = n THEN f ELSE calls[i]
  BY <1>0, <1>1, <1>2, EditFacts
<1>4. P!TypeOK' /\ P!DisposedHoldsNothing'
  BY <1>0, <1>3 DEF PInv, P!TypeOK, P!DisposedHoldsNothing
<1>5. FramesFit'
  <2>1. \A i \in 1..n :
          /\ calls'[i].op = calls[i].op /\ calls'[i].batch = calls[i].batch
          /\ calls'[i].todo \subseteq calls[i].todo
          /\ calls[i].op = "join" => calls'[i].todo = calls[i].todo
    BY <1>0, <1>1, <1>2, <1>3
  <2>2. Len(calls') \in {n, n + 1} /\ Len(calls') # n + 1
    BY <1>1, <1>3
  <2>3. roster' = roster /\ disposed' = disposed
    BY <1>0
  <2> QED
    BY <2>1, <2>2, <2>3, ShrinkKeeps
<1>6. P!ActiveAreMembers'
  <2> SUFFICES ASSUME NEW q \in active' \ viewed', q \notin roster PROVE P!Leaving(q)'
    BY <1>0 DEF P!ActiveAreMembers
  <2>1. q \in active \ viewed
    BY <1>0
  <2>2. PICK i \in 1..n : calls[i].op = "left" /\ q \in calls[i].todo
    BY <2>1 DEF PInv, P!ActiveAreMembers, P!Leaving
  <2>3. i = n => q # p
    BY <1>0, <1>1, <2>1, <2>2, DisposedIsEmpty
  <2>4. calls'[i].op = "left" /\ q \in calls'[i].todo
    BY <1>2, <1>3, <2>2, <2>3
  <2> QED
    BY <1>3, <2>4 DEF P!Leaving
<1>7. Claimants'
  <2> SUFFICES ASSUME NEW q \in roster \intersect wrappers, q \notin active' PROVE Claimed(q)'
    BY <1>0 DEF Claimants
  <2>1. q \notin active
    <3>1. Last(calls).op = "left" => p \notin roster
      BY <1>0, <1>1 DEF PInv, FramesFit, FrameFits
    <3> QED
      BY <1>0, <3>1
  <2>2. PICK i \in 1..n : calls[i].op \in Claims /\ q \in calls[i].todo
    BY <2>1 DEF PInv, Claimants, Claimed
  <2>3. i # n
    BY <1>0, <1>1, <2>2 DEF Claims, Joins
  <2> QED
    BY <1>3, <2>2, <2>3 DEF Claimed
<1> QED
  BY <1>4, <1>5, <1>6, <1>7 DEF PInv

LEMMA ListenersReturnKeeps ==
  ASSUME PInv, P!ListenersReturn
  PROVE  PInv'
<1> DEFINE n == Len(calls)
           f == [calls[n] EXCEPT !.listens = FALSE]
<1>0. /\ calls # <<>>
      /\ calls' = [calls EXCEPT ![n] = f]
      /\ UNCHANGED <<roster, wrappers, active, viewed, disposed>>
  BY DEF P!ListenersReturn, P!Announcing
<1>1. /\ calls \in Seq(P!Frame) /\ n \in Nat /\ n \in 1..n
      /\ \A i \in 1..n : calls[i] \in P!Frame
  BY <1>0, TypedFrames, FrontFacts DEF PInv
<1>2. /\ f \in P!Frame /\ f.op = calls[n].op /\ f.batch = calls[n].batch
      /\ f.todo = calls[n].todo
  BY <1>1 DEF P!Frame
<1> HIDE DEF f
<1>3. /\ calls' \in Seq(P!Frame) /\ Len(calls') = n
      /\ \A i \in 1..n : calls'[i] = IF i = n THEN f ELSE calls[i]
  BY <1>0, <1>1, <1>2, EditFacts
<1>4. \A i \in 1..n :
        /\ calls'[i].op = calls[i].op /\ calls'[i].batch = calls[i].batch
        /\ calls'[i].todo = calls[i].todo
  BY <1>1, <1>2, <1>3
<1>5. P!TypeOK' /\ P!DisposedHoldsNothing'
  BY <1>0, <1>3 DEF PInv, P!TypeOK, P!DisposedHoldsNothing
<1>6. FramesFit'
  <2>1. ASSUME NEW i \in 1..n PROVE FrameFits(calls[i])'
    BY <1>0, <1>4 DEF PInv, FramesFit, FrameFits
  <2>2. ASSUME NEW i \in 1..n, NEW j \in 1..n PROVE Apart(i, j)'
    BY <1>4 DEF PInv, FramesFit, Apart
  <2> QED
    BY <1>3, <2>1, <2>2 DEF FramesFit
<1>7. P!ActiveAreMembers'
  BY <1>0, <1>3, <1>4 DEF PInv, P!ActiveAreMembers, P!Leaving
<1>8. Claimants'
  BY <1>0, <1>3, <1>4 DEF PInv, Claimants, Claimed
<1> QED
  BY <1>5, <1>6, <1>7, <1>8 DEF PInv

LEMMA JoinAllThrowsKeeps ==
  ASSUME PInv, NEW done, P!JoinAllThrows(done)
  PROVE  PInv'
<1> DEFINE n == Len(calls)
           f == [calls[n] EXCEPT !.op = "rollback"]
<1>0. /\ calls # <<>> /\ Last(calls).op = "joinAll" /\ done \subseteq Last(calls).batch
      /\ calls' = [calls EXCEPT ![n] = f]
      /\ active' = active \union (done \intersect wrappers)
      /\ UNCHANGED <<roster, wrappers, viewed, disposed>>
  BY PStack DEF P!JoinAllThrows, P!In, P!Top
<1>1. /\ calls \in Seq(P!Frame) /\ n \in Nat /\ n \in 1..n /\ Last(calls) = calls[n]
      /\ \A i \in 1..n : calls[i] \in P!Frame
  BY <1>0, TypedFrames, FrontFacts DEF PInv
<1>2. /\ f \in P!Frame /\ f.op = "rollback" /\ f.batch = calls[n].batch
      /\ f.todo = calls[n].todo
  BY <1>1 DEF P!Frame, P!Ops
<1> HIDE DEF f
<1>3. /\ calls' \in Seq(P!Frame) /\ Len(calls') = n
      /\ \A i \in 1..n : calls'[i] = IF i = n THEN f ELSE calls[i]
  BY <1>0, <1>1, <1>2, EditFacts
<1>4. done \subseteq roster
  BY <1>0, <1>1 DEF PInv, FramesFit, FrameFits, Joins
<1>5. P!TypeOK' /\ P!DisposedHoldsNothing'
  BY <1>0, <1>3 DEF PInv, P!TypeOK, P!DisposedHoldsNothing
<1>6. FramesFit'
  <2>1. ASSUME NEW i \in 1..n PROVE FrameFits(calls[i])'
    <3>1. FrameFits(calls[i])
      BY DEF PInv, FramesFit
    <3> QED
      BY <1>0, <1>2, <1>3, <3>1 DEF FrameFits, Joins
  <2>2. ASSUME NEW i \in 1..n, NEW j \in 1..n PROVE Apart(i, j)'
    <3>1. Apart(i, j)
      BY DEF PInv, FramesFit
    <3>2. CASE i = n
      <4>1. CASE j = n
        BY <1>1, <1>2, <1>3, <4>1 DEF Apart, Joins
      <4>2. CASE j # n
        <5>1. j < i /\ calls'[j] = calls[j] /\ calls'[i].todo = calls[i].todo
          BY <1>1, <1>2, <1>3, <3>2, <4>2
        <5>2. calls[i].op \in Claims
          BY <1>0, <1>1, <3>2 DEF Claims, Joins
        <5> QED
          BY <3>1, <5>1, <5>2 DEF Apart
      <4> QED
        BY <4>1, <4>2
    <3>3. CASE i # n
      BY <1>2, <1>3, <3>1, <3>3 DEF Apart, Claims, Joins
    <3> QED
      BY <3>2, <3>3
  <2> QED
    BY <1>3, <2>1, <2>2 DEF FramesFit
<1>7. P!ActiveAreMembers'
  <2> SUFFICES ASSUME NEW q \in active' \ viewed', q \notin roster PROVE P!Leaving(q)'
    BY <1>0 DEF P!ActiveAreMembers
  <2>1. q \in active \ viewed
    BY <1>0, <1>4
  <2>2. PICK i \in 1..n : calls[i].op = "left" /\ q \in calls[i].todo
    BY <2>1 DEF PInv, P!ActiveAreMembers, P!Leaving
  <2>3. i # n
    BY <1>0, <1>1, <2>2
  <2> QED
    BY <1>3, <2>2, <2>3 DEF P!Leaving
<1>8. Claimants'
  <2> SUFFICES ASSUME NEW q \in roster \intersect wrappers, q \notin active PROVE Claimed(q)'
    BY <1>0 DEF Claimants
  <2>1. PICK i \in 1..n : calls[i].op \in Claims /\ q \in calls[i].todo
    BY DEF PInv, Claimants, Claimed
  <2>2. calls'[i].op \in Claims /\ q \in calls'[i].todo
    BY <1>2, <1>3, <2>1 DEF Claims
  <2> QED
    BY <1>3, <2>2 DEF Claimed
<1> QED
  BY <1>5, <1>6, <1>7, <1>8 DEF PInv

(* Members are taken back, and their departure is about to be announced.     *)
LEMMA ReleaseKeeps ==
  ASSUME PInv, NEW ps \in SUBSET Players,
         roster' = roster \ ps,
         calls' = Append(calls, P!Announcement("left", ps)),
         \A p \in ps : ~P!Joining(p),
         active' \subseteq active, active \ active' \subseteq ps,
         viewed' = viewed \intersect active',
         UNCHANGED <<wrappers, disposed>>
  PROVE  PInv'
<1> DEFINE n == Len(calls)
           f == P!Announcement("left", ps)
<1>0. /\ calls \in Seq(P!Frame) /\ n \in Nat /\ f \in P!Frame /\ f.op = "left" /\ f.todo = ps
  BY TypedFrames DEF PInv, P!Announcement, P!Call, P!Frame, P!Ops
<1> HIDE DEF f
<1>1. /\ calls' \in Seq(P!Frame) /\ Len(calls') = n + 1
      /\ \A i \in 1..n : calls'[i] = calls[i]
      /\ calls'[n + 1] = f
  BY <1>0, PushFacts DEF f
<1>2. P!TypeOK' /\ P!DisposedHoldsNothing'
  BY <1>1 DEF PInv, P!TypeOK, P!DisposedHoldsNothing
<1>3. FramesFit'
  BY <1>0, <1>1, ShrinkKeeps
<1>4. P!ActiveAreMembers'
  <2> SUFFICES ASSUME NEW q \in active' \ viewed', q \notin roster' PROVE P!Leaving(q)'
    BY DEF P!ActiveAreMembers
  <2>1. CASE q \in ps
    BY <1>0, <1>1, <2>1 DEF P!Leaving
  <2>2. CASE q \notin ps
    <3>1. PICK i \in 1..n : calls[i].op = "left" /\ q \in calls[i].todo
      BY <2>2 DEF PInv, P!ActiveAreMembers, P!Leaving
    <3> QED
      BY <1>0, <1>1, <3>1 DEF P!Leaving
  <2> QED
    BY <2>1, <2>2
<1>5. Claimants'
  <2> SUFFICES ASSUME NEW q \in roster' \intersect wrappers, q \notin active' PROVE Claimed(q)'
    BY DEF Claimants
  <2>1. PICK i \in 1..n : calls[i].op \in Claims /\ q \in calls[i].todo
    BY DEF PInv, Claimants, Claimed
  <2> QED
    BY <1>0, <1>1, <2>1 DEF Claimed
<1> QED
  BY <1>2, <1>3, <1>4, <1>5 DEF PInv

LEMMA LeaveKeeps ==
  ASSUME PInv, NEW p \in Players, P!Leave(p)
  PROVE  PInv'
<1>0. /\ active' = active \ {p} /\ viewed' = viewed \ {p}
      /\ ~P!Joining(p)
      /\ UNCHANGED <<wrappers, disposed>>
      /\ IF p \in roster
         THEN roster' = roster \ {p} /\ calls' = Append(calls, P!Announcement("left", {p}))
         ELSE UNCHANGED <<roster, calls>>
  BY DEF P!Leave, P!MayLeave, P!Deactivate, P!Release
<1>1. viewed \subseteq active
  BY DEF PInv, P!TypeOK
<1>2. CASE p \in roster
  BY <1>0, <1>1, <1>2, ReleaseKeeps
<1>3. CASE p \notin roster
  <2>1. UNCHANGED <<roster, calls>>
    BY <1>0, <1>3
  <2>2. P!TypeOK' /\ P!DisposedHoldsNothing'
    BY <1>0, <2>1 DEF PInv, P!TypeOK, P!DisposedHoldsNothing
  <2>3. FramesFit'
    BY <1>0, <2>1 DEF PInv, FramesFit, FrameFits, Apart
  <2>4. P!ActiveAreMembers'
    BY <1>0, <2>1 DEF PInv, P!ActiveAreMembers, P!Leaving
  <2>5. Claimants'
    BY <1>0, <1>3, <2>1 DEF PInv, Claimants, Claimed
  <2> QED
    BY <2>2, <2>3, <2>4, <2>5 DEF PInv
<1> QED
  BY <1>2, <1>3

LEMMA ReleasedOutsideKeeps ==
  ASSUME PInv, NEW ps \in SUBSET Players, P!ReleasedOutside(ps)
  PROVE  PInv'
<1>1. /\ roster' = roster \ ps /\ calls' = Append(calls, P!Announcement("left", ps))
      /\ \A p \in ps : ~P!Joining(p)
      /\ UNCHANGED <<wrappers, active, viewed, disposed>>
  BY DEF P!ReleasedOutside, P!MayLeave, P!Release
<1>2. viewed \subseteq active
  BY DEF PInv, P!TypeOK
<1> QED
  BY <1>1, <1>2, ReleaseKeeps

LEMMA RollbackNextKeeps ==
  ASSUME PInv, NEW p \in Players, P!RollbackNext(p)
  PROVE  PInv'
<1> DEFINE n == Len(calls)
           f == [calls[n] EXCEPT !.todo = @ \ {p}]
           rest == [calls EXCEPT ![n] = f]
           g == P!Announcement("left", {p})
<1>0. /\ calls # <<>> /\ Last(calls).op = "rollback" /\ p \in Last(calls).todo
      /\ roster' = roster \ {p}
      /\ calls' = IF p \in roster THEN Append(rest, g) ELSE rest
      /\ UNCHANGED <<wrappers, active, viewed, disposed>>
  BY PStack DEF P!RollbackNext, P!In, P!Top
<1>1. /\ calls \in Seq(P!Frame) /\ n \in Nat /\ n \in 1..n /\ Last(calls) = calls[n]
      /\ \A i \in 1..n : calls[i] \in P!Frame
  BY <1>0, TypedFrames, FrontFacts DEF PInv
<1>2. /\ f \in P!Frame /\ f.op = calls[n].op /\ f.batch = calls[n].batch
      /\ f.todo = calls[n].todo \ {p}
  BY <1>1 DEF P!Frame
<1>3. g \in P!Frame /\ g.op = "left" /\ g.todo = {p}
  BY DEF P!Announcement, P!Call, P!Frame, P!Ops
<1> HIDE DEF f, g
<1>4. /\ rest \in Seq(P!Frame) /\ Len(rest) = n
      /\ \A i \in 1..n : rest[i] = IF i = n THEN f ELSE calls[i]
  BY <1>1, <1>2, <1>0, EditFacts
<1> HIDE DEF rest
<1>5. /\ calls' \in Seq(P!Frame)
      /\ Len(calls') = IF p \in roster THEN n + 1 ELSE n
      /\ \A i \in 1..n : calls'[i] = IF i = n THEN f ELSE calls[i]
      /\ p \in roster => calls'[n + 1] = g
  <2>1. CASE p \in roster
    BY <1>0, <1>3, <1>4, <2>1, PushFacts
  <2>2. CASE p \notin roster
    BY <1>0, <1>4, <2>2
  <2> QED
    BY <2>1, <2>2
<1>6. ~P!Joining(p)
  <2> SUFFICES ASSUME NEW j \in 1..n, calls[j].op \in Joins PROVE p \notin calls[j].batch
    BY DEF P!Joining, Joins
  <2>1. Apart(n, j)
    BY <1>1 DEF PInv, FramesFit
  <2> QED
    BY <1>0, <1>1, <2>1 DEF Apart, Claims
<1>7. P!TypeOK' /\ P!DisposedHoldsNothing'
  BY <1>0, <1>5 DEF PInv, P!TypeOK, P!DisposedHoldsNothing
<1>8. FramesFit'
  <2>1. \A i \in 1..n :
          /\ calls'[i].op = calls[i].op /\ calls'[i].batch = calls[i].batch
          /\ calls'[i].todo \subseteq calls[i].todo
          /\ calls[i].op = "join" => calls'[i].todo = calls[i].todo
    BY <1>0, <1>1, <1>2, <1>5
  <2>2. /\ Len(calls') \in {n, n + 1}
        /\ Len(calls') = n + 1 => /\ calls'[n + 1].op = "left"
                                  /\ calls'[n + 1].todo \intersect roster' = {}
    BY <1>0, <1>1, <1>3, <1>5
  <2>3. /\ roster' \subseteq roster /\ \A q \in roster \ roster' : ~P!Joining(q)
        /\ disposed' = disposed
    BY <1>0, <1>6
  <2> QED
    BY <2>1, <2>2, <2>3, ShrinkKeeps
<1>9. P!ActiveAreMembers'
  <2> SUFFICES ASSUME NEW q \in active \ viewed, q \notin roster' PROVE P!Leaving(q)'
    BY <1>0 DEF P!ActiveAreMembers
  <2>1. CASE q \in roster
    <3>1. q = p
      BY <1>0, <2>1
    <3>2. n + 1 \in 1..Len(calls') /\ calls'[n + 1] = g
      BY <1>1, <1>5, <2>1, <3>1
    <3> QED
      BY <1>3, <3>1, <3>2 DEF P!Leaving
  <2>2. CASE q \notin roster
    <3>1. PICK i \in 1..n : calls[i].op = "left" /\ q \in calls[i].todo
      BY <2>2 DEF PInv, P!ActiveAreMembers, P!Leaving
    <3>2. i # n
      BY <1>0, <1>1, <3>1
    <3>3. i \in 1..Len(calls') /\ calls'[i] = calls[i]
      BY <1>1, <1>5, <3>2
    <3> QED
      BY <3>1, <3>3 DEF P!Leaving
  <2> QED
    BY <2>1, <2>2
<1>10. Claimants'
  <2> SUFFICES ASSUME NEW q \in roster' \intersect wrappers, q \notin active PROVE Claimed(q)'
    BY <1>0 DEF Claimants
  <2>1. q # p /\ q \in roster
    BY <1>0
  <2>2. PICK i \in 1..n : calls[i].op \in Claims /\ q \in calls[i].todo
    BY <2>1 DEF PInv, Claimants, Claimed
  <2>3. i \in 1..Len(calls') /\ calls'[i].op \in Claims /\ q \in calls'[i].todo
    BY <1>1, <1>2, <1>5, <2>1, <2>2
  <2> QED
    BY <2>3 DEF Claimed
<1> QED
  BY <1>7, <1>8, <1>9, <1>10 DEF PInv

LEMMA DisposeKeeps ==
  ASSUME PInv, P!Dispose
  PROVE  PInv'
<1>0. /\ disposed' = TRUE /\ roster' = {} /\ wrappers' = {}
      /\ active' = active \ Players /\ viewed' = viewed \ Players
      /\ UNCHANGED calls
      /\ \A p \in Players : ~P!Joining(p)
  BY DEF P!Dispose, P!Deactivate
<1>1. active' = {} /\ viewed' = {}
  BY <1>0 DEF PInv, P!TypeOK
<1>2. P!TypeOK' /\ P!DisposedHoldsNothing' /\ P!ActiveAreMembers' /\ Claimants'
  BY <1>0, <1>1 DEF PInv, P!TypeOK, P!DisposedHoldsNothing, P!ActiveAreMembers, Claimants
<1>3. FramesFit'
  <2>1. Len(calls) \in Nat
    BY TypedFrames DEF PInv
  <2>2. \A p \in roster : p \in Players
    BY DEF PInv, P!TypeOK
  <2> QED
    BY <1>0, <2>1, <2>2, ShrinkKeeps
<1> QED
  BY <1>2, <1>3 DEF PInv

LEMMA PInvNext ==
  ASSUME PInv, P!Next
  PROVE  PInv'
<1>1. CASE \E p \in Players :
             P!Join(p) \/ P!Get(p) \/ P!View(p) \/ P!Leave(p) \/ P!RollbackNext(p) \/ P!Announce(p)
  BY <1>1, JoinKeeps, GetKeeps, LeaveKeeps, RollbackNextKeeps, AnnounceKeeps
<1>2. CASE \E ps \in (SUBSET Players) \ {{}} : P!JoinAll(ps)
  BY <1>2, JoinAllKeeps
<1>3. CASE (\E p \in roster : P!ReleasedOutside({p})) \/ P!ReleasedOutside(roster)
  <2>1. roster \in SUBSET Players /\ \A p \in roster : {p} \in SUBSET Players
    BY DEF PInv, P!TypeOK
  <2> QED
    BY <1>3, <2>1, ReleasedOutsideKeeps
<1>4. CASE P!Dispose
  BY <1>4, DisposeKeeps
<1>5. CASE P!JoinReturns \/ P!JoinThrows \/ P!JoinAllReturns \/ P!RollbackDone \/ P!AnnounceDone
  BY <1>5, JoinReturnsKeeps, NothingLeftKeeps
<1>6. CASE (\E done \in SUBSET Players : P!JoinAllThrows(done)) \/ P!ListenersReturn
  BY <1>6, JoinAllThrowsKeeps, ListenersReturnKeeps
<1> QED
  BY <1>1, <1>2, <1>3, <1>4, <1>5, <1>6 DEF P!Next

-----------------------------------------------------------------------------
(* The games: the inductive invariant.                                       *)

Hooks == {"onStart", "onStop", "exits"}

\* The key of a game is its own or free, unless it was overtaken.
Held(i, k) == k \notin overtaken => games[k] \in {i, None}

\* Whoever will clean up under a key does it for the game that has the key.
CallFits(f) ==
  /\ f.op \in Hooks => f.game \in Instances /\ key[f.game] \in Keys /\ Held(f.game, key[f.game])
  /\ f.op = "disposeAll" => \A e \in f.todo : key[e[2]] = e[1] /\ Held(e[2], e[1])

CallsFit == \A n \in 1..Len(calls) : CallFits(calls[n])

RegistryFits ==
  /\ \A k \in Keys : games[k] # None => key[games[k]] = k /\ M!Alive(games[k])
  /\ \A i \in Instances : key[i] = None <=> lifecycle[i] = "created"

\* Who is to take a game out of the state it is half way in.
InHand(i) ==
  /\ lifecycle[i] = "starting" =>
       \E n \in 1..Len(calls) : calls[n].op = "onStart" /\ calls[n].game = i
  /\ lifecycle[i] = "stopping" =>
       \E n \in 1..Len(calls) : calls[n].op \in {"onStop", "exits"} /\ calls[n].game = i

NoneForgotten == \A i \in Instances : InHand(i)

MInv == M!KeysAgree /\ RegistryFits /\ CallsFit /\ NoneForgotten

LEMMA MStack ==
  ASSUME NEW q
  PROVE  M!Front(q) = Front(q) /\ M!Last(q) = Last(q)
BY DEF M!Front, M!Last, Front, Last

LEMMA MConstants == None \notin Instances /\ None \notin Keys /\ Daemons \subseteq Keys
BY ServicesAssumption DEF ServicesAssumption, M!GameManagerAssumption

LEMMA MInvImplies ==
  ASSUME MInv
  PROVE  M!KeysAgree /\ M!NoneStuck
<1>1. ASSUME NEW i \in Instances, lifecycle[i] \in {"starting", "stopping"}
      PROVE  \E n \in 1..Len(calls) : calls[n].game = i
  BY <1>1 DEF MInv, NoneForgotten, InHand
<1> QED
  BY <1>1 DEF MInv, M!NoneStuck

LEMMA TypedCalls ==
  ASSUME M!TypeOK
  PROVE  /\ calls \in Seq(M!Frame) /\ Len(calls) \in Nat
         /\ \A n \in 1..Len(calls) :
              /\ calls[n] \in M!Frame
              /\ calls[n].op \in M!Ops
              /\ calls[n].game \in Instances \union {None}
              /\ calls[n].todo \subseteq Keys \X Instances
<1>1. calls \in Seq(M!Frame) /\ Len(calls) \in Nat
  BY DEF M!TypeOK
<1>2. \A n \in 1..Len(calls) : calls[n] \in M!Frame
  BY <1>1, ElementOfSeq
<1> QED
  BY <1>1, <1>2 DEF M!Frame

LEMMA TopOfCalls ==
  ASSUME M!TypeOK, calls # <<>>
  PROVE  /\ M!Top = calls[Len(calls)] /\ Len(calls) \in 1..Len(calls) /\ Len(calls) \in Nat
         /\ M!Top \in M!Frame
         /\ M!Front(calls) \in Seq(M!Frame) /\ Len(M!Front(calls)) = Len(calls) - 1
         /\ \A n \in 1..(Len(calls) - 1) : M!Front(calls)[n] = calls[n] /\ n \in 1..Len(calls)
<1>1. calls \in Seq(M!Frame)
  BY DEF M!TypeOK
<1>2. /\ Front(calls) \in Seq(M!Frame) /\ Len(Front(calls)) = Len(calls) - 1
      /\ Len(calls) \in 1..Len(calls)
      /\ Last(calls) \in M!Frame /\ Last(calls) = calls[Len(calls)]
      /\ \A i \in 1..Len(Front(calls)) : Front(calls)[i] = calls[i] /\ i \in 1..Len(calls)
  BY <1>1, FrontFacts
<1> QED
  BY <1>1, <1>2, MStack DEF M!Top

LEMMA FrameTypes ==
  ASSUME NEW op \in M!Ops, NEW i \in Instances \union {None}
  PROVE  /\ M!Call(op, i) \in M!Frame
         /\ M!Call(op, i).op = op /\ M!Call(op, i).game = i /\ M!Call(op, i).todo = {}
BY DEF M!Call, M!Frame

(* A call that goes on fits, as long as no game is registered anew.          *)
LEMMA CallKeeps ==
  ASSUME MInv, NEW n \in 1..Len(calls), NEW m,
         calls'[m].op = calls[n].op, calls'[m].game = calls[n].game,
         calls'[m].todo \subseteq calls[n].todo,
         key' = key, overtaken' = overtaken,
         \A k \in Keys : games'[k] \in {games[k], None}
  PROVE  CallFits(calls[m])'
<1>1. CallFits(calls[n]) /\ calls[n].todo \subseteq Keys \X Instances
  BY TypedCalls DEF MInv, CallsFit, M!KeysAgree
<1>2. ASSUME NEW i, NEW k \in Keys, Held(i, k) PROVE Held(i, k)'
  BY <1>2 DEF Held
<1>3. ASSUME calls[n].op \in Hooks
      PROVE  /\ calls[n].game \in Instances /\ key[calls[n].game] \in Keys
             /\ Held(calls[n].game, key[calls[n].game])
  BY <1>1, <1>3 DEF CallFits
<1>4. ASSUME calls'[m].op \in Hooks
      PROVE  /\ calls'[m].game \in Instances /\ key'[calls'[m].game] \in Keys
             /\ Held(calls[m].game, key[calls[m].game])'
  BY <1>3, <1>4 DEF Held
<1>5. ASSUME calls'[m].op = "disposeAll", NEW e \in calls'[m].todo
      PROVE  key'[e[2]] = e[1] /\ Held(e[2], e[1])'
  <2>1. e \in calls[n].todo /\ calls[n].op = "disposeAll" /\ e[1] \in Keys
    BY <1>1, <1>5
  <2>2. key[e[2]] = e[1] /\ Held(e[2], e[1])
    BY <1>1, <2>1 DEF CallFits
  <2> QED
    BY <1>2, <2>1, <2>2
<1> QED
  BY <1>4, <1>5 DEF CallFits

(* A game is gone, and with it what its key stood for.                       *)
LEMMA EndKeeps ==
  ASSUME MInv, NEW i \in Instances, NEW k \in Keys, key[i] = k, Held(i, k),
         games' \in [Keys -> Instances \union {None}],
         games'[k] = None \/ (games'[k] = games[k] /\ games[k] # i),
         \A q \in Keys \ {k} : games'[q] = games[q],
         sessions' = [sessions EXCEPT ![k] = None],
         lifecycle' = [lifecycle EXCEPT ![i] = "disposed"],
         roster' \subseteq roster, i \notin roster',
         calls' \in Seq(M!Frame),
         key' = key, overtaken' = overtaken
  PROVE  M!KeysAgree' /\ RegistryFits'
<1>0. M!TypeOK /\ None \notin Instances /\ None \notin Keys
  BY MConstants DEF MInv, M!KeysAgree
<1>1. M!TypeOK'
  BY <1>0 DEF M!TypeOK
<1>2. RegistryFits'
  <2>1. ASSUME NEW q \in Keys, games'[q] # None PROVE key'[games'[q]] = q /\ M!Alive(games[q])'
    <3>1. games'[q] = games[q] /\ games[q] \in Instances
      BY <1>0, <2>1 DEF M!TypeOK
    <3>2. key[games[q]] = q /\ M!Alive(games[q])
      BY <2>1, <3>1 DEF MInv, RegistryFits
    <3>3. games[q] # i
      BY <2>1, <3>1, <3>2
    <3> QED
      BY <1>0, <3>1, <3>2, <3>3 DEF M!Alive, M!TypeOK
  <2>2. ASSUME NEW j \in Instances PROVE key'[j] = None <=> lifecycle'[j] = "created"
    BY <1>0 DEF MInv, RegistryFits, M!TypeOK
  <2> QED
    BY <2>1, <2>2 DEF RegistryFits
<1>3. ASSUME NEW j \in Instances, M!Alive(j)' PROVE j # i /\ M!Alive(j)
  BY <1>0, <1>3 DEF M!Alive, M!TypeOK
<1>4. M!LiveIsRegistered'
  <2> SUFFICES ASSUME NEW j \in Instances, M!Alive(j)', key[j] \notin overtaken
               PROVE  games'[key[j]] = j
    BY DEF M!LiveIsRegistered
  <2>1. j # i /\ M!Alive(j) /\ games[key[j]] = j
    BY <1>3 DEF MInv, M!KeysAgree, M!LiveIsRegistered
  <2>2. key[j] \in Keys
    BY <1>0, <2>1 DEF MInv, RegistryFits, M!TypeOK, M!Alive
  <2>3. key[j] # k
    BY <1>0, <2>1 DEF Held
  <2> QED
    BY <2>1, <2>2, <2>3
<1>5. M!SessionPerGame'
  <2> SUFFICES ASSUME NEW q \in Keys \ overtaken PROVE sessions'[q] = games'[q]
    BY DEF M!SessionPerGame
  <2>1. CASE q = k
    BY <1>0, <2>1 DEF Held, M!TypeOK
  <2>2. CASE q # k
    BY <1>0, <2>2 DEF MInv, M!KeysAgree, M!SessionPerGame, M!TypeOK
  <2> QED
    BY <2>1, <2>2
<1>6. M!MembersAreLive'
  <2> SUFFICES ASSUME NEW j \in roster' PROVE M!Alive(j)'
    BY DEF M!MembersAreLive
  <2>1. j # i /\ M!Alive(j) /\ j \in Instances
    BY <1>0 DEF MInv, M!KeysAgree, M!MembersAreLive, M!TypeOK
  <2> QED
    BY <1>0, <2>1 DEF M!Alive, M!TypeOK
<1> QED
  BY <1>1, <1>2, <1>4, <1>5, <1>6 DEF M!KeysAgree

-----------------------------------------------------------------------------
(* The games: the steps.                                                     *)

LEMMA StartGameKeeps ==
  ASSUME MInv, NEW k \in Keys, NEW i \in Instances, M!StartGame(k, i)
  PROVE  MInv'
<1> DEFINE N == Len(calls)
           f == M!Call("onStart", i)
<1>0. /\ games[k] = None /\ lifecycle[i] = "created" /\ key[i] = None
      /\ games' = [games EXCEPT ![k] = i]
      /\ sessions' = [sessions EXCEPT ![k] = IF @ = None THEN i ELSE @]
      /\ key' = [key EXCEPT ![i] = k]
      /\ lifecycle' = [lifecycle EXCEPT ![i] = "starting"]
      /\ calls' = Append(calls, f)
      /\ overtaken' = IF M!Ending(k) THEN overtaken \union {k} ELSE overtaken
      /\ roster' = roster
  BY DEF M!StartGame, M!Registered, M!Enter
<1>1. M!TypeOK /\ None \notin Instances /\ None \notin Keys
  BY MConstants DEF MInv, M!KeysAgree
<1>2. /\ f \in M!Frame /\ f.op = "onStart" /\ f.game = i /\ calls \in Seq(M!Frame)
  BY <1>1, FrameTypes, TypedCalls DEF M!Ops
<1> HIDE DEF f
<1>3. /\ calls' \in Seq(M!Frame) /\ Len(calls') = N + 1 /\ N \in Nat
      /\ \A n \in 1..N : calls'[n] = calls[n]
      /\ calls'[N + 1] = f
  BY <1>0, <1>2, PushFacts
<1>4. M!TypeOK'
  <2>1. /\ games' \in [Keys -> Instances \union {None}]
        /\ sessions' \in [Keys -> Instances \union {None}]
        /\ key' \in [Instances -> Keys \union {None}]
        /\ lifecycle' \in [Instances -> {"created", "starting", "running", "stopping", "disposed"}]
        /\ overtaken' \subseteq Keys
    BY <1>0, <1>1 DEF M!TypeOK
  <2> QED
    BY <1>0, <1>1, <1>3, <2>1 DEF M!TypeOK
<1>5. ASSUME NEW j \in Instances, j # i
      PROVE  key'[j] = key[j] /\ lifecycle'[j] = lifecycle[j] /\ (M!Alive(j)' <=> M!Alive(j))
  BY <1>0, <1>1, <1>5 DEF M!TypeOK, M!Alive
<1>6. key'[i] = k /\ lifecycle'[i] = "starting" /\ M!Alive(i)' /\ games'[k] = i
  BY <1>0, <1>1 DEF M!TypeOK, M!Alive
<1>7. ASSUME NEW q \in Keys, q # k PROVE games'[q] = games[q] /\ sessions'[q] = sessions[q]
  BY <1>0, <1>1, <1>7 DEF M!TypeOK
<1>8. RegistryFits'
  <2>1. ASSUME NEW q \in Keys, games'[q] # None PROVE key'[games'[q]] = q /\ M!Alive(games[q])'
    <3>1. CASE q = k
      BY <1>6, <3>1
    <3>2. CASE q # k
      <4>1. games'[q] = games[q] /\ key[games[q]] = q /\ M!Alive(games[q]) /\ games[q] \in Instances
        BY <1>1, <1>7, <2>1, <3>2 DEF MInv, RegistryFits, M!TypeOK
      <4>2. games[q] # i
        BY <1>0, <1>1, <4>1
      <4>3. /\ key'[games[q]] = q
            /\ lifecycle'[games[q]] = lifecycle[games[q]]
        BY <1>5, <4>1, <4>2
      <4> QED
        BY <4>1, <4>3 DEF M!Alive
    <3> QED
      BY <3>1, <3>2
  <2>2. ASSUME NEW j \in Instances PROVE key'[j] = None <=> lifecycle'[j] = "created"
    BY <1>1, <1>5, <1>6 DEF MInv, RegistryFits
  <2> QED
    BY <2>1, <2>2 DEF RegistryFits
<1>9. M!LiveIsRegistered'
  <2> SUFFICES ASSUME NEW j \in Instances, M!Alive(j)', key'[j] \notin overtaken'
               PROVE  games'[key'[j]] = j
    BY DEF M!LiveIsRegistered
  <2>1. CASE j = i
    BY <1>6, <2>1
  <2>2. CASE j # i
    <3>1. key'[j] = key[j] /\ M!Alive(j) /\ key[j] \notin overtaken
      BY <1>0, <1>5, <2>2
    <3>2. games[key[j]] = j /\ key[j] \in Keys
      BY <1>1, <3>1 DEF MInv, M!KeysAgree, M!LiveIsRegistered, RegistryFits, M!TypeOK, M!Alive
    <3>3. key[j] # k
      BY <1>0, <1>1, <3>2
    <3> QED
      BY <1>7, <3>1, <3>2, <3>3
  <2> QED
    BY <2>1, <2>2
<1>10. M!SessionPerGame'
  <2> SUFFICES ASSUME NEW q \in Keys \ overtaken' PROVE sessions'[q] = games'[q]
    BY DEF M!SessionPerGame
  <2>1. sessions[q] = games[q]
    BY <1>0 DEF MInv, M!KeysAgree, M!SessionPerGame
  <2>2. CASE q = k
    BY <1>0, <1>1, <2>1, <2>2 DEF M!TypeOK
  <2>3. CASE q # k
    BY <1>7, <2>1, <2>3
  <2> QED
    BY <2>2, <2>3
<1>11. M!MembersAreLive'
  <2> SUFFICES ASSUME NEW j \in roster PROVE M!Alive(j)'
    BY <1>0 DEF M!MembersAreLive
  <2>1. j \in Instances /\ M!Alive(j)
    BY <1>1 DEF MInv, M!KeysAgree, M!MembersAreLive, M!TypeOK
  <2> QED
    BY <1>5, <1>6, <2>1
<1>12. CallsFit'
  <2> SUFFICES ASSUME NEW n \in 1..Len(calls') PROVE CallFits(calls[n])'
    BY DEF CallsFit
  <2>1. CASE n = N + 1
    BY <1>1, <1>2, <1>3, <1>6, <2>1 DEF CallFits, Hooks, Held
  <2>2. CASE n \in 1..N
    <3>1. CallFits(calls[n]) /\ calls[n].todo \subseteq Keys \X Instances
      BY <1>1, <2>2, TypedCalls DEF MInv, CallsFit
    <3>0. calls'[n] = calls[n]
      BY <1>3, <2>2
    <3>2. ASSUME calls[n].op \in Hooks
          PROVE  /\ key'[calls[n].game] = key[calls[n].game]
                 /\ Held(calls[n].game, key[calls[n].game])'
      <4>1. /\ calls[n].game \in Instances /\ key[calls[n].game] \in Keys
            /\ Held(calls[n].game, key[calls[n].game])
        BY <3>1, <3>2 DEF CallFits
      <4>2. calls[n].game # i
        BY <1>0, <1>1, <4>1
      <4>5. key'[calls[n].game] = key[calls[n].game]
        BY <1>5, <4>1, <4>2
      <4>3. CASE key[calls[n].game] = k
        <5>1. M!Ending(k)
          BY <1>0, <2>2, <3>2, <4>3 DEF M!Ending, Hooks, M!Registered
        <5>2. k \in overtaken'
          BY <1>0, <5>1
        <5> QED
          BY <3>0, <4>3, <4>5, <5>2 DEF Held
      <4>4. CASE key[calls[n].game] # k
        <5>1. games'[key[calls[n].game]] = games[key[calls[n].game]] /\ overtaken \subseteq overtaken'
          BY <1>0, <1>7, <4>1, <4>4
        <5> QED
          BY <3>0, <4>1, <4>5, <5>1 DEF Held
      <4> QED
        BY <4>3, <4>4
    <3>3. ASSUME calls[n].op = "disposeAll", NEW e \in calls[n].todo
          PROVE  key'[e[2]] = e[1] /\ Held(e[2], e[1])'
      <4>1. /\ e[1] \in Keys /\ e[2] \in Instances /\ key[e[2]] = e[1] /\ Held(e[2], e[1])
        BY <3>1, <3>3 DEF CallFits
      <4>2. e[2] # i
        BY <1>0, <1>1, <4>1
      <4>3. CASE e[1] = k
        <5>1. M!Ending(k)
          BY <2>2, <3>3, <4>3 DEF M!Ending
        <5> QED
          BY <1>0, <1>5, <4>1, <4>2, <4>3, <5>1 DEF Held
      <4>4. CASE e[1] # k
        BY <1>0, <1>5, <1>7, <4>1, <4>2, <4>4 DEF Held
      <4> QED
        BY <4>3, <4>4
    <3> QED
      BY <1>3, <2>2, <3>1, <3>2, <3>3 DEF CallFits
  <2> QED
    BY <1>3, <2>1, <2>2
<1>13. NoneForgotten'
  <2> SUFFICES ASSUME NEW j \in Instances PROVE InHand(j)'
    BY DEF NoneForgotten
  <2>1. CASE j = i
    BY <1>2, <1>3, <1>6, <2>1 DEF InHand
  <2>2. CASE j # i
    <3>1. InHand(j) /\ lifecycle'[j] = lifecycle[j]
      BY <1>5, <2>2 DEF MInv, NoneForgotten
    <3>2. \A n \in 1..N : n \in 1..Len(calls') /\ calls'[n] = calls[n]
      BY <1>3
    <3> QED
      BY <3>1, <3>2 DEF InHand
  <2> QED
    BY <2>1, <2>2
<1> QED
  BY <1>4, <1>8, <1>9, <1>10, <1>11, <1>12, <1>13 DEF MInv, M!KeysAgree

(* Somebody is to stop or dispose of a live game.                            *)
LEMMA EnterKeeps ==
  ASSUME MInv, NEW i \in Instances, M!Alive(i), key[i] \in Keys, Held(i, key[i]),
         NEW op \in {"onStop", "exits"},
         NEW rest \in Seq(M!Frame), Len(rest) = Len(calls),
         \A n \in 1..Len(calls) :
           /\ rest[n].op = calls[n].op /\ rest[n].game = calls[n].game
           /\ rest[n].todo \subseteq calls[n].todo,
         lifecycle' = [lifecycle EXCEPT ![i] = "stopping"],
         calls' = Append(rest, M!Call(op, i)),
         UNCHANGED <<games, key, roster, sessions, overtaken>>
  PROVE  MInv'
<1> DEFINE N == Len(calls)
           f == M!Call(op, i)
<1>1. M!TypeOK
  BY DEF MInv, M!KeysAgree
<1>2. f \in M!Frame /\ f.op = op /\ f.game = i /\ f.todo = {} /\ N \in Nat
  BY <1>1, FrameTypes, TypedCalls DEF M!Ops
<1> HIDE DEF f
<1>3. /\ calls' \in Seq(M!Frame) /\ Len(calls') = N + 1
      /\ \A n \in 1..N : calls'[n] = rest[n]
      /\ calls'[N + 1] = f
  BY <1>2, PushFacts DEF f
<1>4. \A j \in Instances : /\ lifecycle'[j] = IF j = i THEN "stopping" ELSE lifecycle[j]
                           /\ M!Alive(j)' <=> M!Alive(j)
  BY <1>1 DEF M!TypeOK, M!Alive
<1>5. M!TypeOK'
  BY <1>1, <1>3 DEF M!TypeOK
<1>6. M!LiveIsRegistered' /\ M!SessionPerGame'
  BY <1>4 DEF MInv, M!KeysAgree, M!LiveIsRegistered, M!SessionPerGame
<1>7. M!MembersAreLive'
  <2>1. roster \subseteq Instances
    BY <1>1 DEF M!TypeOK
  <2> QED
    BY <1>4, <2>1 DEF MInv, M!KeysAgree, M!MembersAreLive
<1>8. RegistryFits'
  <2>1. ASSUME NEW q \in Keys, games[q] # None PROVE key[games[q]] = q /\ M!Alive(games[q])'
    <3>1. games[q] \in Instances /\ key[games[q]] = q /\ M!Alive(games[q])
      BY <1>1, <2>1 DEF MInv, RegistryFits, M!TypeOK
    <3>2. lifecycle'[games[q]] \in {"stopping", lifecycle[games[q]]}
      BY <1>4, <3>1
    <3> QED
      BY <3>1, <3>2 DEF M!Alive
  <2>2. ASSUME NEW j \in Instances PROVE key[j] = None <=> lifecycle'[j] = "created"
    BY <1>4 DEF MInv, RegistryFits, M!Alive
  <2> QED
    BY <2>1, <2>2 DEF RegistryFits
<1>9. CallsFit'
  <2> SUFFICES ASSUME NEW n \in 1..Len(calls') PROVE CallFits(calls[n])'
    BY DEF CallsFit
  <2>1. CASE n = N + 1
    <3>1. calls'[n].op = op /\ calls'[n].game = i
      BY <1>2, <1>3, <2>1
    <3>2. Held(i, key[i])'
      BY DEF Held
    <3> QED
      BY <3>1, <3>2 DEF CallFits
  <2>2. CASE n \in 1..N
    <3>1. /\ calls'[n].op = calls[n].op /\ calls'[n].game = calls[n].game
          /\ calls'[n].todo \subseteq calls[n].todo
          /\ \A k \in Keys : games'[k] \in {games[k], None}
      BY <1>3, <2>2
    <3> QED
      BY <2>2, <3>1, CallKeeps
  <2> QED
    BY <1>2, <1>3, <2>1, <2>2
<1>10. NoneForgotten'
  <2> SUFFICES ASSUME NEW j \in Instances PROVE InHand(j)'
    BY DEF NoneForgotten
  <2>1. CASE j = i
    <3>1. /\ N + 1 \in 1..Len(calls') /\ calls'[N + 1].op \in {"onStop", "exits"}
          /\ calls'[N + 1].game = i /\ lifecycle'[i] = "stopping"
      BY <1>2, <1>3, <1>4
    <3> QED
      BY <2>1, <3>1 DEF InHand
  <2>2. CASE j # i
    <3>1. InHand(j) /\ lifecycle'[j] = lifecycle[j]
      BY <1>4, <2>2 DEF MInv, NoneForgotten
    <3>2. \A n \in 1..N : /\ n \in 1..Len(calls')
                          /\ calls'[n].op = calls[n].op /\ calls'[n].game = calls[n].game
      BY <1>2, <1>3
    <3> QED
      BY <3>1, <3>2 DEF InHand
  <2> QED
    BY <2>1, <2>2
<1> QED
  BY <1>5, <1>6, <1>7, <1>8, <1>9, <1>10 DEF MInv, M!KeysAgree

LEMMA RegisteredFits ==
  ASSUME MInv, NEW k \in Keys, games[k] # None
  PROVE  games[k] \in Instances /\ key[games[k]] = k /\ M!Alive(games[k]) /\ Held(games[k], k)
BY DEF MInv, RegistryFits, M!KeysAgree, M!TypeOK, Held

LEMMA StopGameByKeyKeeps ==
  ASSUME MInv, NEW k \in Keys, M!StopGameByKey(k)
  PROVE  MInv'
<1> DEFINE i == games[k]
           op == IF lifecycle[i] = "stopping" THEN "exits" ELSE "onStop"
<1>1. /\ i # None
      /\ lifecycle' = [lifecycle EXCEPT ![i] = "stopping"]
      /\ calls' = Append(calls, M!Call(op, i))
      /\ UNCHANGED <<games, key, roster, sessions, overtaken>>
  BY DEF M!StopGameByKey, M!BeginStop, M!Enter, M!Registered
<1>2. i \in Instances /\ key[i] = k /\ M!Alive(i) /\ Held(i, k)
  BY <1>1, RegisteredFits
<1>3. op \in {"onStop", "exits"}
  OBVIOUS
<1>4. calls \in Seq(M!Frame)
  BY DEF MInv, M!KeysAgree, M!TypeOK
<1> HIDE DEF i, op
<1> QED
  BY <1>1, <1>2, <1>3, <1>4, EnterKeeps

(* The innermost call has less to do.                                        *)
LEMMA DropFacts ==
  ASSUME M!TypeOK, calls # <<>>, NEW e
  PROVE  /\ M!Drop(e) \in Seq(M!Frame) /\ Len(M!Drop(e)) = Len(calls)
         /\ \A n \in 1..Len(calls) :
              /\ M!Drop(e)[n].op = calls[n].op /\ M!Drop(e)[n].game = calls[n].game
              /\ M!Drop(e)[n].todo \subseteq calls[n].todo
<1> DEFINE N == Len(calls)
           f == [calls[N] EXCEPT !.todo = @ \ {e}]
<1>1. calls \in Seq(M!Frame) /\ calls[N] \in M!Frame
  BY TypedCalls, TopOfCalls
<1>2. /\ f \in M!Frame /\ f.op = calls[N].op /\ f.game = calls[N].game
      /\ f.todo = calls[N].todo \ {e}
  BY <1>1 DEF M!Frame
<1>3. M!Drop(e) = [calls EXCEPT ![N] = f]
  BY DEF M!Drop
<1> HIDE DEF f
<1>4. /\ M!Drop(e) \in Seq(M!Frame) /\ Len(M!Drop(e)) = Len(calls)
      /\ \A n \in 1..N : M!Drop(e)[n] = IF n = N THEN f ELSE calls[n]
  BY <1>1, <1>2, <1>3, EditFacts
<1> QED
  BY <1>2, <1>4

(* Calls come and go that have no game of their own in hand.                 *)
LEMMA QuietKeeps ==
  ASSUME MInv, calls' \in Seq(M!Frame),
         CallsFit',
         \A n \in 1..Len(calls) : calls[n].op \in Hooks =>
           /\ n \in 1..Len(calls')
           /\ calls'[n].op = calls[n].op /\ calls'[n].game = calls[n].game,
         roster' \subseteq Instances, \A i \in roster' : M!Alive(i),
         UNCHANGED <<games, lifecycle, key, sessions, overtaken>>
  PROVE  MInv'
<1>1. M!TypeOK'
  BY DEF MInv, M!KeysAgree, M!TypeOK
<1>2. M!LiveIsRegistered' /\ M!SessionPerGame' /\ RegistryFits'
  BY DEF MInv, M!KeysAgree, M!LiveIsRegistered, M!SessionPerGame, RegistryFits, M!Alive
<1>3. M!MembersAreLive'
  BY DEF M!MembersAreLive, M!Alive
<1>4. ASSUME NEW i \in Instances PROVE InHand(i)'
  <2>1. InHand(i)
    BY DEF MInv, NoneForgotten
  <2> QED
    BY <2>1 DEF InHand, Hooks
<1> QED
  BY <1>1, <1>2, <1>3, <1>4 DEF MInv, M!KeysAgree, NoneForgotten

LEMMA RosterKeeps ==
  ASSUME MInv, NEW i \in Instances, M!Join(i) \/ M!Leave(i)
  PROVE  MInv'
<1>1. /\ roster' \subseteq roster \union {i}
      /\ i \in roster' => i \in roster \/ M!Alive(i)
      /\ UNCHANGED <<games, lifecycle, key, sessions, calls, overtaken>>
  BY DEF M!Join, M!Leave, M!Alive
<1>2. roster \subseteq Instances /\ calls \in Seq(M!Frame) /\ \A j \in roster : M!Alive(j)
  BY DEF MInv, M!KeysAgree, M!TypeOK, M!MembersAreLive
<1>3. CallsFit'
  BY <1>1 DEF MInv, CallsFit, CallFits, Held
<1>4. roster' \subseteq Instances /\ \A j \in roster' : M!Alive(j)
  BY <1>1, <1>2
<1>5. \A n \in 1..Len(calls) : n \in 1..Len(calls') /\ calls'[n] = calls[n]
  BY <1>1
<1> QED
  BY <1>1, <1>2, <1>3, <1>4, <1>5, QuietKeeps

LEMMA AllKeeps ==
  ASSUME MInv, M!StopAll \/ \E ks \in {Keys, Keys \ Daemons} : M!DisposeAll(ks)
  PROVE  MInv'
<1>1. PICK ks \in SUBSET Keys, op \in {"stopAll", "disposeAll"} :
        /\ calls' = Append(calls, [M!Call(op, None) EXCEPT !.todo = M!Entries(ks)])
        /\ UNCHANGED <<games, lifecycle, key, roster, sessions, overtaken>>
  BY DEF M!StopAll, M!DisposeAll, M!Enter
<1> DEFINE N == Len(calls)
           f == [M!Call(op, None) EXCEPT !.todo = M!Entries(ks)]
<1>2. /\ M!TypeOK /\ calls \in Seq(M!Frame) /\ roster \subseteq Instances
      /\ \A j \in roster : M!Alive(j)
  BY DEF MInv, M!KeysAgree, M!TypeOK, M!MembersAreLive
<1>3. \A e \in M!Entries(ks) :
        /\ e \in Keys \X Instances
        /\ key[e[2]] = e[1] /\ Held(e[2], e[1])
  <2> SUFFICES ASSUME NEW k \in ks, games[k] # None
               PROVE  LET e == <<k, games[k]>> IN
                        /\ e \in Keys \X Instances
                        /\ key[e[2]] = e[1] /\ Held(e[2], e[1])
    BY DEF M!Entries, M!Registered
  <2> QED
    BY RegisteredFits
<1>4. f \in M!Frame /\ f.op = op /\ f.todo = M!Entries(ks)
  <2>1. M!Entries(ks) \subseteq Keys \X Instances
    BY <1>3
  <2> QED
    BY <2>1 DEF M!Call, M!Frame, M!Ops
<1> HIDE DEF f
<1>5. /\ calls' \in Seq(M!Frame) /\ Len(calls') = N + 1 /\ N \in Nat
      /\ \A n \in 1..N : calls'[n] = calls[n]
      /\ calls'[N + 1] = f
  BY <1>1, <1>2, <1>4, PushFacts DEF f
<1>6. CallsFit'
  <2> SUFFICES ASSUME NEW n \in 1..Len(calls') PROVE CallFits(calls[n])'
    BY DEF CallsFit
  <2>1. CASE n = N + 1
    <3>1. calls'[n].op = op /\ calls'[n].todo = M!Entries(ks)
      BY <1>4, <1>5, <2>1
    <3>2. op \notin Hooks
      BY DEF Hooks
    <3>3. \A e \in M!Entries(ks) : key'[e[2]] = e[1] /\ Held(e[2], e[1])
      BY <1>1, <1>3
    <3>4. games' = games /\ overtaken' = overtaken
      BY <1>1
    <3> QED
      BY <3>1, <3>2, <3>3, <3>4 DEF CallFits, Held
  <2>2. CASE n \in 1..N
    <3>1. /\ calls'[n] = calls[n] /\ key' = key /\ overtaken' = overtaken
          /\ \A k \in Keys : games'[k] \in {games[k], None}
      BY <1>1, <1>5, <2>2
    <3> QED
      BY <2>2, <3>1, CallKeeps
  <2> QED
    BY <1>5, <2>1, <2>2
<1> QED
  BY <1>1, <1>2, <1>5, <1>6, QuietKeeps

LEMMA AllDoneKeeps ==
  ASSUME MInv, M!AllDone
  PROVE  MInv'
<1>1. /\ calls # <<>> /\ M!Top.op \in {"stopAll", "disposeAll"}
      /\ calls' = M!Front(calls)
      /\ UNCHANGED <<games, lifecycle, key, roster, sessions, overtaken>>
  BY DEF M!AllDone, M!In
<1>2. /\ M!TypeOK /\ roster \subseteq Instances /\ \A j \in roster : M!Alive(j)
  BY DEF MInv, M!KeysAgree, M!TypeOK, M!MembersAreLive
<1>3. /\ calls' \in Seq(M!Frame) /\ Len(calls') = Len(calls) - 1 /\ Len(calls) \in Nat
      /\ \A n \in 1..(Len(calls) - 1) : calls'[n] = calls[n] /\ n \in 1..Len(calls)
      /\ M!Top = calls[Len(calls)]
  BY <1>1, <1>2, TopOfCalls
<1>4. CallsFit'
  <2> SUFFICES ASSUME NEW n \in 1..Len(calls') PROVE CallFits(calls[n])'
    BY DEF CallsFit
  <2>1. /\ calls'[n] = calls[n] /\ n \in 1..Len(calls)
        /\ key' = key /\ overtaken' = overtaken
        /\ \A k \in Keys : games'[k] \in {games[k], None}
    BY <1>1, <1>3
  <2> QED
    BY <2>1, CallKeeps
<1>5. ASSUME NEW n \in 1..Len(calls), calls[n].op \in Hooks
      PROVE  n \in 1..Len(calls') /\ calls'[n] = calls[n]
  <2>1. n # Len(calls)
    BY <1>1, <1>3, <1>5 DEF Hooks
  <2> QED
    BY <1>3, <2>1
<1> QED
  BY <1>1, <1>2, <1>3, <1>4, <1>5, QuietKeeps

LEMMA StopNextKeeps ==
  ASSUME MInv, NEW e \in Keys \X Instances, M!StopNext(e)
  PROVE  MInv'
<1> DEFINE i == games[e[1]]
           op == IF lifecycle[i] = "stopping" THEN "exits" ELSE "onStop"
           rest == M!Drop(e)
<1>1. /\ calls # <<>>
      /\ IF i = None
         THEN calls' = rest /\ UNCHANGED lifecycle
         ELSE /\ lifecycle' = [lifecycle EXCEPT ![i] = "stopping"]
              /\ calls' = Append(rest, M!Call(op, i))
      /\ UNCHANGED <<games, key, roster, sessions, overtaken>>
  BY DEF M!StopNext, M!In
<1>2. /\ M!TypeOK /\ roster \subseteq Instances /\ \A j \in roster : M!Alive(j)
  BY DEF MInv, M!KeysAgree, M!TypeOK, M!MembersAreLive
<1>3. /\ rest \in Seq(M!Frame) /\ Len(rest) = Len(calls)
      /\ \A n \in 1..Len(calls) :
           /\ rest[n].op = calls[n].op /\ rest[n].game = calls[n].game
           /\ rest[n].todo \subseteq calls[n].todo
  BY <1>1, <1>2, DropFacts
<1>4. op \in {"onStop", "exits"}
  OBVIOUS
<1>5. CASE i = None
  <2>1. /\ calls' = rest
        /\ UNCHANGED <<games, lifecycle, key, roster, sessions, overtaken>>
    BY <1>1, <1>5
  <2> HIDE DEF rest
  <2>2. CallsFit'
    <3> SUFFICES ASSUME NEW n \in 1..Len(calls') PROVE CallFits(calls[n])'
      BY DEF CallsFit
    <3>1. /\ n \in 1..Len(calls)
          /\ calls'[n].op = calls[n].op /\ calls'[n].game = calls[n].game
          /\ calls'[n].todo \subseteq calls[n].todo
          /\ key' = key /\ overtaken' = overtaken
          /\ \A k \in Keys : games'[k] \in {games[k], None}
      BY <1>3, <2>1
    <3> QED
      BY <3>1, CallKeeps
  <2> QED
    BY <1>2, <1>3, <2>1, <2>2, QuietKeeps
<1>6. CASE i # None
  <2>1. i \in Instances /\ key[i] = e[1] /\ M!Alive(i) /\ Held(i, e[1]) /\ e[1] \in Keys
    BY <1>6, RegisteredFits
  <2>2. /\ lifecycle' = [lifecycle EXCEPT ![i] = "stopping"]
        /\ calls' = Append(rest, M!Call(op, i))
        /\ UNCHANGED <<games, key, roster, sessions, overtaken>>
    BY <1>1, <1>6
  <2> HIDE DEF i, op, rest
  <2> QED
    BY <1>3, <1>4, <2>1, <2>2, EnterKeeps
<1> QED
  BY <1>5, <1>6

LEMMA DisposeNextKeeps ==
  ASSUME MInv, NEW e \in Keys \X Instances, M!DisposeNext(e)
  PROVE  MInv'
<1> DEFINE i == e[2]
           k == e[1]
           rest == M!Drop(e)
<1>1. /\ calls # <<>> /\ M!Top.op = "disposeAll" /\ e \in M!Top.todo
      /\ IF lifecycle[i] = "disposed"
         THEN /\ calls' = rest
              /\ games' = [games EXCEPT ![k] = None]
              /\ sessions' = [sessions EXCEPT ![k] = None]
              /\ UNCHANGED lifecycle
         ELSE /\ calls' = Append(rest, M!Call("exits", i))
              /\ lifecycle' = [lifecycle EXCEPT ![i] = "stopping"]
              /\ UNCHANGED <<games, sessions>>
      /\ UNCHANGED <<key, roster, overtaken>>
  BY DEF M!DisposeNext, M!In, M!EndSession
<1>2. /\ M!TypeOK /\ i \in Instances /\ k \in Keys
  BY DEF MInv, M!KeysAgree
<1>3. /\ rest \in Seq(M!Frame) /\ Len(rest) = Len(calls)
      /\ \A n \in 1..Len(calls) :
           /\ rest[n].op = calls[n].op /\ rest[n].game = calls[n].game
           /\ rest[n].todo \subseteq calls[n].todo
  BY <1>1, <1>2, DropFacts
<1>4. key[i] = k /\ Held(i, k)
  <2>1. M!Top = calls[Len(calls)] /\ Len(calls) \in 1..Len(calls)
    BY <1>1, <1>2, TopOfCalls
  <2>2. CallFits(calls[Len(calls)])
    BY <2>1 DEF MInv, CallsFit
  <2> QED
    BY <1>1, <2>1, <2>2 DEF CallFits
<1>5. CASE lifecycle[i] = "disposed"
  <2>1. /\ calls' = rest /\ games' = [games EXCEPT ![k] = None]
        /\ sessions' = [sessions EXCEPT ![k] = None]
        /\ UNCHANGED <<lifecycle, key, roster, overtaken>>
    BY <1>1, <1>5
  <2> HIDE DEF rest, i, k
  <2>2. /\ lifecycle' = [lifecycle EXCEPT ![i] = "disposed"]
        /\ games' \in [Keys -> Instances \union {None}] /\ games'[k] = None
        /\ \A q \in Keys \ {k} : games'[q] = games[q]
    BY <1>2, <1>5, <2>1 DEF M!TypeOK
  <2>3. i \notin roster'
    BY <1>5, <2>1 DEF MInv, M!KeysAgree, M!MembersAreLive, M!Alive
  <2>4. M!KeysAgree' /\ RegistryFits'
    <3>1. /\ calls' \in Seq(M!Frame) /\ key' = key /\ overtaken' = overtaken
          /\ roster' \subseteq roster
      BY <1>3, <2>1
    <3>2. sessions' = [sessions EXCEPT ![k] = None]
      BY <2>1
    <3> QED
      BY <1>2, <1>4, <2>2, <2>3, <3>1, <3>2, EndKeeps
  <2> HIDE DEF rest, i, k
  <2>5. CallsFit'
    <3> SUFFICES ASSUME NEW n \in 1..Len(calls') PROVE CallFits(calls[n])'
      BY DEF CallsFit
    <3>1. /\ n \in 1..Len(calls)
          /\ calls'[n].op = calls[n].op /\ calls'[n].game = calls[n].game
          /\ calls'[n].todo \subseteq calls[n].todo
      BY <1>3, <2>1
    <3>2. /\ \A q \in Keys : games'[q] \in {games[q], None}
          /\ key' = key /\ overtaken' = overtaken
      BY <2>1, <2>2
    <3> QED
      BY <3>1, <3>2, CallKeeps, SMTT(30)
  <2>6. NoneForgotten'
    <3>1. \A n \in 1..Len(calls) : n \in 1..Len(calls') /\ calls'[n].op = calls[n].op
                                   /\ calls'[n].game = calls[n].game
      BY <1>3, <2>1
    <3>2. lifecycle' = lifecycle
      BY <2>1
    <3>3. ASSUME NEW g \in Instances, InHand(g)
          PROVE  InHand(g)'
      BY <3>1, <3>2, <3>3 DEF InHand
    <3> QED
      BY <3>3 DEF MInv, NoneForgotten
  <2> QED
    BY <2>4, <2>5, <2>6 DEF MInv
<1>6. CASE lifecycle[i] # "disposed"
  <2>1. /\ lifecycle' = [lifecycle EXCEPT ![i] = "stopping"]
        /\ calls' = Append(rest, M!Call("exits", i))
        /\ UNCHANGED <<games, key, roster, sessions, overtaken>>
    BY <1>1, <1>6
  <2>2. M!Alive(i)
    <3>1. key[i] # None
      BY <1>2, <1>4, MConstants
    <3> QED
      BY <1>2, <1>6, <3>1 DEF MInv, RegistryFits, M!TypeOK, M!Alive
  <2> HIDE DEF i, k, rest
  <2> QED
    BY <1>2, <1>3, <1>4, <2>1, <2>2, EnterKeeps
<1> QED
  BY <1>5, <1>6

(* The innermost call ends, and its game with it.                            *)
LEMMA FinishKeeps ==
  ASSUME MInv, calls # <<>>, M!Top.op \in Hooks,
         NEW i, i = M!Top.game,
         lifecycle' = [lifecycle EXCEPT ![i] = "disposed"],
         games' = [games EXCEPT ![key[i]] = IF @ = i THEN None ELSE @]
           \/ games' = [games EXCEPT ![key[i]] = None],
         sessions' = [sessions EXCEPT ![key[i]] = None],
         roster' \subseteq roster, i \notin roster',
         calls' = M!Front(calls),
         UNCHANGED <<key, overtaken>>
  PROVE  MInv'
<1>1. /\ M!TypeOK /\ None \notin Instances
  BY MConstants DEF MInv, M!KeysAgree
<1>2. /\ calls' \in Seq(M!Frame) /\ Len(calls') = Len(calls) - 1 /\ Len(calls) \in Nat
      /\ \A n \in 1..(Len(calls) - 1) : calls'[n] = calls[n] /\ n \in 1..Len(calls)
      /\ M!Top = calls[Len(calls)] /\ Len(calls) \in 1..Len(calls)
  BY <1>1, TopOfCalls
<1>3. i \in Instances /\ key[i] \in Keys /\ Held(i, key[i])
  <2>1. CallFits(calls[Len(calls)])
    BY <1>2 DEF MInv, CallsFit
  <2> QED
    BY <1>2, <2>1 DEF CallFits
<1>4. PICK k \in Keys : k = key[i]
  BY <1>3
<1>5. /\ games' \in [Keys -> Instances \union {None}]
      /\ games'[k] = None \/ (games'[k] = games[k] /\ games[k] # i)
      /\ \A q \in Keys \ {k} : games'[q] = games[q]
  <2>1. CASE games' = [games EXCEPT ![k] = IF @ = i THEN None ELSE @]
    BY <1>1, <2>1 DEF M!TypeOK
  <2>2. CASE games' = [games EXCEPT ![k] = None]
    BY <1>1, <2>2 DEF M!TypeOK
  <2> QED
    BY <1>4, <2>1, <2>2
<1>6. sessions' = [sessions EXCEPT ![k] = None] /\ key[i] = k /\ Held(i, k)
  BY <1>3, <1>4
<1>7. M!KeysAgree' /\ RegistryFits'
  BY <1>2, <1>3, <1>5, <1>6, EndKeeps
<1>8. CallsFit'
  <2> SUFFICES ASSUME NEW n \in 1..Len(calls') PROVE CallFits(calls[n])'
    BY DEF CallsFit
  <2>1. n \in 1..Len(calls) /\ calls'[n] = calls[n]
    BY <1>2
  <2>2. \A q \in Keys : games'[q] \in {games[q], None}
    BY <1>5
  <2> QED
    BY <2>1, <2>2, CallKeeps
<1>9. NoneForgotten'
  <2> SUFFICES ASSUME NEW j \in Instances PROVE InHand(j)'
    BY DEF NoneForgotten
  <2>1. CASE j = i
    <3>1. lifecycle'[j] = "disposed"
      BY <1>1, <2>1 DEF M!TypeOK
    <3> QED
      BY <3>1 DEF InHand
  <2>2. CASE j # i
    <3>1. InHand(j) /\ lifecycle'[j] = lifecycle[j]
      BY <1>1, <2>2 DEF MInv, NoneForgotten, M!TypeOK
    <3>2. \A n \in 1..Len(calls) : calls[n].game = j => n \in 1..Len(calls') /\ calls'[n] = calls[n]
      BY <1>2, <2>2
    <3> QED
      BY <3>1, <3>2 DEF InHand
  <2> QED
    BY <2>1, <2>2
<1> QED
  BY <1>7, <1>8, <1>9 DEF MInv

LEMMA ExitsEndKeeps ==
  ASSUME MInv, M!ExitsEnd
  PROVE  MInv'
<1> DEFINE i == M!Top.game
<1>1. /\ calls # <<>> /\ M!Top.op \in Hooks
      /\ lifecycle' = [lifecycle EXCEPT ![i] = "disposed"]
      /\ roster' = {j \in roster : key[j] # key[i]}
      /\ sessions' = [sessions EXCEPT ![key[i]] = None]
      /\ \/ games' = [games EXCEPT ![key[i]] = IF @ = i THEN None ELSE @]
         \/ games' = [games EXCEPT ![key[i]] = None]
      /\ calls' = M!Front(calls)
      /\ UNCHANGED <<key, overtaken>>
  BY DEF M!ExitsEnd, M!In, M!ReleasePlayers, M!EndSession, M!Unregister, Hooks
<1>2. roster' \subseteq roster /\ i \notin roster'
  BY <1>1
<1> HIDE DEF i
<1>3. i = M!Top.game
  BY DEF i
<1> QED
  BY <1>1, <1>2, <1>3, FinishKeeps

LEMMA ThenDisposeKeeps ==
  ASSUME MInv, M!StartThrows \/ M!StopEnds
  PROVE  MInv'
<1> DEFINE i == M!Top.game
           N == Len(calls)
           f == M!Call("exits", i)
<1>1. /\ calls # <<>> /\ M!Top.op \in {"onStart", "onStop"} /\ M!ThenDispose(i)
  BY DEF M!StartThrows, M!StopEnds, M!In
<1>2. M!TypeOK
  BY DEF MInv, M!KeysAgree
<1>3. M!Top = calls[N] /\ N \in 1..N /\ N \in Nat
  BY <1>1, <1>2, TopOfCalls
<1>4. i \in Instances /\ key[i] \in Keys /\ Held(i, key[i])
  <2>1. CallFits(calls[N])
    BY <1>3 DEF MInv, CallsFit
  <2> QED
    BY <1>1, <1>3, <2>1 DEF CallFits, Hooks
<1>5. i = M!Top.game
  OBVIOUS
<1> HIDE DEF i
<1>6. CASE lifecycle[i] = "disposed"
  <2>1. /\ games' = [games EXCEPT ![key[i]] = IF @ = i THEN None ELSE @]
        /\ sessions' = [sessions EXCEPT ![key[i]] = None]
        /\ calls' = M!Front(calls)
        /\ UNCHANGED <<lifecycle, key, roster, overtaken>>
    BY <1>1, <1>6 DEF M!ThenDispose, M!Finish, M!Unregister, M!EndSession
  <2>2. lifecycle' = [lifecycle EXCEPT ![i] = "disposed"]
    BY <1>2, <1>4, <1>6, <2>1 DEF M!TypeOK
  <2>3. roster' \subseteq roster /\ i \notin roster'
    BY <1>6, <2>1 DEF MInv, M!KeysAgree, M!MembersAreLive, M!Alive
  <2>4. M!Top.op \in Hooks
    BY <1>1 DEF Hooks
  <2> QED
    BY <1>1, <1>5, <2>1, <2>2, <2>3, <2>4, FinishKeeps
<1>7. CASE lifecycle[i] # "disposed"
  <2>1. /\ lifecycle' = [lifecycle EXCEPT ![i] = "stopping"]
        /\ calls' = [calls EXCEPT ![N] = f]
        /\ UNCHANGED <<games, key, roster, sessions, overtaken>>
    BY <1>1, <1>7 DEF M!ThenDispose, M!Become
  <2>2. f \in M!Frame /\ f.op = "exits" /\ f.game = i
    BY <1>4, FrameTypes DEF M!Ops
  <2> HIDE DEF f
  <2>3. /\ calls' \in Seq(M!Frame) /\ Len(calls') = N
        /\ \A n \in 1..N : calls'[n] = IF n = N THEN f ELSE calls[n]
    BY <1>1, <1>2, <2>1, <2>2, EditFacts, TypedCalls
  <2>4. M!Alive(i)
    <3>1. key[i] # None
      BY <1>4, MConstants
    <3> QED
      BY <1>2, <1>4, <1>7, <3>1 DEF MInv, RegistryFits, M!TypeOK, M!Alive
  <2>5. \A j \in Instances : /\ lifecycle'[j] = IF j = i THEN "stopping" ELSE lifecycle[j]
                             /\ M!Alive(j)' <=> M!Alive(j)
    BY <1>2, <2>1, <2>4 DEF M!TypeOK, M!Alive
  <2>6. M!TypeOK'
    BY <1>2, <2>1, <2>3 DEF M!TypeOK
  <2>7. M!LiveIsRegistered' /\ M!SessionPerGame'
    BY <2>1, <2>5 DEF MInv, M!KeysAgree, M!LiveIsRegistered, M!SessionPerGame
  <2>8. M!MembersAreLive'
    <3>1. roster \subseteq Instances
      BY <1>2 DEF M!TypeOK
    <3> QED
      BY <2>1, <2>5, <3>1 DEF MInv, M!KeysAgree, M!MembersAreLive
  <2>9. RegistryFits'
    <3>1. ASSUME NEW q \in Keys, games[q] # None PROVE key[games[q]] = q /\ M!Alive(games[q])'
      <4>1. games[q] \in Instances /\ key[games[q]] = q /\ M!Alive(games[q])
        BY <1>2, <3>1 DEF MInv, RegistryFits, M!TypeOK
      <4>2. lifecycle'[games[q]] \in {"stopping", lifecycle[games[q]]}
        BY <2>5, <4>1
      <4> QED
        BY <2>1, <4>1, <4>2 DEF M!Alive
    <3>2. ASSUME NEW j \in Instances PROVE key[j] = None <=> lifecycle'[j] = "created"
      BY <2>4, <2>5 DEF MInv, RegistryFits, M!Alive
    <3> QED
      BY <2>1, <3>1, <3>2 DEF RegistryFits
  <2>10. CallsFit'
    <3> SUFFICES ASSUME NEW n \in 1..N PROVE CallFits(calls[n])'
      BY <2>3 DEF CallsFit
    <3>1. CASE n = N
      <4>1. calls'[n].op = "exits" /\ calls'[n].game = i
        BY <2>2, <2>3, <3>1
      <4>2. key[i] \notin overtaken => games[key[i]] \in {i, None}
        BY <1>4 DEF Held
      <4> QED
        BY <1>4, <2>1, <4>1, <4>2 DEF CallFits, Held
    <3>2. CASE n # N
      <4>1. /\ calls'[n] = calls[n] /\ key' = key /\ overtaken' = overtaken
            /\ \A k \in Keys : games'[k] \in {games[k], None}
        BY <2>1, <2>3, <3>2
      <4> QED
        BY <4>1, CallKeeps
    <3> QED
      BY <3>1, <3>2
  <2>11. NoneForgotten'
    <3> SUFFICES ASSUME NEW j \in Instances PROVE InHand(j)'
      BY DEF NoneForgotten
    <3>1. CASE j = i
      <4>1. /\ N \in 1..Len(calls') /\ calls'[N].op = "exits" /\ calls'[N].game = i
            /\ lifecycle'[i] = "stopping"
        BY <1>3, <1>4, <2>2, <2>3, <2>5
      <4> QED
        BY <3>1, <4>1 DEF InHand
    <3>2. CASE j # i
      <4>1. InHand(j) /\ lifecycle'[j] = lifecycle[j]
        BY <2>5, <3>2 DEF MInv, NoneForgotten
      <4>2. \A n \in 1..N : calls[n].game = j => n \in 1..Len(calls') /\ calls'[n] = calls[n]
        BY <1>3, <1>5, <2>3, <3>2
      <4> QED
        BY <4>1, <4>2 DEF InHand
    <3> QED
      BY <3>1, <3>2
  <2> QED
    BY <2>6, <2>7, <2>8, <2>9, <2>10, <2>11 DEF MInv, M!KeysAgree
<1> QED
  BY <1>6, <1>7

LEMMA StartReturnsKeeps ==
  ASSUME MInv, M!StartReturns
  PROVE  MInv'
<1> DEFINE i == M!Top.game
           N == Len(calls)
<1>1. /\ calls # <<>> /\ M!Top.op = "onStart"
      /\ lifecycle' = [lifecycle EXCEPT ![i] = IF @ = "starting" THEN "running" ELSE @]
      /\ calls' = M!Front(calls)
      /\ UNCHANGED <<games, key, roster, sessions, overtaken>>
  BY DEF M!StartReturns, M!In
<1>2. M!TypeOK
  BY DEF MInv, M!KeysAgree
<1>3. /\ M!Top = calls[N] /\ N \in 1..N /\ N \in Nat
      /\ calls' \in Seq(M!Frame) /\ Len(calls') = N - 1
      /\ \A n \in 1..(N - 1) : calls'[n] = calls[n] /\ n \in 1..N
  BY <1>1, <1>2, TopOfCalls
<1>4. i \in Instances /\ i = calls[N].game
  <2>1. CallFits(calls[N])
    BY <1>3 DEF MInv, CallsFit
  <2> QED
    BY <1>1, <1>3, <2>1 DEF CallFits, Hooks
<1> HIDE DEF i
<1>5. \A j \in Instances :
        /\ lifecycle'[j] = IF j = i /\ lifecycle[j] = "starting" THEN "running" ELSE lifecycle[j]
        /\ M!Alive(j)' <=> M!Alive(j)
  BY <1>1, <1>2, <1>4 DEF M!TypeOK, M!Alive
<1>6. M!TypeOK'
  <2>1. lifecycle' \in [Instances -> {"created", "starting", "running", "stopping", "disposed"}]
    BY <1>1, <1>2, <1>4 DEF M!TypeOK
  <2> QED
    BY <1>1, <1>2, <1>3, <2>1 DEF M!TypeOK
<1>7. M!LiveIsRegistered' /\ M!SessionPerGame'
  BY <1>1, <1>5 DEF MInv, M!KeysAgree, M!LiveIsRegistered, M!SessionPerGame
<1>8. M!MembersAreLive'
  <2>1. roster \subseteq Instances
    BY <1>2 DEF M!TypeOK
  <2> QED
    BY <1>1, <1>5, <2>1 DEF MInv, M!KeysAgree, M!MembersAreLive
<1>9. RegistryFits'
  <2>1. ASSUME NEW q \in Keys, games[q] # None PROVE key[games[q]] = q /\ M!Alive(games[q])'
    <3>1. games[q] \in Instances /\ key[games[q]] = q /\ M!Alive(games[q])
      BY <1>2, <2>1 DEF MInv, RegistryFits, M!TypeOK
    <3>2. lifecycle'[games[q]] \in {"running", lifecycle[games[q]]}
      BY <1>5, <3>1
    <3> QED
      BY <1>1, <3>1, <3>2 DEF M!Alive
  <2>2. ASSUME NEW j \in Instances PROVE key[j] = None <=> lifecycle'[j] = "created"
    BY <1>5 DEF MInv, RegistryFits, M!Alive
  <2> QED
    BY <1>1, <2>1, <2>2 DEF RegistryFits
<1>10. CallsFit'
  <2> SUFFICES ASSUME NEW n \in 1..Len(calls') PROVE CallFits(calls[n])'
    BY DEF CallsFit
  <2>1. /\ n \in 1..N /\ calls'[n] = calls[n] /\ key' = key /\ overtaken' = overtaken
        /\ \A k \in Keys : games'[k] \in {games[k], None}
    BY <1>1, <1>3
  <2> QED
    BY <2>1, CallKeeps
<1>11. NoneForgotten'
  <2> SUFFICES ASSUME NEW j \in Instances PROVE InHand(j)'
    BY DEF NoneForgotten
  <2>1. ASSUME lifecycle'[j] = "starting"
        PROVE  \E n \in 1..Len(calls') : calls'[n].op = "onStart" /\ calls'[n].game = j
    <3>1. j # i /\ lifecycle[j] = "starting"
      BY <1>5, <2>1
    <3>2. PICK n \in 1..N : calls[n].op = "onStart" /\ calls[n].game = j
      BY <3>1 DEF MInv, NoneForgotten, InHand
    <3>3. n # N
      BY <1>4, <3>1, <3>2
    <3> QED
      BY <1>3, <3>2, <3>3
  <2>2. ASSUME lifecycle'[j] = "stopping"
        PROVE  \E n \in 1..Len(calls') : calls'[n].op \in {"onStop", "exits"} /\ calls'[n].game = j
    <3>1. lifecycle[j] = "stopping"
      BY <1>5, <2>2
    <3>2. PICK n \in 1..N : calls[n].op \in {"onStop", "exits"} /\ calls[n].game = j
      BY <3>1 DEF MInv, NoneForgotten, InHand
    <3>3. n # N
      BY <1>1, <1>3, <3>2
    <3> QED
      BY <1>3, <3>2, <3>3
  <2> QED
    BY <2>1, <2>2 DEF InHand
<1> QED
  BY <1>6, <1>7, <1>8, <1>9, <1>10, <1>11 DEF MInv, M!KeysAgree

LEMMA MInvNext ==
  ASSUME MInv, M!Next
  PROVE  MInv'
<1>1. CASE \E k \in Keys, i \in Instances : M!StartGame(k, i)
  BY <1>1, StartGameKeeps
<1>2. CASE \E i \in Instances : M!Join(i) \/ M!Leave(i)
  BY <1>2, RosterKeeps
<1>3. CASE \E k \in Keys : M!StopGameByKey(k)
  BY <1>3, StopGameByKeyKeeps
<1>4. CASE M!StopAll \/ \E ks \in {Keys, Keys \ Daemons} : M!DisposeAll(ks)
  BY <1>4, AllKeeps
<1>5. CASE M!HookEnds
  BY <1>5, StartReturnsKeeps, ThenDisposeKeeps, ExitsEndKeeps DEF M!HookEnds
<1>6. CASE M!ManagerStep
  BY <1>6, StopNextKeeps, DisposeNextKeeps, AllDoneKeeps DEF M!ManagerStep
<1> QED
  BY <1>1, <1>2, <1>3, <1>4, <1>5, <1>6 DEF M!Next

-----------------------------------------------------------------------------
(* What holds of the services, whichever of them is explored.                *)

Inv ==
  /\ subject = "players" => PInv
  /\ subject = "manager" => MInv

LEMMA PInvInit ==
  ASSUME P!Init
  PROVE  PInv
<1>1. calls = <<>> /\ Len(calls) = 0 /\ calls \in Seq(P!Frame)
  BY DEF P!Init
<1>2. 1..Len(calls) = {}
  BY <1>1
<1>3. FramesFit /\ Claimants
  BY <1>2 DEF P!Init, FramesFit, Claimants
<1> QED
  BY <1>1, <1>3 DEF PInv, P!Init, P!TypeOK, P!DisposedHoldsNothing, P!ActiveAreMembers

LEMMA MInvInit ==
  ASSUME M!Init
  PROVE  MInv
<1>1. calls = <<>> /\ Len(calls) = 0 /\ calls \in Seq(M!Frame)
  BY DEF M!Init
<1>2. 1..Len(calls) = {}
  BY <1>1
<1>3. CallsFit
  BY <1>2 DEF CallsFit
<1>4. NoneForgotten /\ RegistryFits
  BY MConstants DEF M!Init, NoneForgotten, InHand, RegistryFits
<1>5. M!TypeOK
  BY <1>1 DEF M!Init, M!TypeOK
<1>6. M!LiveIsRegistered /\ M!SessionPerGame /\ M!MembersAreLive
  BY DEF M!Init, M!LiveIsRegistered, M!SessionPerGame, M!MembersAreLive, M!Alive
<1> QED
  BY <1>3, <1>4, <1>5, <1>6 DEF MInv, M!KeysAgree

\* Each of the two keeps to itself.
LEMMA PStutters ==
  ASSUME PInv, UNCHANGED <<roster, calls, playersVars>>
  PROVE  PInv'
<1>1. P!TypeOK' /\ P!DisposedHoldsNothing'
  BY DEF playersVars, PInv, P!TypeOK, P!DisposedHoldsNothing
<1>2. P!ActiveAreMembers'
  BY DEF playersVars, PInv, P!ActiveAreMembers, P!Leaving
<1>3. FramesFit' /\ Claimants'
  BY DEF playersVars, PInv, FramesFit, FrameFits, Apart, Claimants, Claimed
<1> QED
  BY <1>1, <1>2, <1>3 DEF PInv

LEMMA MStutters ==
  ASSUME MInv, UNCHANGED <<roster, calls, managerVars>>
  PROVE  MInv'
<1>1. M!TypeOK'
  BY DEF managerVars, MInv, M!KeysAgree, M!TypeOK
<1>2. M!LiveIsRegistered' /\ M!SessionPerGame' /\ M!MembersAreLive' /\ RegistryFits'
  BY DEF managerVars, MInv, M!KeysAgree, M!LiveIsRegistered, M!SessionPerGame,
         M!MembersAreLive, M!Alive, RegistryFits
<1>3. CallsFit' /\ NoneForgotten'
  BY DEF managerVars, MInv, CallsFit, CallFits, Held, NoneForgotten, InHand
<1> QED
  BY <1>1, <1>2, <1>3 DEF MInv, M!KeysAgree

LEMMA InvInit ==
  ASSUME AnyInit
  PROVE  Inv
<1>1. subject = "players" => P!Init
  BY DEF AnyInit
<1>2. subject = "manager" => M!Init
  BY DEF AnyInit
<1> QED
  BY <1>1, <1>2, PInvInit, MInvInit DEF Inv

LEMMA InvNext ==
  ASSUME Inv, [AnyNext]_allVars
  PROVE  Inv' /\ subject' = subject
<1>1. CASE subject = "participation" /\ UNCHANGED subject
  BY <1>1 DEF Inv
<1>2. CASE subject = "players" /\ P!Next /\ UNCHANGED subject
  BY <1>2, PInvNext DEF Inv
<1>3. CASE subject = "manager" /\ M!Next /\ UNCHANGED subject
  BY <1>3, MInvNext DEF Inv
<1>4. CASE subject = "groups" /\ UNCHANGED subject
  BY <1>4 DEF Inv
<1>5. CASE UNCHANGED allVars
  BY <1>5, PStutters, MStutters DEF Inv, allVars
<1> QED
  BY <1>1, <1>2, <1>3, <1>4, <1>5 DEF AnyNext, ButParticipation

LEMMA InvHolds == Services => []Inv
<1>1. AnyInit => Inv
  BY InvInit
<1>2. Inv /\ [AnyNext]_allVars => Inv'
  BY InvNext
<1> QED
  BY <1>1, <1>2, PTL DEF Services

(* A member's wrapper is active, and an active wrapper belongs to a member   *)
(* or to a departure that is being announced; a disposed manager holds       *)
(* nobody: whatever the listeners call meanwhile (playerManager.ts), as long *)
(* as they keep off the players of an operation under way.                   *)
THEOREM WrappersFollow == Services => []WrappersFollowMembers
<1>1. Inv => WrappersFollowMembers
  BY PInvImplies DEF Inv, WrappersFollowMembers
<1> QED
  BY <1>1, InvHolds, PTL

(* A rollback under way stays what it is until its turn comes.               *)
LEMMA RollbackStays ==
  ASSUME PInv, P!Next, NEW p \in roster, p \in roster',
         NEW i \in 1..Len(calls), calls[i].op = "rollback", p \in calls[i].todo
  PROVE  i \in 1..Len(calls') /\ calls'[i].op = "rollback" /\ p \in calls'[i].todo
<1> DEFINE n == Len(calls)
<1>0. /\ calls \in Seq(P!Frame) /\ n \in Nat /\ n \in 1..n /\ calls # <<>>
      /\ calls[n] \in P!Frame
      /\ Last(calls) = calls[n]
  <2>1. calls \in Seq(P!Frame) /\ n \in Nat /\ calls # <<>>
    BY TypedFrames DEF PInv
  <2> QED
    BY <2>1, FrontFacts, TypedFrames DEF PInv
<1>1. CASE UNCHANGED calls
  BY <1>1
<1>2. ASSUME NEW ps \in SUBSET Players, calls' = Append(calls, P!Announcement("left", ps))
      PROVE  Len(calls') = n + 1 /\ calls'[i] = calls[i]
  <2>1. P!Announcement("left", ps) \in P!Frame
    BY CallTypes DEF P!Ops
  <2> QED
    BY <1>0, <1>2, <2>1, PushFacts
<1>3. ASSUME NEW op \in {"join", "joinAll"}, NEW ps \in SUBSET Players, NEW qs \in SUBSET Players,
             calls' = calls \o <<P!Call(op, ps, qs), P!Announcement("joined", qs)>>
      PROVE  Len(calls') = n + 2 /\ calls'[i] = calls[i]
  <2>1. P!Announcement("joined", qs) \in P!Frame /\ P!Call(op, ps, qs) \in P!Frame
    BY CallTypes DEF P!Ops
  <2> QED
    BY <1>0, <1>3, <2>1, PushTwoFacts
<1>4. ASSUME calls' = Front(calls), calls[n].op # "rollback" \/ calls[n].todo = {}
      PROVE  i \in 1..Len(calls') /\ calls'[i] = calls[i]
  <2>1. i # n
    BY <1>4
  <2>2. Len(calls') = n - 1 /\ \A j \in 1..Len(calls') : calls'[j] = calls[j]
    BY <1>0, <1>4, FrontFacts
  <2> QED
    BY <1>0, <2>1, <2>2
<1>5. ASSUME NEW f, calls' = [calls EXCEPT ![n] = f], calls[n].op # "rollback"
      PROVE  i \in 1..Len(calls') /\ calls'[i] = calls[i]
  <2>1. i # n
    BY <1>5
  <2> QED
    BY <1>0, <1>5, <2>1
<1>6. CASE \E q \in Players : P!Join(q)
  BY <1>3, <1>6, <1>0 DEF P!Join
<1>7. CASE \E q \in Players : P!Get(q) \/ P!View(q)
  BY <1>1, <1>7 DEF P!Get, P!View
<1>8. CASE P!Dispose
  BY <1>1, <1>8 DEF P!Dispose
<1>9. CASE \E ps \in (SUBSET Players) \ {{}} : P!JoinAll(ps)
  BY <1>3, <1>9, <1>0 DEF P!JoinAll
<1>10. CASE \E q \in Players : P!Leave(q)
  BY <1>0, <1>1, <1>2, <1>10 DEF P!Leave, P!Release
<1>11. CASE (\E q \in roster : P!ReleasedOutside({q})) \/ P!ReleasedOutside(roster)
  <2>1. roster \in SUBSET Players /\ \A q \in roster : {q} \in SUBSET Players
    BY DEF PInv, P!TypeOK
  <2> QED
    <3>1. PICK ps \in SUBSET Players : calls' = Append(calls, P!Announcement("left", ps))
      BY <1>11, <2>1 DEF P!ReleasedOutside, P!Release
    <3> QED
      BY <1>0, <1>2, <3>1
<1>12. CASE P!JoinReturns \/ P!JoinThrows \/ P!JoinAllReturns \/ P!RollbackDone \/ P!AnnounceDone
  <2>1. calls' = Front(calls) /\ (calls[n].op # "rollback" \/ calls[n].todo = {})
    BY <1>0, <1>12, PStack
       DEF P!JoinReturns, P!JoinThrows, P!JoinAllReturns, P!RollbackDone, P!AnnounceDone,
           P!In, P!Announcing, P!Top
  <2> QED
    BY <1>4, <2>1
<1>13. CASE (\E q \in Players : P!Announce(q)) \/ P!ListenersReturn
             \/ \E done \in SUBSET Players : P!JoinAllThrows(done)
  <2>1. calls[n].op # "rollback" /\ \E f : calls' = [calls EXCEPT ![n] = f]
    BY <1>0, <1>13, PStack
       DEF P!Announce, P!ListenersReturn, P!JoinAllThrows, P!In, P!Announcing, P!Top
  <2> QED
    BY <1>5, <2>1
<1>14. CASE \E q \in Players : P!RollbackNext(q)
  <2> PICK q \in Players : P!RollbackNext(q)
    BY <1>14
  <2> DEFINE f == [calls[n] EXCEPT !.todo = @ \ {q}]
             rest == [calls EXCEPT ![n] = f]
             g == P!Announcement("left", {q})
  <2>1. /\ roster' = roster \ {q}
        /\ calls' = IF q \in roster THEN Append(rest, g) ELSE rest
    BY PStack DEF P!RollbackNext, P!Top
  <2>2. f \in P!Frame /\ f.op = calls[n].op /\ f.todo = calls[n].todo \ {q}
    BY <1>0 DEF P!Frame
  <2>3. g \in P!Frame
    BY CallTypes DEF P!Ops
  <2> HIDE DEF f, g
  <2>4. /\ rest \in Seq(P!Frame) /\ Len(rest) = n
        /\ \A j \in 1..n : rest[j] = IF j = n THEN f ELSE calls[j]
    BY <1>0, <2>2, EditFacts
  <2> HIDE DEF rest
  <2>5. i \in 1..Len(calls') /\ calls'[i] = rest[i]
    <3>1. CASE q \in roster
      BY <1>0, <2>1, <2>3, <2>4, <3>1, PushFacts
    <3>2. CASE q \notin roster
      BY <2>1, <2>4, <3>2
    <3> QED
      BY <3>1, <3>2
  <2>6. p # q
    BY <2>1
  <2> QED
    BY <2>2, <2>4, <2>5, <2>6
<1> QED
  BY <1>6, <1>7, <1>8, <1>9, <1>10, <1>11, <1>12, <1>13, <1>14 DEF P!Next

(* A failed joinAll() leaves nobody of its batch behind: who is still to be  *)
(* taken back stays so until he is (playerManager.ts).                       *)
THEOREM RollbackIsComplete == Services => RollbackReleases
<1>1. ASSUME PInv, P!Next PROVE P!RollbackReleases
  <2> SUFFICES ASSUME NEW p \in roster, P!RollingBack(p), p \in roster'
               PROVE  P!RollingBack(p)'
    BY DEF P!RollbackReleases
  <2>1. PICK i \in 1..Len(calls) : calls[i].op = "rollback" /\ p \in calls[i].todo
    BY DEF P!RollingBack
  <2>2. i \in 1..Len(calls') /\ calls'[i].op = "rollback" /\ p \in calls'[i].todo
    BY <1>1, <2>1, RollbackStays
  <2> QED
    BY <2>2 DEF P!RollingBack
<1>2. ASSUME Inv, AnyNext, subject = "players" PROVE P!RollbackReleases
  BY <1>1, <1>2 DEF Inv, AnyNext
<1>3. Inv /\ [AnyNext]_allVars => [subject = "players" => P!RollbackReleases]_allVars
  BY <1>2
<1> QED
  BY <1>3, InvHolds, PTL DEF Services, RollbackReleases

(* The registry, the trace sessions and the memberships speak of the same    *)
(* live game, and none is stuck half way, however the hooks of the games     *)
(* call the manager back (gameManager.ts), but for the keys that were taken  *)
(* again while a game of theirs was ending.                                  *)
THEOREM KeysNameTheLiveGame == Services => []KeysAgree
<1>1. Inv => KeysAgree
  BY MInvImplies DEF Inv, KeysAgree
<1> QED
  BY <1>1, InvHolds, PTL

=============================================================================
