--------------------------- MODULE GameEngineProofs ---------------------------
(***************************************************************************)
(* Proofs about GameEngine, for any set of states and any call depth:      *)
(*   - types, and the lifecycle that only moves forward;                   *)
(*   - a disposed game has an empty stack;                                 *)
(*   - if onEnter never throws once its state was moved, the stack holds    *)
(*     only live states, none of them twice; no state is lost, and the      *)
(*     onExit of each is called once;                                       *)
(*   - if besides game code adds nothing to a state it has left, a state    *)
(*     that was cleaned up holds nothing;                                   *)
(*   - the Observatory, which sees only the trace of the game, rebuilds its *)
(*     stack from it (TraceContext).                                        *)
(* And about the runners of a state, for any number of scripts, jobs and     *)
(* waits: the manager's map is what runs, a script comes back once from     *)
(* every wait, and nothing of a cancelled one is left when the host gets    *)
(* its turn again.                                                          *)
(***************************************************************************)
EXTENDS MCStops, TraceContext, SequenceLemmas

(* The call stack keeps its type. *)

LEMMA CallType ==
  ASSUME NEW op \in UserOps \union EngineOps, NEW s \in States \union {NoState}, NEW n \in Nat
  PROVE  Call(op, s) \in Frame /\ CallAt(op, s, n) \in Frame
  BY EmptySeq DEF Call, CallAt, Frame

LEMMA EnterType ==
  ASSUME calls \in Seq(Frame), NEW f \in Frame, Enter(f)
  PROVE  calls' \in Seq(Frame)
  BY AppendProperties DEF Enter

LEMMA TopType ==
  ASSUME calls \in Seq(Frame), calls # <<>>
  PROVE  /\ Len(calls) \in 1..Len(calls)
         /\ Top \in Frame /\ Top = calls[Len(calls)]
         /\ Top.op \in UserOps \union EngineOps
         /\ Top.state \in States \union {NoState}
         /\ Top.at \in Nat /\ Top.rest \in Seq(States) /\ Top.failed \in BOOLEAN
<1>1. Len(calls) \in 1..Len(calls) /\ Top \in Frame /\ Top = calls[Len(calls)]
  BY FrontFacts DEF Top
<1> QED BY <1>1 DEF Frame

LEMMA BecomeType ==
  ASSUME calls \in Seq(Frame), calls # <<>>, NEW f \in Frame, Become(f)
  PROVE  calls' \in Seq(Frame)
  BY TopType, ExceptSeq DEF Become

LEMMA LeaveType ==
  ASSUME calls \in Seq(Frame), calls # <<>>, NEW threw, Leave(threw)
  PROVE  calls' \in Seq(Frame)
<1> DEFINE below == Front(calls)
<1>1. below \in Seq(Frame)
  BY FrontFacts
<1>2. CASE threw /\ below # <<>> /\ Last(below).op \in EngineOps
  <2>1. below[Len(below)] \in Frame /\ Len(below) \in 1..Len(below)
    BY <1>1, <1>2, FrontFacts
  <2>2. [below[Len(below)] EXCEPT !.failed = TRUE] \in Frame
    BY <2>1 DEF Frame
  <2>3. calls' = [below EXCEPT ![Len(below)].failed = TRUE]
    BY <1>2 DEF Leave
  <2> HIDE DEF below
  <2>4. calls' = [below EXCEPT ![Len(below)] = [below[Len(below)] EXCEPT !.failed = TRUE]]
    BY <2>3
  <2> QED BY <1>1, <2>1, <2>2, <2>4, ExceptSeq
<1>3. CASE ~(threw /\ below # <<>> /\ Last(below).op \in EngineOps)
  BY <1>1, <1>3 DEF Leave
<1> QED BY <1>2, <1>3

-----------------------------------------------------------------------------
(* Type correctness. *)

\* Frames of the ops that work for a state name one; TypeOK alone does not say so.
StateOps == {"onEnter", "onExit", "onAttach", "onDetach", "reset", "replace",
             "rollback", "failed", "deleted"}

FramesNameStates ==
  \A i \in 1..Len(calls) : calls[i].op \in StateOps => calls[i].state \in States

TypeInv == TypeOK /\ FramesNameStates

LEMMA InitType == Init => TypeInv
<1> SUFFICES ASSUME Init PROVE TypeInv
  OBVIOUS
<1>1. <<>> \in Seq(States) /\ <<>> \in Seq(Frame) /\ Len(<<>>) = 0
  BY EmptySeq
<1> QED BY <1>1 DEF Init, TypeInv, TypeOK, FramesNameStates, Phases

LEMMA TopState ==
  ASSUME TypeInv, calls # <<>>, Top.op \in StateOps
  PROVE  Top.state \in States
  BY TopType DEF TypeInv, TypeOK, FramesNameStates

\* A frame that is well formed and names a state if its op needs one.
Good(f) == f \in Frame /\ (f.op \in StateOps => f.state \in States)

CallsOK == calls \in Seq(Frame) /\ FramesNameStates

LEMMA EnterOK ==
  ASSUME CallsOK, NEW f, Good(f), Enter(f)
  PROVE  CallsOK'
<1>1. /\ calls' \in Seq(Frame) /\ Len(calls') = Len(calls) + 1
      /\ \A i \in 1..Len(calls) : calls'[i] = calls[i]
      /\ calls'[Len(calls) + 1] = f
  BY AppendProperties DEF CallsOK, Enter, Good
<1>2. Len(calls) \in Nat
  BY LenProperties DEF CallsOK
<1>3. ASSUME NEW i \in 1..Len(calls'), calls'[i].op \in StateOps
      PROVE  calls'[i].state \in States
  <2>1. CASE i = Len(calls) + 1
    BY <1>1, <1>3, <2>1 DEF Good
  <2>2. CASE i # Len(calls) + 1
    <3>1. i \in 1..Len(calls)
      BY <1>1, <1>2, <2>2
    <3> QED BY <1>1, <1>3, <3>1 DEF CallsOK, FramesNameStates
  <2> QED BY <2>1, <2>2
<1> QED BY <1>1, <1>3 DEF CallsOK, FramesNameStates

LEMMA BecomeOK ==
  ASSUME CallsOK, calls # <<>>, NEW f, Good(f), Become(f)
  PROVE  CallsOK'
<1>1. Len(calls) \in 1..Len(calls)
  BY TopType DEF CallsOK
<1>2. /\ calls' \in Seq(Frame) /\ Len(calls') = Len(calls)
      /\ \A i \in 1..Len(calls) : calls'[i] = IF i = Len(calls) THEN f ELSE calls[i]
  BY <1>1, ExceptSeq DEF CallsOK, Become, Good
<1> QED BY <1>2 DEF CallsOK, FramesNameStates, Good

\* A frame that ends leaves the frames below it as they were, but for `failed`.
LEMMA LeaveFrames ==
  ASSUME calls \in Seq(Frame), calls # <<>>, NEW threw, Leave(threw)
  PROVE  /\ calls' \in Seq(Frame)
         /\ Len(calls') = Len(calls) - 1
         /\ \A i \in 1..Len(calls') :
              /\ i \in 1..Len(calls)
              /\ calls'[i].op = calls[i].op
              /\ calls'[i].state = calls[i].state
              /\ calls'[i].at = calls[i].at
              /\ calls'[i].rest = calls[i].rest
<1> DEFINE below == Front(calls)
<1>0. calls' \in Seq(Frame)
  BY LeaveType
<1>1. /\ below \in Seq(Frame) /\ Len(below) = Len(calls) - 1
      /\ \A i \in 1..Len(below) : below[i] = calls[i] /\ i \in 1..Len(calls)
  BY FrontFacts
<1>2. CASE threw /\ below # <<>> /\ Last(below).op \in EngineOps
  <2>1. below[Len(below)] \in Frame /\ Len(below) \in 1..Len(below)
    BY <1>1, <1>2, FrontFacts
  <2>2. calls' = [below EXCEPT ![Len(below)].failed = TRUE]
    BY <1>2 DEF Leave
  <2> DEFINE g == [below[Len(below)] EXCEPT !.failed = TRUE]
  <2>3. /\ g \in Frame
        /\ g.op = below[Len(below)].op /\ g.state = below[Len(below)].state
        /\ g.at = below[Len(below)].at /\ g.rest = below[Len(below)].rest
    BY <2>1 DEF Frame
  <2> HIDE DEF below
  <2>4. calls' = [below EXCEPT ![Len(below)] = g]
    BY <2>2
  <2> HIDE DEF g
  <2>5. /\ Len(calls') = Len(below)
        /\ \A j \in 1..Len(below) : calls'[j] = IF j = Len(below) THEN g ELSE below[j]
    BY <1>1, <2>1, <2>3, <2>4, ExceptSeq
  <2> QED BY <1>0, <1>1, <2>3, <2>5
<1>3. CASE ~(threw /\ below # <<>> /\ Last(below).op \in EngineOps)
  BY <1>0, <1>1, <1>3 DEF Leave
<1> QED BY <1>2, <1>3

LEMMA LeaveOK ==
  ASSUME CallsOK, calls # <<>>, NEW threw, Leave(threw)
  PROVE  CallsOK'
  BY LeaveFrames DEF CallsOK, FramesNameStates


DataOK ==
  /\ lifecycle \in {"created", "starting", "running", "stopping", "disposed"}
  /\ stack \in Seq(States)
  /\ components \subseteq States
  /\ runners \subseteq States
  /\ phase \in [States -> Phases]

LEMMA TypeInvSplit == TypeInv <=> DataOK /\ CallsOK
  BY DEF TypeInv, TypeOK, DataOK, CallsOK

LEMMA NewCallOK ==
  ASSUME NEW op \in UserOps \union EngineOps, NEW s \in States \union {NoState},
         NEW n \in Nat, op \in StateOps => s \in States
  PROVE  Good(Call(op, s)) /\ Good(CallAt(op, s, n))
  BY CallType DEF Good, Call, CallAt

\* pushState: the height of the stack is a number, the state goes on top.
LEMMA PushType ==
  ASSUME DataOK, NEW s \in States, Push(s)
  PROVE  /\ Len(stack) \in Nat
         /\ stack' \in Seq(States)
         /\ phase' \in [States -> Phases]
<1>1. Len(stack) \in Nat /\ stack' \in Seq(States)
  BY LenProperties, AppendProperties DEF DataOK, Push
<1>2. phase' \in [States -> Phases]
  BY DEF DataOK, Push, Phases
<1> QED BY <1>1, <1>2

\* removeState: the state is leaving and its onExit is called.
LEMMA RemoveStateType ==
  ASSUME DataOK, CallsOK, NEW s \in States, RemoveState(s)
  PROVE  CallsOK' /\ phase' \in [States -> Phases]
<1>1. Good(Call("onExit", s))
  BY NewCallOK DEF UserOps
<1>2. phase' \in [States -> Phases]
  BY DEF DataOK, RemoveState, Phases
<1> QED BY <1>1, <1>2, EnterOK DEF RemoveState

LEMMA CleanType ==
  ASSUME DataOK, NEW s \in States, Clean(s)
  PROVE  components' \subseteq States /\ phase' \in [States -> Phases]
  BY DEF DataOK, Clean, Phases

LEMMA UserCallType ==
  ASSUME DataOK, CallsOK, UserCall
  PROVE  DataOK' /\ CallsOK'
<1>1. ASSUME NEW s \in States, PushState(s) PROVE DataOK' /\ CallsOK'
  <2>1. Push(s) /\ Enter(CallAt("onEnter", s, Len(stack)))
    BY <1>1 DEF PushState
  <2>2. Good(CallAt("onEnter", s, Len(stack)))
    BY <2>1, PushType, NewCallOK DEF UserOps
  <2>3. CallsOK'
    BY <2>1, <2>2, EnterOK
  <2> QED BY <1>1, <2>1, <2>3, PushType DEF PushState, DataOK
<1>2. ASSUME PopState PROVE DataOK' /\ CallsOK'
  <2>1. Last(stack) \in States /\ Front(stack) \in Seq(States)
    BY <1>2, FrontFacts DEF PopState, DataOK
  <2>2. CallsOK' /\ phase' \in [States -> Phases]
    BY <1>2, <2>1, RemoveStateType DEF PopState
  <2> QED BY <1>2, <2>1, <2>2 DEF PopState, DataOK
<1>3. ASSUME NEW s \in States, DeleteState(s) PROVE DataOK' /\ CallsOK'
  <2>1. HeightOf(s) \in 1..Len(stack)
    BY <1>3 DEF DeleteState, OnStack, HeightOf
  <2>2. RemoveAt(stack, HeightOf(s)) \in Seq(States)
    BY <2>1, RemoveAtFacts DEF DataOK
  <2>3. CallsOK' /\ phase' \in [States -> Phases]
    BY <1>3, RemoveStateType DEF DeleteState
  <2> QED BY <1>3, <2>2, <2>3 DEF DeleteState, DataOK
<1>4. ASSUME NEW s \in States, ResetState(s) PROVE DataOK' /\ CallsOK'
  <2>1. Good(CallAt("reset", s, 0))
    BY NewCallOK DEF EngineOps
  <2>2. CallsOK'
    BY <1>4, <2>1, EnterOK DEF ResetState
  <2> QED BY <1>4, <2>2 DEF ResetState, DataOK
<1>5. ASSUME NEW t \in States, NEW s \in States, ReplaceFrom(t, s) PROVE DataOK' /\ CallsOK'
  <2>1. HeightOf(t) \in 1..Len(stack)
    BY <1>5 DEF ReplaceFrom, OnStack, HeightOf
  <2>2. HeightOf(t) - 1 \in Nat
    BY <2>1
  <2>3. Good(CallAt("replace", s, HeightOf(t) - 1))
    BY <2>2, NewCallOK DEF EngineOps
  <2>4. CallsOK'
    BY <1>5, <2>3, EnterOK DEF ReplaceFrom
  <2> QED BY <1>5, <2>4 DEF ReplaceFrom, DataOK
<1>6. ASSUME NEW s \in States, AddComponent(s) PROVE DataOK' /\ CallsOK'
  <2>1. Good(Call("onAttach", s))
    BY NewCallOK DEF UserOps
  <2>2. CallsOK'
    BY <1>6, <2>1, EnterOK DEF AddComponent
  <2> QED BY <1>6, <2>2 DEF AddComponent, DataOK
<1>7. ASSUME NEW s \in States, DeleteComponent(s) PROVE DataOK' /\ CallsOK'
  <2>1. Good(Call("deleted", s))
    BY NewCallOK DEF UserOps
  <2>2. CallsOK'
    BY <1>7, <2>1, EnterOK DEF DeleteComponent
  <2> QED BY <1>7, <2>2 DEF DeleteComponent, DataOK
<1>8. ASSUME NEW s \in States, RunScript(s) PROVE DataOK' /\ CallsOK'
  BY <1>8 DEF RunScript, DataOK, CallsOK, FramesNameStates
<1>9. ASSUME Stop PROVE DataOK' /\ CallsOK'
  <2>1. Good(Disposing) /\ Good(Call("onStop", NoState))
    BY NewCallOK DEF UserOps, EngineOps, StateOps, Disposing
  <2>2. CallsOK'
    BY <1>9, <2>1, EnterOK DEF Stop
  <2> QED BY <1>9, <2>2 DEF Stop, DataOK
<1>10. ASSUME DisposeAll PROVE DataOK' /\ CallsOK'
  <2>1. Good(Disposing)
    BY NewCallOK DEF EngineOps, StateOps, Disposing
  <2>2. CallsOK'
    BY <1>10, <2>1, EnterOK DEF DisposeAll
  <2> QED BY <1>10, <2>2 DEF DisposeAll, DataOK
<1> QED
  BY <1>1, <1>2, <1>3, <1>4, <1>5, <1>6, <1>7, <1>8, <1>9, <1>10 DEF UserCall

\* onStart or onStop is over.
LEMMA ThenDisposeType ==
  ASSUME DataOK, CallsOK, calls # <<>>, ThenDispose
  PROVE  CallsOK' /\ lifecycle' \in {lifecycle, "stopping"}
<1>1. Good(Disposing)
  BY NewCallOK DEF EngineOps, StateOps, Disposing
<1> QED BY <1>1, LeaveOK, BecomeOK DEF ThenDispose

\* A running frame of one of the ops that work for a state.
LEMMA InState ==
  ASSUME CallsOK, NEW op \in StateOps, In(op)
  PROVE  calls # <<>> /\ Top.state \in States /\ Top.op = op
<1>1. calls # <<>> /\ Top.op = op
  BY DEF In, Running
<1> QED BY <1>1, TopType DEF CallsOK, FramesNameStates

\* The two halves of stateStack.splice().
LEMMA SpliceFacts ==
  ASSUME stack \in Seq(States), NEW n \in Nat
  PROVE  /\ Below(n) \in Seq(States) /\ Above(n) \in Seq(States)
         /\ Len(Below(n)) \in Nat /\ Len(Below(n)) <= Len(stack) /\ Len(stack) \in Nat
         /\ \A i \in 1..Len(Below(n)) : Below(n)[i] = stack[i] /\ i \in 1..Len(stack)
         /\ Len(Above(n)) \in Nat
         /\ \A i \in 1..Len(Above(n)) :
              Above(n)[i] = stack[n + i] /\ n + i \in 1..Len(stack)
         /\ \A i \in 1..Len(Above(n)) : n + i > Len(Below(n))
<1>0. Len(stack) \in Nat
  BY LenProperties
<1>1. CASE n < Len(stack)
  <2>1. /\ Below(n) \in Seq(States) /\ Len(Below(n)) = n - 1 + 1
        /\ \A i \in 1..(n - 1 + 1) : Below(n)[i] = stack[1 + i - 1] /\ 1 + i - 1 \in 1..Len(stack)
    <3>1. 1 \in Int /\ n \in Int /\ 1 <= 1 /\ n <= Len(stack) /\ 1 <= n + 1
      BY <1>0, <1>1
    <3> QED BY <1>1, <3>1, SubSeqFacts DEF Below
  <2>2. /\ Above(n) \in Seq(States) /\ Len(Above(n)) = Len(stack) - (n + 1) + 1
        /\ \A i \in 1..(Len(stack) - (n + 1) + 1) :
             Above(n)[i] = stack[n + 1 + i - 1] /\ n + 1 + i - 1 \in 1..Len(stack)
    <3>1. /\ n + 1 \in Int /\ Len(stack) \in Int /\ 1 <= n + 1
          /\ Len(stack) <= Len(stack) /\ n + 1 <= Len(stack) + 1
      BY <1>0, <1>1
    <3> QED BY <1>1, <3>1, SubSeqFacts DEF Above
  <2>3. Len(Below(n)) = n /\ Len(Above(n)) = Len(stack) - n
    BY <1>0, <2>1, <2>2
  <2>4. \A i \in 1..n : Below(n)[i] = stack[i] /\ i \in 1..Len(stack)
    BY <1>0, <1>1, <2>1
  <2>5. \A i \in 1..(Len(stack) - n) : Above(n)[i] = stack[n + i] /\ n + i \in 1..Len(stack)
    BY <1>0, <1>1, <2>2
  <2> QED BY <1>0, <1>1, <2>1, <2>2, <2>3, <2>4, <2>5
<1>2. CASE ~(n < Len(stack))
  <2>1. Below(n) = stack /\ Above(n) = <<>> /\ Len(Above(n)) = 0 /\ Above(n) \in Seq(States)
    BY <1>2, EmptySeq DEF Below, Above
  <2> QED BY <1>0, <2>1
<1> QED BY <1>1, <1>2

LEMMA RollbackFrame ==
  ASSUME stack \in Seq(States), NEW s \in States, NEW n \in Nat
  PROVE  /\ Good(Rollback(s, n))
         /\ Rollback(s, n).op = "rollback" /\ Rollback(s, n).state = s
         /\ Rollback(s, n).rest = Above(n)
<1>1. Above(n) \in Seq(States)
  BY SpliceFacts
<1>2. CallAt("rollback", s, n) \in Frame
  BY CallType DEF EngineOps
<1>3. /\ Rollback(s, n) \in Frame
      /\ Rollback(s, n).op = "rollback" /\ Rollback(s, n).state = s
      /\ Rollback(s, n).rest = Above(n)
  BY <1>1, <1>2 DEF Rollback, CallAt, Frame
<1> QED BY <1>3 DEF Good

\* What a rollback takes off the stack begins with its own state.
LEMMA RestStartsInPlace ==
  ASSUME DataOK, NEW f, f.at \in Nat, InPlace(f)
  PROVE  1 \in 1..Len(Above(f.at)) /\ Above(f.at)[1] = f.state
<1>1. f.at < Len(stack) /\ stack[f.at + 1] = f.state /\ Len(stack) \in Nat
  BY LenProperties DEF InPlace, DataOK
<1>2. /\ Above(f.at) = SubSeq(stack, f.at + 1, Len(stack))
      /\ Len(SubSeq(stack, f.at + 1, Len(stack))) = Len(stack) - (f.at + 1) + 1
  <2>1. /\ f.at + 1 \in Int /\ Len(stack) \in Int /\ 1 <= f.at + 1
        /\ Len(stack) <= Len(stack) /\ f.at + 1 <= Len(stack) + 1
    BY <1>1
  <2>2. stack \in Seq(States)
    BY DEF DataOK
  <2>3. Len(SubSeq(stack, f.at + 1, Len(stack))) = Len(stack) - (f.at + 1) + 1
    BY <2>1, <2>2, SubSeqFacts
  <2> QED BY <1>1, <2>3 DEF Above
<1>3. 1 \in 1..Len(Above(f.at))
  <2>1. Len(Above(f.at)) = Len(stack) - (f.at + 1) + 1
    BY <1>2
  <2> QED BY <1>1, <2>1
<1>4. Above(f.at)[1] = stack[f.at + 1]
  BY <1>3, SpliceFacts DEF DataOK
<1> QED BY <1>1, <1>3, <1>4

LEMMA HookEndsType ==
  ASSUME DataOK, CallsOK, HookEnds
  PROVE  DataOK' /\ CallsOK'
<1>1. ASSUME EnterReturns PROVE DataOK' /\ CallsOK'
  <2>1. calls # <<>> /\ Top.state \in States
    BY <1>1, InState DEF EnterReturns, StateOps
  <2>2. CallsOK'
    BY <1>1, <2>1, LeaveOK DEF EnterReturns
  <2> QED BY <1>1, <2>1, <2>2 DEF EnterReturns, DataOK, Phases
<1>2. ASSUME EnterThrows PROVE DataOK' /\ CallsOK'
  <2>1. calls # <<>> /\ Top.state \in States /\ Top.at \in Nat
    BY <1>2, InState, TopType DEF EnterThrows, StateOps, CallsOK
  <2>2. Below(Top.at) \in Seq(States) /\ Good(Rollback(Top.state, Top.at))
    BY <2>1, SpliceFacts, RollbackFrame DEF DataOK
  <2>3. CallsOK'
    BY <1>2, <2>1, <2>2, BecomeOK DEF EnterThrows
  <2> QED BY <1>2, <2>2, <2>3 DEF EnterThrows, DataOK
<1>3. ASSUME NEW threw \in BOOLEAN, ExitEnds(threw) PROVE DataOK' /\ CallsOK'
  <2>1. calls # <<>> /\ Top.state \in States
    BY <1>3, InState DEF ExitEnds, StateOps
  <2>2. Good([Call("onDetach", Top.state) EXCEPT !.failed = threw])
    BY <2>1, CallType DEF Good, Frame, UserOps, Call, CallAt
  <2>3. CallsOK'
    BY <1>3, <2>1, <2>2, BecomeOK DEF ExitEnds
  <2> QED BY <1>3, <2>1, <2>3, CleanType DEF ExitEnds, DataOK
<1>4. ASSUME NEW threw \in BOOLEAN, DetachEnds(threw) PROVE DataOK' /\ CallsOK'
  <2>1. calls # <<>> /\ Top.state \in States
    BY <1>4, InState DEF DetachEnds, StateOps
  <2>2. CallsOK'
    BY <1>4, <2>1, LeaveOK DEF DetachEnds
  <2> QED BY <1>4, <2>1, <2>2 DEF DetachEnds, DataOK, Phases
<1>5. ASSUME AttachReturns PROVE DataOK' /\ CallsOK'
  <2>1. calls # <<>> /\ Top.state \in States
    BY <1>5, InState DEF AttachReturns, StateOps
  <2>2. CallsOK'
    BY <1>5, <2>1, LeaveOK DEF AttachReturns
  <2> QED BY <1>5, <2>1, <2>2 DEF AttachReturns, DataOK
<1>6. ASSUME AttachThrows PROVE DataOK' /\ CallsOK'
  <2>1. calls # <<>>
    BY <1>6 DEF AttachThrows, In, Running
  <2>2. CallsOK'
    BY <1>6, <2>1, LeaveOK DEF AttachThrows
  <2> QED BY <1>6, <2>2 DEF AttachThrows, DataOK
<1>7. ASSUME DeletedEnds PROVE DataOK' /\ CallsOK'
  <2>1. calls # <<>>
    BY <1>7 DEF DeletedEnds, In, Running
  <2>2. CallsOK'
    BY <1>7, <2>1, LeaveOK DEF DeletedEnds
  <2> QED BY <1>7, <2>2 DEF DeletedEnds, DataOK
<1>8. ASSUME StartReturns PROVE DataOK' /\ CallsOK'
  <2>1. calls # <<>>
    BY <1>8 DEF StartReturns, In, Running
  <2>2. CallsOK'
    BY <1>8, <2>1, LeaveOK DEF StartReturns
  <2> QED BY <1>8, <2>2 DEF StartReturns, DataOK
<1>9. ASSUME StartThrows PROVE DataOK' /\ CallsOK'
  <2>1. calls # <<>>
    BY <1>9 DEF StartThrows, In, Running
  <2>2. CallsOK' /\ lifecycle' \in {lifecycle, "stopping"}
    BY <1>9, <2>1, ThenDisposeType DEF StartThrows
  <2> QED BY <1>9, <2>2 DEF StartThrows, DataOK
<1>10. ASSUME NEW threw \in BOOLEAN, StopEnds(threw) PROVE DataOK' /\ CallsOK'
  <2>1. calls # <<>>
    BY <1>10 DEF StopEnds, In, Running
  <2>2. CallsOK' /\ lifecycle' \in {lifecycle, "stopping"}
    BY <1>10, <2>1, ThenDisposeType DEF StopEnds
  <2> QED BY <1>10, <2>2 DEF StopEnds, DataOK
<1> QED
  BY <1>1, <1>2, <1>3, <1>4, <1>5, <1>6, <1>7, <1>8, <1>9, <1>10 DEF HookEnds

\* The frame a rollback step leaves in place of the running one, below the hook it calls.
LEMMA ReplaceThenEnterOK ==
  ASSUME CallsOK, calls # <<>>, NEW g, Good(g), NEW f, Good(f),
         BecomeThenEnter(g, f)
  PROVE  /\ CallsOK'
         /\ Len(calls') = Len(calls) + 1
         /\ \A i \in 1..Len(calls') :
              calls'[i] = IF i = Len(calls) + 1 THEN f
                          ELSE IF i = Len(calls) THEN g ELSE calls[i]
<1> DEFINE cs == [calls EXCEPT ![Len(calls)] = g]
<1>1. Len(calls) \in 1..Len(calls) /\ Len(calls) \in Nat
  BY TopType, LenProperties DEF CallsOK
<1>2. /\ cs \in Seq(Frame) /\ Len(cs) = Len(calls)
      /\ \A i \in 1..Len(calls) : cs[i] = IF i = Len(calls) THEN g ELSE calls[i]
  BY <1>1, ExceptSeq DEF CallsOK, Good
<1>a. calls' = Append(cs, f)
  BY DEF BecomeThenEnter
<1> HIDE DEF cs
<1>3. /\ calls' \in Seq(Frame) /\ Len(calls') = Len(calls) + 1
      /\ \A i \in 1..Len(calls) : calls'[i] = cs[i]
      /\ calls'[Len(calls) + 1] = f
  BY <1>2, <1>a, AppendProperties DEF Good
<1>4. \A i \in 1..Len(calls') :
        calls'[i] = IF i = Len(calls) + 1 THEN f
                    ELSE IF i = Len(calls) THEN g ELSE calls[i]
  BY <1>1, <1>2, <1>3
<1>5. FramesNameStates'
  <2> SUFFICES ASSUME NEW i \in 1..Len(calls'), calls'[i].op \in StateOps
               PROVE  calls'[i].state \in States
    BY DEF FramesNameStates
  <2>1. CASE i = Len(calls) + 1
    BY <1>4, <2>1 DEF Good
  <2>2. CASE i = Len(calls)
    BY <1>1, <1>4, <2>2 DEF Good
  <2>3. CASE i # Len(calls) + 1 /\ i # Len(calls)
    <3>1. i \in 1..Len(calls)
      BY <1>1, <1>3, <2>3
    <3> QED BY <1>4, <2>3, <3>1 DEF CallsOK, FramesNameStates
  <2> QED BY <2>1, <2>2, <2>3
<1> QED BY <1>3, <1>4, <1>5 DEF CallsOK

LEMMA EngineStepType ==
  ASSUME DataOK, CallsOK, EngineStep
  PROVE  DataOK' /\ CallsOK'
<1>1. ASSUME RollbackNext PROVE DataOK' /\ CallsOK'
  <2>1. /\ calls # <<>> /\ Top.state \in States /\ Top.rest \in Seq(States)
        /\ Top \in Frame /\ Top.op = "rollback"
    BY <1>1, InState, TopType DEF RollbackNext, StateOps, CallsOK
  <2>2. Top.rest # <<>>
    BY <1>1, EmptySeq DEF RollbackNext
  <2>3. Last(Top.rest) \in States /\ Front(Top.rest) \in Seq(States)
    BY <2>1, <2>2, FrontFacts
  <2>4. Good([Top EXCEPT !.rest = Front(@)])
    BY <2>1, <2>3 DEF Good, Frame
  <2>5. Good(Call("onExit", Last(Top.rest)))
    BY <2>3, NewCallOK DEF UserOps
  <2>6. CallsOK'
    BY <1>1, <2>1, <2>4, <2>5, ReplaceThenEnterOK DEF RollbackNext
  <2> QED BY <1>1, <2>3, <2>6 DEF RollbackNext, DataOK, Phases
<1>2. ASSUME RollbackSelf PROVE DataOK' /\ CallsOK'
  <2>1. calls # <<>> /\ Top.state \in States
    BY <1>2, InState DEF RollbackSelf, StateOps
  <2>2. Good(Call("failed", Top.state)) /\ Good(Call("onDetach", Top.state))
    BY <2>1, NewCallOK DEF UserOps, EngineOps
  <2>3. CallsOK'
    BY <1>2, <2>1, <2>2, ReplaceThenEnterOK DEF RollbackSelf
  <2> QED BY <1>2, <2>1, <2>3, CleanType DEF RollbackSelf, DataOK
<1>3. ASSUME RollbackDone PROVE DataOK' /\ CallsOK'
  <2>1. calls # <<>>
    BY <1>3 DEF RollbackDone, In, Running
  <2>2. CallsOK'
    BY <1>3, <2>1, LeaveOK DEF RollbackDone
  <2> QED BY <1>3, <2>2 DEF RollbackDone, DataOK
<1>4. ASSUME ClearNext PROVE DataOK' /\ CallsOK'
  <2>1. calls # <<>> /\ Top.at \in Nat
    BY <1>4, TopType DEF ClearNext, Clearing, Running, CallsOK
  <2>2. stack # <<>>
    BY <1>4, <2>1, EmptySeq DEF ClearNext
  <2>3. Last(stack) \in States /\ Front(stack) \in Seq(States)
    BY <2>2, FrontFacts DEF DataOK
  <2>4. CallsOK' /\ phase' \in [States -> Phases]
    BY <1>4, <2>3, RemoveStateType DEF ClearNext
  <2> QED BY <1>4, <2>3, <2>4 DEF ClearNext, DataOK
<1>5. ASSUME ClearedThenPush PROVE DataOK' /\ CallsOK'
  <2>1. calls # <<>> /\ Top.state \in States
    BY <1>5, TopType DEF ClearedThenPush, Running, CallsOK, FramesNameStates, StateOps
  <2>2. Push(Top.state) /\ Become(CallAt("onEnter", Top.state, Len(stack)))
    BY <1>5 DEF ClearedThenPush
  <2>3. Good(CallAt("onEnter", Top.state, Len(stack)))
    BY <2>1, <2>2, PushType, NewCallOK DEF UserOps
  <2>4. CallsOK'
    BY <2>1, <2>2, <2>3, BecomeOK
  <2> QED BY <1>5, <2>1, <2>2, <2>4, PushType DEF ClearedThenPush, DataOK
<1>6. ASSUME ClearedOnly PROVE DataOK' /\ CallsOK'
  <2>1. calls # <<>>
    BY <1>6 DEF ClearedOnly, Running
  <2>2. CallsOK'
    BY <1>6, <2>1, LeaveOK DEF ClearedOnly
  <2> QED BY <1>6, <2>2 DEF ClearedOnly, DataOK
<1>7. ASSUME DisposeEnds PROVE DataOK' /\ CallsOK'
  <2>1. calls # <<>>
    BY <1>7 DEF DisposeEnds, In, Running
  <2>2. CallsOK'
    BY <1>7, <2>1, LeaveOK DEF DisposeEnds
  <2> QED BY <1>7, <2>2 DEF DisposeEnds, DataOK
<1> QED
  BY <1>1, <1>2, <1>3, <1>4, <1>5, <1>6, <1>7 DEF EngineStep

LEMMA TypeStep ==
  ASSUME TypeInv, [Next]_vars
  PROVE  TypeInv'
<1>0. DataOK /\ CallsOK
  BY TypeInvSplit
<1>1. ASSUME Start PROVE DataOK' /\ CallsOK'
  <2>1. Good(Call("onStart", NoState))
    BY NewCallOK DEF UserOps, StateOps
  <2>2. CallsOK'
    BY <1>0, <1>1, <2>1, EnterOK DEF Start
  <2> QED BY <1>0, <1>1, <2>2 DEF Start, DataOK
<1>2. ASSUME NEW s \in States, ScriptEnds(s) PROVE DataOK' /\ CallsOK'
  BY <1>0, <1>2 DEF ScriptEnds, DataOK, CallsOK, FramesNameStates
<1>3. ASSUME UNCHANGED vars PROVE DataOK' /\ CallsOK'
  BY <1>0, <1>3 DEF vars, DataOK, CallsOK, FramesNameStates
<1>4. DataOK' /\ CallsOK'
  BY <1>0, <1>1, <1>2, <1>3, UserCallType, HookEndsType, EngineStepType DEF Next
<1> QED BY <1>4 DEF TypeInv, TypeOK, DataOK, CallsOK

\* Every variable keeps its type, through every nesting of hooks.
THEOREM TypeCorrect == Spec => []TypeOK
<1>1. TypeInv => TypeOK
  BY DEF TypeInv
<1> QED BY <1>1, InitType, TypeStep, PTL DEF Spec

LEMMA TypeInvariant == Spec => []TypeInv
  BY InitType, TypeStep, PTL DEF Spec

-----------------------------------------------------------------------------
(* The lifecycle and the end of the game. *)

\* A game that was not started has done nothing.
Fresh == lifecycle = "created" => calls = <<>> /\ stack = <<>> /\ components = {}

Ended == lifecycle \in {"stopping", "disposed"}

EndedNext == lifecycle' \in {"stopping", "disposed"}

\* The disposal loop only runs in a game that is ending.
DisposalsEnd == \A i \in 1..Len(calls) : calls[i].op = "dispose" => Ended

LifeInv == Fresh /\ DisposalsEnd

\* A step of the lifecycle, and the call stack it happens on.
LEMMA LifecycleStep ==
  ASSUME TypeInv, LifeInv, [Next]_vars
  PROVE  /\ [Lifecycle!Next]_lifecycle
         /\ lifecycle' = "disposed" /\ lifecycle # "disposed" => stack' = <<>>
         /\ lifecycle' = "created" => lifecycle = "created"
         /\ Ended => EndedNext
<1>0. lifecycle \in {"created", "starting", "running", "stopping", "disposed"}
  BY DEF TypeInv, TypeOK
<1>a. ASSUME calls # <<>> PROVE lifecycle # "created"
  BY <1>a DEF LifeInv, Fresh
<1>b. ASSUME In("dispose") PROVE Ended
  <2>1. Len(calls) \in 1..Len(calls) /\ Top = calls[Len(calls)]
    BY <1>b, TopType DEF TypeInv, TypeOK, In, Running
  <2> QED BY <1>b, <2>1 DEF LifeInv, DisposalsEnd, In
<1>1. \/ lifecycle' = lifecycle
      \/ lifecycle = "created" /\ lifecycle' = "starting"
      \/ lifecycle = "starting" /\ lifecycle' = "running"
      \/ lifecycle \notin {"created", "disposed"} /\ lifecycle' = "stopping"
      \/ lifecycle' = "disposed" /\ stack' = <<>> /\ Ended
  <2>1. ASSUME UserCall PROVE \/ lifecycle' = lifecycle
                              \/ lifecycle \notin {"created", "disposed"} /\ lifecycle' = "stopping"
    BY <2>1 DEF UserCall, PushState, PopState, DeleteState, ResetState, ReplaceFrom,
                AddComponent, DeleteComponent, RunScript, Stop, DisposeAll, Registered
  <2>2. ASSUME HookEnds PROVE \/ lifecycle' = lifecycle
                              \/ lifecycle = "starting" /\ lifecycle' = "running"
                              \/ lifecycle \notin {"created", "disposed"} /\ lifecycle' = "stopping"
    <3>1. calls # <<>>
      BY <2>2 DEF HookEnds, EnterReturns, EnterThrows, ExitEnds, DetachEnds, AttachReturns,
                  AttachThrows, DeletedEnds, StartReturns, StartThrows, StopEnds, In, Running
    <3> QED BY <1>a, <2>2, <3>1
         DEF HookEnds, EnterReturns, EnterThrows, ExitEnds, DetachEnds, AttachReturns,
             AttachThrows, DeletedEnds, StartReturns, StartThrows, StopEnds, ThenDispose
  <2>3. ASSUME EngineStep PROVE \/ lifecycle' = lifecycle
                                \/ lifecycle' = "disposed" /\ stack' = <<>> /\ Ended
    BY <1>b, <2>3 DEF EngineStep, RollbackNext, RollbackSelf, RollbackDone, ClearNext,
                ClearedThenPush, ClearedOnly, DisposeEnds
  <2>4. ASSUME Start PROVE lifecycle = "created" /\ lifecycle' = "starting"
    BY <2>4 DEF Start
  <2>5. ASSUME NEW s \in States, ScriptEnds(s) PROVE lifecycle' = lifecycle
    BY <2>5 DEF ScriptEnds
  <2>6. CASE UNCHANGED vars
    BY <2>6 DEF vars
  <2> QED BY <2>1, <2>2, <2>3, <2>4, <2>5, <2>6 DEF Next
<1> QED
  BY <1>0, <1>1 DEF Ended, EndedNext, Lifecycle!Next, Lifecycle!Start, Lifecycle!Run,
                    Lifecycle!Stop, Lifecycle!Dispose

\* How the call stack may change: no frame appears in it that starts a disposal, but in
\* a step that sets "stopping".
NewFrames ==
  \A i \in 1..Len(calls') :
    \/ calls'[i].op # "dispose"
    \/ lifecycle' = "stopping"
    \/ i \in 1..Len(calls) /\ calls[i].op = "dispose"

LEMMA EnterFrames ==
  ASSUME CallsOK, NEW f, Good(f), Enter(f), f.op # "dispose" \/ lifecycle' = "stopping"
  PROVE  NewFrames
<1>1. /\ Len(calls') = Len(calls) + 1 /\ Len(calls) \in Nat
      /\ \A i \in 1..Len(calls) : calls'[i] = calls[i]
      /\ calls'[Len(calls) + 1] = f
  BY AppendProperties, LenProperties DEF CallsOK, Enter, Good
<1>2. \A i \in 1..Len(calls') : i \in 1..Len(calls) \/ i = Len(calls) + 1
  BY <1>1
<1> QED BY <1>1, <1>2 DEF NewFrames

LEMMA BecomeFrames ==
  ASSUME CallsOK, calls # <<>>, NEW f, Good(f), Become(f),
         f.op # "dispose" \/ lifecycle' = "stopping"
  PROVE  NewFrames
<1>1. Len(calls) \in 1..Len(calls)
  BY TopType DEF CallsOK
<1>2. /\ Len(calls') = Len(calls)
      /\ \A i \in 1..Len(calls) : calls'[i] = IF i = Len(calls) THEN f ELSE calls[i]
  BY <1>1, ExceptSeq DEF CallsOK, Become, Good
<1> QED BY <1>2 DEF NewFrames

LEMMA RemoveFrames ==
  ASSUME CallsOK, NEW s \in States, RemoveState(s)
  PROVE  NewFrames
<1>1. Good(Call("onExit", s)) /\ Call("onExit", s).op # "dispose"
  BY NewCallOK DEF UserOps, Call, CallAt
<1> QED BY <1>1, EnterFrames DEF RemoveState

LEMMA LeaveNewFrames ==
  ASSUME CallsOK, calls # <<>>, NEW threw, Leave(threw)
  PROVE  NewFrames
  BY LeaveFrames DEF CallsOK, NewFrames

LEMMA UserCallFrames ==
  ASSUME DataOK, CallsOK, UserCall
  PROVE  NewFrames
<1>1. ASSUME NEW op \in UserOps, NEW s \in States, NEW n \in Nat,
             Enter(CallAt(op, s, n)) \/ Enter(Call(op, s))
      PROVE  NewFrames
  <2>1. /\ Good(CallAt(op, s, n)) /\ CallAt(op, s, n).op = op
        /\ Good(Call(op, s)) /\ Call(op, s).op = op /\ op # "dispose"
    BY NewCallOK DEF UserOps, Call, CallAt
  <2> QED BY <1>1, <2>1, EnterFrames
<1>2. ASSUME NEW s \in States, PushState(s) PROVE NewFrames
  BY <1>1, <1>2, LenProperties DEF PushState, UserOps, DataOK
<1>3. ASSUME PopState PROVE NewFrames
  BY <1>3, FrontFacts, RemoveFrames DEF PopState, DataOK
<1>4. ASSUME NEW s \in States, DeleteState(s) PROVE NewFrames
  BY <1>4, RemoveFrames DEF DeleteState
<1>5. ASSUME NEW s \in States, ResetState(s) PROVE NewFrames
  <2>1. Good(CallAt("reset", s, 0)) /\ CallAt("reset", s, 0).op # "dispose"
    BY NewCallOK DEF EngineOps, CallAt
  <2> QED BY <1>5, <2>1, EnterFrames DEF ResetState
<1>6. ASSUME NEW t \in States, NEW s \in States, ReplaceFrom(t, s) PROVE NewFrames
  <2>1. HeightOf(t) - 1 \in Nat
    BY <1>6 DEF ReplaceFrom, OnStack, HeightOf
  <2>2. /\ Good(CallAt("replace", s, HeightOf(t) - 1))
        /\ CallAt("replace", s, HeightOf(t) - 1).op # "dispose"
    BY <2>1, NewCallOK DEF EngineOps, CallAt
  <2> QED BY <1>6, <2>2, EnterFrames DEF ReplaceFrom
<1>7. ASSUME NEW s \in States, AddComponent(s) PROVE NewFrames
  BY <1>1, <1>7 DEF AddComponent, UserOps
<1>8. ASSUME NEW s \in States, DeleteComponent(s) PROVE NewFrames
  BY <1>1, <1>8 DEF DeleteComponent, UserOps
<1>9. ASSUME NEW s \in States, RunScript(s) PROVE NewFrames
  BY <1>9 DEF RunScript, NewFrames
<1>10. Good(Disposing) /\ Good(Call("onStop", NoState))
  BY NewCallOK DEF UserOps, EngineOps, StateOps, Disposing
<1>11. ASSUME Stop \/ DisposeAll PROVE NewFrames
  BY <1>10, <1>11, EnterFrames DEF Stop, DisposeAll
<1> QED BY <1>2, <1>3, <1>4, <1>5, <1>6, <1>7, <1>8, <1>9, <1>11 DEF UserCall

LEMMA ThenDisposeFrames ==
  ASSUME CallsOK, calls # <<>>, ThenDispose
  PROVE  NewFrames
<1>1. Good(Disposing)
  BY NewCallOK DEF EngineOps, StateOps, Disposing
<1> QED BY <1>1, BecomeFrames, LeaveNewFrames DEF ThenDispose

LEMMA HookEndsFrames ==
  ASSUME DataOK, CallsOK, HookEnds
  PROVE  NewFrames
<1>1. ASSUME NEW threw, calls # <<>>, Leave(threw) PROVE NewFrames
  BY <1>1, LeaveNewFrames
<1>2. ASSUME EnterThrows PROVE NewFrames
  <2>1. calls # <<>> /\ Top.state \in States /\ Top.at \in Nat
    BY <1>2, InState, TopType DEF EnterThrows, StateOps, CallsOK
  <2>2. Good(Rollback(Top.state, Top.at)) /\ Rollback(Top.state, Top.at).op # "dispose"
    BY <2>1, RollbackFrame DEF DataOK
  <2> QED BY <1>2, <2>1, <2>2, BecomeFrames DEF EnterThrows
<1>3. ASSUME NEW threw \in BOOLEAN, ExitEnds(threw) PROVE NewFrames
  <2>1. calls # <<>> /\ Top.state \in States
    BY <1>3, InState DEF ExitEnds, StateOps
  <2> DEFINE f == [Call("onDetach", Top.state) EXCEPT !.failed = threw]
  <2>2. Good(f) /\ f.op = "onDetach"
    BY <2>1, CallType DEF Good, Frame, UserOps, Call, CallAt
  <2>3. Become(f)
    BY <1>3 DEF ExitEnds
  <2> HIDE DEF f
  <2> QED BY <2>1, <2>2, <2>3, BecomeFrames
<1>4. ASSUME StartThrows PROVE NewFrames
  BY <1>4, ThenDisposeFrames DEF StartThrows, In, Running
<1>5. ASSUME NEW threw \in BOOLEAN, StopEnds(threw) PROVE NewFrames
  BY <1>5, ThenDisposeFrames DEF StopEnds, In, Running
<1>6. ASSUME NEW threw \in BOOLEAN, DetachEnds(threw) PROVE NewFrames
  BY <1>1, <1>6 DEF DetachEnds, In, Running
<1>7. ASSUME EnterReturns \/ AttachReturns \/ AttachThrows \/ DeletedEnds \/ StartReturns
      PROVE  NewFrames
  BY <1>1, <1>7 DEF EnterReturns, AttachReturns, AttachThrows, DeletedEnds, StartReturns,
                    In, Running
<1> QED BY <1>2, <1>3, <1>4, <1>5, <1>6, <1>7 DEF HookEnds

LEMMA EngineStepFrames ==
  ASSUME DataOK, CallsOK, EngineStep
  PROVE  NewFrames
<1>1. ASSUME NEW g, Good(g), g.op # "dispose", NEW f, Good(f), f.op # "dispose",
             calls # <<>>, BecomeThenEnter(g, f)
      PROVE  NewFrames
  <2>1. /\ Len(calls') = Len(calls) + 1 /\ Len(calls) \in Nat
        /\ \A i \in 1..Len(calls') :
             calls'[i] = IF i = Len(calls) + 1 THEN f
                         ELSE IF i = Len(calls) THEN g ELSE calls[i]
    BY <1>1, ReplaceThenEnterOK, LenProperties DEF CallsOK
  <2>2. \A i \in 1..Len(calls') : i = Len(calls) + 1 \/ i \in 1..Len(calls)
    BY <2>1
  <2> QED BY <1>1, <2>1, <2>2 DEF NewFrames
<1>2. ASSUME RollbackNext PROVE NewFrames
  <2>1. /\ calls # <<>> /\ Top.state \in States /\ Top.rest \in Seq(States)
        /\ Top \in Frame /\ Top.op = "rollback"
    BY <1>2, InState, TopType DEF RollbackNext, StateOps, CallsOK
  <2>2. Top.rest # <<>>
    BY <1>2, EmptySeq DEF RollbackNext
  <2>3. Last(Top.rest) \in States /\ Front(Top.rest) \in Seq(States)
    BY <2>1, <2>2, FrontFacts
  <2> DEFINE g == [Top EXCEPT !.rest = Front(@)]
             f == Call("onExit", Last(Top.rest))
  <2>4. Good(g) /\ g.op # "dispose"
    BY <2>1, <2>3 DEF Good, Frame
  <2>5. Good(f) /\ f.op # "dispose"
    BY <2>3, NewCallOK DEF UserOps, Call, CallAt
  <2>6. BecomeThenEnter(g, f)
    BY <1>2 DEF RollbackNext
  <2> HIDE DEF f, g
  <2> QED BY <1>1, <2>1, <2>4, <2>5, <2>6
<1>3. ASSUME RollbackSelf PROVE NewFrames
  <2>1. calls # <<>> /\ Top.state \in States
    BY <1>3, InState DEF RollbackSelf, StateOps
  <2>2. /\ Good(Call("failed", Top.state)) /\ Call("failed", Top.state).op # "dispose"
        /\ Good(Call("onDetach", Top.state)) /\ Call("onDetach", Top.state).op # "dispose"
    BY <2>1, NewCallOK DEF UserOps, EngineOps, Call, CallAt
  <2> QED BY <1>1, <1>3, <2>1, <2>2 DEF RollbackSelf
<1>4. ASSUME ClearNext PROVE NewFrames
  <2>1. calls # <<>> /\ Top.at \in Nat
    BY <1>4, TopType DEF ClearNext, Clearing, Running, CallsOK
  <2>2. stack # <<>>
    BY <1>4, <2>1, EmptySeq DEF ClearNext
  <2> QED BY <1>4, <2>2, FrontFacts, RemoveFrames DEF ClearNext, DataOK
<1>5. ASSUME ClearedThenPush PROVE NewFrames
  <2>1. calls # <<>> /\ Top.state \in States
    BY <1>5, TopType DEF ClearedThenPush, Running, CallsOK, FramesNameStates, StateOps
  <2>2. Good(CallAt("onEnter", Top.state, Len(stack)))
    BY <2>1, NewCallOK, LenProperties DEF UserOps, DataOK
  <2>3. CallAt("onEnter", Top.state, Len(stack)).op # "dispose"
    BY DEF CallAt
  <2> QED BY <1>5, <2>1, <2>2, <2>3, BecomeFrames DEF ClearedThenPush
<1>6. ASSUME RollbackDone \/ ClearedOnly \/ DisposeEnds PROVE NewFrames
  BY <1>6, LeaveNewFrames DEF RollbackDone, ClearedOnly, DisposeEnds, In, Running
<1> QED BY <1>2, <1>3, <1>4, <1>5, <1>6 DEF EngineStep

LEMMA LifeInvariant == Spec => []LifeInv
<1>1. Init => LifeInv
  BY EmptySeq DEF Init, LifeInv, Fresh, DisposalsEnd
<1>2. ASSUME TypeInv, LifeInv, [Next]_vars PROVE LifeInv'
  <2>1. NewFrames
    <3>1. DataOK /\ CallsOK
      BY <1>2, TypeInvSplit
    <3>2. ASSUME Start PROVE NewFrames
      <4>1. Good(Call("onStart", NoState)) /\ Call("onStart", NoState).op # "dispose"
        BY NewCallOK DEF UserOps, StateOps, Call, CallAt
      <4> QED BY <3>1, <3>2, <4>1, EnterFrames DEF Start
    <3>3. ASSUME calls' = calls PROVE NewFrames
      BY <3>3 DEF NewFrames
    <3> QED BY <1>2, <3>1, <3>2, <3>3, UserCallFrames, HookEndsFrames, EngineStepFrames
            DEF Next, ScriptEnds, vars
  <2>2. DisposalsEnd'
    BY <1>2, <2>1, LifecycleStep DEF NewFrames, DisposalsEnd, Ended, EndedNext, LifeInv
  <2>3. Fresh'
    <3> SUFFICES ASSUME lifecycle' = "created"
                 PROVE  calls' = <<>> /\ stack' = <<>> /\ components' = {}
      BY DEF Fresh
    <3>1. lifecycle = "created" /\ calls = <<>> /\ stack = <<>> /\ components = {}
      BY <1>2, LifecycleStep DEF LifeInv, Fresh
    <3>2. ~HookEnds /\ ~EngineStep
      BY <3>1 DEF HookEnds, EnterReturns, EnterThrows, ExitEnds, DetachEnds, AttachReturns,
         AttachThrows, DeletedEnds, StartReturns, StartThrows, StopEnds, EngineStep,
         RollbackNext, RollbackSelf, RollbackDone, ClearNext, ClearedThenPush, ClearedOnly,
         DisposeEnds, Clearing, In, Running
    <3>3. ASSUME UserCall PROVE UNCHANGED <<calls, stack, components>>
      <4>1. Len(stack) = 0
        BY <3>1
      <4> QED BY <3>1, <3>3, <4>1 DEF UserCall, PushState, PopState, DeleteState, ResetState,
            ReplaceFrom, AddComponent, DeleteComponent, RunScript, Stop, DisposeAll,
            IsActive, Registered, OnStack
    <3>4. ~Start
      BY DEF Start
    <3> QED BY <1>2, <3>1, <3>2, <3>3, <3>4 DEF Next, ScriptEnds, vars
  <2> QED BY <2>2, <2>3 DEF LifeInv
<1> QED BY <1>1, <1>2, TypeInvariant, PTL DEF Spec

\* A game session goes through the phases of GameLifecycle, in order.
THEOREM SessionIsALifecycle == Spec => ImplementsLifecycle
<1>1. Init => Lifecycle!Init
  BY DEF Init, Lifecycle!Init
<1>2. TypeInv /\ LifeInv /\ [Next]_vars => [Lifecycle!Next]_lifecycle
  BY LifecycleStep
<1> QED
  BY <1>1, <1>2, TypeInvariant, LifeInvariant, PTL DEF Spec, ImplementsLifecycle, Lifecycle!Spec

\* A disposed game has no state, and none can be pushed into it.
THEOREM DisposedStaysEmpty == Spec => []DisposedIsEmpty
<1>1. Init => DisposedIsEmpty
  BY DEF Init, DisposedIsEmpty
<1>2. ASSUME TypeInv, LifeInv, [Next]_vars, DisposedIsEmpty PROVE DisposedIsEmpty'
  <2> SUFFICES ASSUME lifecycle' = "disposed" PROVE stack' = <<>>
    BY DEF DisposedIsEmpty
  <2>1. CASE lifecycle # "disposed"
    BY <1>2, <2>1, LifecycleStep
  <2>2. CASE lifecycle = "disposed"
    <3>1. stack = <<>> /\ Len(stack) = 0
      BY <1>2, <2>2 DEF DisposedIsEmpty
    <3>2. ASSUME UserCall PROVE stack' = stack
      BY <2>2, <3>1, <3>2 DEF UserCall, PushState, PopState, DeleteState, ResetState,
         ReplaceFrom, AddComponent, DeleteComponent, RunScript, Stop, DisposeAll,
         IsActive, OnStack
    <3>3. ASSUME HookEnds PROVE stack' = stack
      <4>1. ASSUME EnterThrows PROVE stack' = stack
        <5>1. Top.at \in Nat
          BY <1>2, <4>1, TopType DEF EnterThrows, In, Running, TypeInv, TypeOK
        <5> QED BY <3>1, <4>1, <5>1 DEF EnterThrows, Below
      <4> QED BY <3>3, <4>1 DEF HookEnds, EnterReturns, ExitEnds, DetachEnds,
              AttachReturns, AttachThrows, DeletedEnds, StartReturns, StartThrows, StopEnds
    <3>4. ASSUME EngineStep PROVE stack' = stack
      <4>1. ASSUME ClearNext PROVE FALSE
        <5>1. Top.at \in Nat
          BY <1>2, <4>1, TopType DEF ClearNext, Clearing, Running, TypeInv, TypeOK
        <5> QED BY <3>1, <4>1, <5>1 DEF ClearNext
      <4> QED BY <2>2, <3>4, <4>1 DEF EngineStep, RollbackNext, RollbackSelf, RollbackDone,
              ClearedThenPush, ClearedOnly, DisposeEnds, IsActive
    <3> QED BY <1>2, <3>1, <3>2, <3>3, <3>4 DEF Next, Start, ScriptEnds, vars
  <2> QED BY <2>1, <2>2
<1> QED BY <1>1, <1>2, TypeInvariant, LifeInvariant, PTL DEF Spec

-----------------------------------------------------------------------------
(* The stack holds live states only. *)

\* Constructed, and not on the stack: such a state never comes back.
Outside(s) == phase[s] # "unborn" /\ ~OnStack(s)

LeavingOps == {"onExit", "onDetach", "rollback", "failed"}

\* A frame that cleans up after a state works on one outside the stack, and so are
\* the states a rollback has spliced off.
Off(f) ==
  f.op \in LeavingOps =>
    /\ Outside(f.state)
    /\ f.op = "rollback" => \A j \in 1..Len(f.rest) : Outside(f.rest[j])

OffStack == \A i \in 1..Len(calls) : Off(calls[i])

\* The same of the next state, for a state or a frame of this one.
NotLeft(s) == \A i \in 1..Len(stack') : stack'[i] # s

OutsideNext(s) == phase'[s] # "unborn" /\ NotLeft(s)

OffNext(f) ==
  f.op \in LeavingOps =>
    /\ OutsideNext(f.state)
    /\ f.op = "rollback" => \A j \in 1..Len(f.rest) : OutsideNext(f.rest[j])

OutsideStays == \A s \in States : Outside(s) => OutsideNext(s)

\* The stack only changes by losing states and by getting an unborn one on top.
StackShrinks ==
  \A i \in 1..Len(stack') : \E j \in 1..Len(stack) : stack'[i] = stack[j]

LEMMA PushStack ==
  ASSUME DataOK, NEW s \in States, Push(s)
  PROVE  /\ Len(stack') = Len(stack) + 1 /\ Len(stack) \in Nat
         /\ \A i \in 1..Len(stack) : stack'[i] = stack[i]
         /\ stack'[Len(stack) + 1] = s
         /\ \A i \in 1..Len(stack') : i \in 1..Len(stack) \/ i = Len(stack) + 1
  BY AppendProperties, LenProperties DEF DataOK, Push

\* A step that only drops states from the stack keeps the states outside outside.
LEMMA ShrinkKeepsOutside ==
  ASSUME StackShrinks, NEW s \in States, Outside(s), phase'[s] # "unborn"
  PROVE  OutsideNext(s)
  BY DEF StackShrinks, Outside, OutsideNext, NotLeft, OnStack

LEMMA PushKeepsOutside ==
  ASSUME DataOK, NEW t \in States, Unborn(t), Push(t), NEW s \in States, Outside(s)
  PROVE  OutsideNext(s)
<1>1. s # t
  BY DEF Outside, Unborn
<1>2. phase'[s] = phase[s]
  BY <1>1 DEF Push, DataOK
<1> QED BY <1>1, <1>2, PushStack DEF Outside, OutsideNext, NotLeft, OnStack

\* The stack after a pop, a deletion or a splice.
LEMMA FrontShrinks ==
  ASSUME DataOK, stack # <<>>, stack' = Front(stack), Distinct(stack)
  PROVE  /\ StackShrinks /\ Distinct(stack') /\ Last(stack) \in States
         /\ OnStack(Last(stack)) /\ NotLeft(Last(stack))
<1>1. /\ Len(stack') = Len(stack) - 1 /\ Len(stack) \in 1..Len(stack)
      /\ Last(stack) \in States /\ Last(stack) = stack[Len(stack)]
      /\ \A i \in 1..Len(stack') : stack'[i] = stack[i] /\ i \in 1..Len(stack)
  BY FrontFacts DEF DataOK
<1>2. \A i \in 1..Len(stack') : i # Len(stack)
  BY <1>1
<1>3. \A i \in 1..Len(stack') : stack'[i] # Last(stack)
  BY <1>1, <1>2 DEF Distinct
<1>4. StackShrinks
  BY <1>1 DEF StackShrinks
<1>5. Distinct(stack')
  <2> SUFFICES ASSUME NEW i \in 1..Len(stack'), NEW j \in 1..Len(stack'), stack'[i] = stack'[j]
               PROVE  i = j
    BY DEF Distinct
  <2>1. stack[i] = stack[j] /\ i \in 1..Len(stack) /\ j \in 1..Len(stack)
    BY <1>1
  <2> QED BY <2>1 DEF Distinct
<1>6. OnStack(Last(stack)) /\ NotLeft(Last(stack))
  BY <1>1, <1>3 DEF OnStack, NotLeft
<1> QED BY <1>1, <1>4, <1>5, <1>6

LEMMA RemoveAtShrinks ==
  ASSUME DataOK, NEW k \in 1..Len(stack), stack' = RemoveAt(stack, k), Distinct(stack)
  PROVE  StackShrinks /\ Distinct(stack') /\ NotLeft(stack[k])
<1>0. Len(stack) \in Nat
  BY LenProperties DEF DataOK
<1>1. /\ Len(stack') = Len(stack) - 1
      /\ \A i \in 1..(Len(stack) - 1) :
           stack'[i] = IF i < k THEN stack[i] ELSE stack[i + 1]
  BY RemoveAtFacts DEF DataOK
<1> DEFINE from(i) == IF i < k THEN i ELSE i + 1
<1>2. \A i \in 1..Len(stack') :
        from(i) \in 1..Len(stack) /\ from(i) # k /\ stack'[i] = stack[from(i)]
  BY <1>0, <1>1
<1>3. \A i, j \in 1..Len(stack') : from(i) = from(j) => i = j
  BY <1>0, <1>1
<1> HIDE DEF from
<1>4. StackShrinks
  BY <1>2 DEF StackShrinks
<1>5. Distinct(stack')
  <2> SUFFICES ASSUME NEW i \in 1..Len(stack'), NEW j \in 1..Len(stack'), stack'[i] = stack'[j]
               PROVE  i = j
    BY DEF Distinct
  <2>1. /\ stack[from(i)] = stack[from(j)]
        /\ from(i) \in 1..Len(stack) /\ from(j) \in 1..Len(stack)
    BY <1>2
  <2>2. from(i) = from(j)
    BY <2>1 DEF Distinct
  <2> QED BY <1>3, <2>2
<1>6. ASSUME NEW i \in 1..Len(stack') PROVE stack'[i] # stack[k]
  <2>1. from(i) \in 1..Len(stack) /\ from(i) # k /\ stack'[i] = stack[from(i)]
    BY <1>2
  <2> QED BY <2>1 DEF Distinct
<1> QED BY <1>4, <1>5, <1>6 DEF NotLeft

LEMMA BelowShrinks ==
  ASSUME DataOK, NEW n \in Nat, stack' = Below(n), Distinct(stack)
  PROVE  /\ StackShrinks /\ Distinct(stack')
         /\ \A i \in 1..Len(Above(n)) : OnStack(Above(n)[i]) /\ NotLeft(Above(n)[i])
<1>1. /\ Len(Below(n)) \in Nat /\ Len(stack) \in Nat
      /\ \A i \in 1..Len(Below(n)) : Below(n)[i] = stack[i] /\ i \in 1..Len(stack)
      /\ \A i \in 1..Len(Above(n)) :
           /\ Above(n)[i] = stack[n + i] /\ n + i \in 1..Len(stack)
           /\ n + i > Len(Below(n))
  BY SpliceFacts DEF DataOK
<1>a. StackShrinks
  BY <1>1 DEF StackShrinks
<1>b. Distinct(stack')
  <2> SUFFICES ASSUME NEW i \in 1..Len(stack'), NEW j \in 1..Len(stack'), stack'[i] = stack'[j]
               PROVE  i = j
    BY DEF Distinct
  <2>1. stack[i] = stack[j] /\ i \in 1..Len(stack) /\ j \in 1..Len(stack)
    BY <1>1
  <2> QED BY <2>1 DEF Distinct
<1>2. StackShrinks /\ Distinct(stack')
  BY <1>a, <1>b
<1>3. ASSUME NEW i \in 1..Len(Above(n)), NEW j \in 1..Len(stack')
      PROVE  stack'[j] # Above(n)[i]
  <2>1. j # n + i /\ j \in 1..Len(stack) /\ stack'[j] = stack[j]
    BY <1>1
  <2> QED BY <1>1, <2>1 DEF Distinct
<1>4. ASSUME NEW i \in 1..Len(Above(n)) PROVE OnStack(Above(n)[i]) /\ NotLeft(Above(n)[i])
  BY <1>1, <1>3 DEF OnStack, NotLeft
<1> QED BY <1>2, <1>4

StackInv == StackIsLive /\ OffStack

\* Frames keep their states outside while the states outside stay outside.
LEMMA OffStays ==
  ASSUME NEW f, Good(f), Off(f), OutsideStays
  PROVE  OffNext(f)
<1> SUFFICES ASSUME f.op \in LeavingOps
             PROVE  /\ OutsideNext(f.state)
                    /\ f.op = "rollback" => \A j \in 1..Len(f.rest) : OutsideNext(f.rest[j])
  BY DEF OffNext
<1>1. f.state \in States
  BY DEF Good, LeavingOps, StateOps
<1>2. \A j \in 1..Len(f.rest) : f.rest[j] \in States
  BY ElementOfSeq DEF Good, Frame
<1> QED BY <1>1, <1>2 DEF Off, OutsideStays

LEMMA FramesStayOff ==
  ASSUME CallsOK, OffStack, OutsideStays, NEW i \in 1..Len(calls)
  PROVE  OffNext(calls[i])
<1>1. Good(calls[i]) /\ Off(calls[i])
  BY ElementOfSeq DEF CallsOK, FramesNameStates, Good, OffStack
<1> QED BY <1>1, OffStays

LEMMA OffStackNext ==
  ASSUME \A i \in 1..Len(calls') : OffNext(calls'[i])
  PROVE  OffStack'
  BY DEF OffStack, Off, OffNext, Outside, OutsideNext, OnStack, NotLeft

\* The call stack after a call, a tail call, both, and a return.
LEMMA OffEnter ==
  ASSUME CallsOK, OffStack, OutsideStays, NEW f, Good(f), Enter(f), OffNext(f)
  PROVE  OffStack'
<1>1. /\ Len(calls') = Len(calls) + 1 /\ Len(calls) \in Nat
      /\ \A i \in 1..Len(calls) : calls'[i] = calls[i]
      /\ calls'[Len(calls) + 1] = f
  BY AppendProperties, LenProperties DEF CallsOK, Enter, Good
<1>2. ASSUME NEW i \in 1..Len(calls') PROVE OffNext(calls'[i])
  <2>1. CASE i = Len(calls) + 1
    BY <1>1, <2>1
  <2>2. CASE i # Len(calls) + 1
    <3>1. i \in 1..Len(calls) /\ calls'[i] = calls[i]
      BY <1>1, <2>2
    <3>2. OffNext(calls[i])
      BY <3>1, FramesStayOff
    <3> QED BY <3>1, <3>2
  <2> QED BY <2>1, <2>2
<1> QED BY <1>2, OffStackNext

LEMMA OffBecome ==
  ASSUME CallsOK, OffStack, OutsideStays, calls # <<>>, NEW f, Good(f), Become(f), OffNext(f)
  PROVE  OffStack'
<1>1. Len(calls) \in 1..Len(calls)
  BY TopType DEF CallsOK
<1>2. /\ Len(calls') = Len(calls)
      /\ \A i \in 1..Len(calls) : calls'[i] = IF i = Len(calls) THEN f ELSE calls[i]
  BY <1>1, ExceptSeq DEF CallsOK, Become, Good
<1>3. ASSUME NEW i \in 1..Len(calls') PROVE OffNext(calls'[i])
  <2>1. i \in 1..Len(calls) /\ OffNext(calls[i])
    BY <1>2, FramesStayOff
  <2>2. calls'[i] = f \/ calls'[i] = calls[i]
    BY <1>2, <2>1
  <2> QED BY <2>1, <2>2
<1> QED BY <1>3, OffStackNext

LEMMA OffBecomeThenEnter ==
  ASSUME CallsOK, OffStack, OutsideStays, calls # <<>>,
         NEW g, Good(g), NEW f, Good(f), BecomeThenEnter(g, f), OffNext(g), OffNext(f)
  PROVE  OffStack'
<1>1. /\ Len(calls') = Len(calls) + 1 /\ Len(calls) \in Nat
      /\ \A i \in 1..Len(calls') :
           calls'[i] = IF i = Len(calls) + 1 THEN f
                       ELSE IF i = Len(calls) THEN g ELSE calls[i]
  BY ReplaceThenEnterOK, LenProperties DEF CallsOK
<1>2. ASSUME NEW i \in 1..Len(calls') PROVE OffNext(calls'[i])
  <2>1. CASE i = Len(calls) + 1 \/ i = Len(calls)
    <3>1. calls'[i] = f \/ calls'[i] = g
      BY <1>1, <2>1
    <3> QED BY <3>1
  <2>2. CASE ~(i = Len(calls) + 1 \/ i = Len(calls))
    <3>1. i \in 1..Len(calls) /\ calls'[i] = calls[i]
      BY <1>1, <2>2
    <3>2. OffNext(calls[i])
      BY <3>1, FramesStayOff
    <3> QED BY <3>1, <3>2
  <2> QED BY <2>1, <2>2
<1> QED BY <1>2, OffStackNext

LEMMA OffLeave ==
  ASSUME CallsOK, OffStack, OutsideStays, calls # <<>>, NEW threw, Leave(threw)
  PROVE  OffStack'
<1>1. \A i \in 1..Len(calls') :
        /\ i \in 1..Len(calls)
        /\ calls'[i].op = calls[i].op
        /\ calls'[i].state = calls[i].state
        /\ calls'[i].rest = calls[i].rest
  BY LeaveFrames DEF CallsOK
<1>2. ASSUME NEW i \in 1..Len(calls') PROVE OffNext(calls'[i])
  <2>1. OffNext(calls[i])
    BY <1>1, FramesStayOff
  <2> QED BY <1>1, <2>1 DEF OffNext
<1> QED BY <1>2, OffStackNext

\* Frames of the other ops clean up after nobody.
LEMMA NotLeaving ==
  ASSUME NEW op, op \notin LeavingOps, NEW s, NEW n
  PROVE  OffNext(Call(op, s)) /\ OffNext(CallAt(op, s, n))
  BY DEF OffNext, Call, CallAt

\* A step that leaves the stack alone and moves on a state outside it, if any.
LEMMA MarkOutside ==
  ASSUME DataOK, StackIsLive, stack' = stack,
         NEW s \in States, Outside(s), NEW v, v # "unborn", phase' = [phase EXCEPT ![s] = v]
  PROVE  StackIsLive' /\ OutsideStays /\ OutsideNext(s)
<1>1. \A t \in States : phase'[t] = IF t = s THEN v ELSE phase[t]
  BY DEF DataOK
<1>2. \A i \in 1..Len(stack) : stack[i] # s /\ stack[i] \in States
  BY ElementOfSeq DEF Outside, OnStack, DataOK
<1>3. StackIsLive'
  BY <1>1, <1>2 DEF StackIsLive, Distinct
<1>4. OutsideStays /\ OutsideNext(s)
  BY <1>1 DEF OutsideStays, OutsideNext, Outside, OnStack, NotLeft
<1> QED BY <1>3, <1>4

LEMMA SameStack ==
  ASSUME StackIsLive, stack' = stack, phase' = phase
  PROVE  StackIsLive' /\ OutsideStays
  BY DEF StackIsLive, Distinct, OutsideStays, OutsideNext, Outside, OnStack, NotLeft

LEMMA PushLive ==
  ASSUME DataOK, StackIsLive, NEW s \in States, Unborn(s), Push(s)
  PROVE  StackIsLive' /\ OutsideStays
<1>1. /\ Len(stack') = Len(stack) + 1 /\ Len(stack) \in Nat
      /\ \A i \in 1..Len(stack) : stack'[i] = stack[i]
      /\ stack'[Len(stack) + 1] = s
      /\ \A i \in 1..Len(stack') : i \in 1..Len(stack) \/ i = Len(stack) + 1
  BY PushStack
<1>2. \A t \in States : phase'[t] = IF t = s THEN "entering" ELSE phase[t]
  BY DEF Push, DataOK
<1>3. \A i \in 1..Len(stack) : stack[i] \in States /\ stack[i] # s /\ phase[stack[i]] \in Live
  BY ElementOfSeq DEF StackIsLive, Unborn, Live, DataOK
<1>4. \A i \in 1..Len(stack') : phase'[stack'[i]] \in Live
  BY <1>1, <1>2, <1>3 DEF Live
<1>5. Distinct(stack')
  <2> SUFFICES ASSUME NEW i \in 1..Len(stack'), NEW j \in 1..Len(stack'), stack'[i] = stack'[j]
               PROVE  i = j
    BY DEF Distinct
  <2>1. CASE i \in 1..Len(stack) /\ j \in 1..Len(stack)
    <3>1. stack[i] = stack[j]
      BY <1>1, <2>1
    <3> QED BY <2>1, <3>1 DEF StackIsLive, Distinct
  <2>2. CASE ~(i \in 1..Len(stack) /\ j \in 1..Len(stack))
    BY <1>1, <1>3, <2>2
  <2> QED BY <2>1, <2>2
<1>6. OutsideStays
  BY PushKeepsOutside DEF OutsideStays
<1> QED BY <1>4, <1>5, <1>6 DEF StackIsLive

\* A live state s is taken off the stack and its onExit is called.
LEMMA RemoveLive ==
  ASSUME DataOK, CallsOK, StackInv, NEW s \in States, OnStack(s), RemoveState(s),
         StackShrinks, Distinct(stack'), NotLeft(s)
  PROVE  StackInv'
<1>1. \A t \in States : phase'[t] = IF t = s THEN "leaving" ELSE phase[t]
  BY DEF RemoveState, DataOK
<1>2. \A i \in 1..Len(stack') : phase'[stack'[i]] \in Live
  <2> TAKE i \in 1..Len(stack')
  <2>1. PICK j \in 1..Len(stack) : stack'[i] = stack[j]
    BY DEF StackShrinks
  <2>2. stack[j] \in States /\ stack[j] # s /\ phase[stack[j]] \in Live
    BY <2>1, ElementOfSeq DEF NotLeft, StackInv, StackIsLive, DataOK
  <2> QED BY <1>1, <2>1, <2>2
<1>3. StackIsLive'
  BY <1>2 DEF StackIsLive
<1>4. OutsideStays /\ OutsideNext(s)
  BY <1>1 DEF OutsideStays, OutsideNext, Outside, OnStack, NotLeft, StackShrinks
<1>5. Good(Call("onExit", s)) /\ OffNext(Call("onExit", s))
  BY <1>4, NewCallOK DEF UserOps, OffNext, Call, CallAt
<1>6. OffStack'
  BY <1>4, <1>5, OffEnter DEF RemoveState, StackInv
<1> QED BY <1>3, <1>6 DEF StackInv

\* A running frame that cleans up after a state.
LEMMA TopIsOff ==
  ASSUME CallsOK, OffStack, NEW op \in LeavingOps, In(op)
  PROVE  /\ calls # <<>> /\ Top \in Frame /\ Top.op = op
         /\ Top.state \in States /\ Outside(Top.state)
         /\ Top.rest \in Seq(States)
         /\ op = "rollback" => \A j \in 1..Len(Top.rest) : Outside(Top.rest[j])
<1>1. calls # <<>> /\ Top.op = op /\ Top.state \in States
  BY InState DEF LeavingOps, StateOps
<1>2. /\ Len(calls) \in 1..Len(calls) /\ Top = calls[Len(calls)]
      /\ Top \in Frame /\ Top.rest \in Seq(States)
  BY <1>1, TopType DEF CallsOK
<1> QED BY <1>1, <1>2 DEF OffStack, Off

LEMMA UserCallLive ==
  ASSUME DataOK, CallsOK, StackInv, UserCall
  PROVE  StackInv'
<1>1. ASSUME NEW s \in States, PushState(s) PROVE StackInv'
  <2>1. /\ Unborn(s) /\ Push(s) /\ Enter(CallAt("onEnter", s, Len(stack)))
        /\ Good(CallAt("onEnter", s, Len(stack)))
    BY <1>1, PushType, NewCallOK DEF PushState, UserOps
  <2>2. StackIsLive' /\ OutsideStays
    BY <2>1, PushLive DEF StackInv
  <2>3. OffNext(CallAt("onEnter", s, Len(stack)))
    BY NotLeaving DEF LeavingOps
  <2> QED BY <2>1, <2>2, <2>3, OffEnter DEF StackInv
<1>2. ASSUME PopState PROVE StackInv'
  BY <1>2, FrontShrinks, RemoveLive DEF PopState, StackInv, StackIsLive
<1>3. ASSUME NEW s \in States, DeleteState(s) PROVE StackInv'
  <2>1. HeightOf(s) \in 1..Len(stack) /\ stack[HeightOf(s)] = s
    BY <1>3 DEF DeleteState, OnStack, HeightOf
  <2>2. StackShrinks /\ Distinct(stack') /\ NotLeft(s)
    BY <1>3, <2>1, RemoveAtShrinks DEF DeleteState, StackInv, StackIsLive
  <2> QED BY <1>3, <2>2, RemoveLive DEF DeleteState
<1>4. ASSUME NEW f, Good(f), f.op \notin LeavingOps, Enter(f), stack' = stack, phase' = phase
      PROVE  StackInv'
  <2>1. StackIsLive' /\ OutsideStays
    BY <1>4, SameStack DEF StackInv
  <2>2. OffNext(f)
    BY <1>4 DEF OffNext
  <2> QED BY <1>4, <2>1, <2>2, OffEnter DEF StackInv
<1>5. ASSUME NEW s \in States, ResetState(s) PROVE StackInv'
  <2>1. Good(CallAt("reset", s, 0)) /\ CallAt("reset", s, 0).op \notin LeavingOps
    BY NewCallOK DEF EngineOps, LeavingOps, CallAt
  <2> QED BY <1>4, <1>5, <2>1 DEF ResetState
<1>6. ASSUME NEW t \in States, NEW s \in States, ReplaceFrom(t, s) PROVE StackInv'
  <2>1. HeightOf(t) - 1 \in Nat
    BY <1>6 DEF ReplaceFrom, OnStack, HeightOf
  <2> DEFINE f == CallAt("replace", s, HeightOf(t) - 1)
  <2>2. Good(f) /\ f.op \notin LeavingOps
    BY <2>1, NewCallOK DEF EngineOps, LeavingOps, CallAt
  <2>3. Enter(f) /\ stack' = stack /\ phase' = phase
    BY <1>6 DEF ReplaceFrom
  <2> HIDE DEF f
  <2> QED BY <1>4, <2>2, <2>3
<1>7. ASSUME NEW s \in States, AddComponent(s) PROVE StackInv'
  <2>1. Good(Call("onAttach", s)) /\ Call("onAttach", s).op \notin LeavingOps
    BY NewCallOK DEF UserOps, LeavingOps, Call, CallAt
  <2> QED BY <1>4, <1>7, <2>1 DEF AddComponent
<1>8. ASSUME NEW s \in States, DeleteComponent(s) PROVE StackInv'
  <2>1. Good(Call("deleted", s)) /\ Call("deleted", s).op \notin LeavingOps
    BY NewCallOK DEF UserOps, LeavingOps, Call, CallAt
  <2> QED BY <1>4, <1>8, <2>1 DEF DeleteComponent
<1>9. ASSUME NEW s \in States, RunScript(s) PROVE StackInv'
  BY <1>9 DEF RunScript, StackInv, StackIsLive, Distinct, OffStack, Off, Outside, OnStack
<1>10. Good(Disposing) /\ Disposing.op \notin LeavingOps
  BY NewCallOK DEF EngineOps, StateOps, LeavingOps, Disposing, CallAt
<1>11. ASSUME Stop PROVE StackInv'
  <2>1. Good(Call("onStop", NoState)) /\ Call("onStop", NoState).op \notin LeavingOps
    BY NewCallOK DEF UserOps, StateOps, LeavingOps, Call, CallAt
  <2> QED BY <1>4, <1>10, <1>11, <2>1 DEF Stop
<1>12. ASSUME DisposeAll PROVE StackInv'
  BY <1>4, <1>10, <1>12 DEF DisposeAll
<1> QED
  BY <1>1, <1>2, <1>3, <1>5, <1>6, <1>7, <1>8, <1>9, <1>11, <1>12 DEF UserCall

LEMMA HookEndsLive ==
  ASSUME DataOK, CallsOK, StackInv, HookEnds, ~ThrowsAfterMove
  PROVE  StackInv'
<1>1. ASSUME EnterReturns PROVE StackInv'
  <2>1. calls # <<>> /\ Top.state \in States
    BY <1>1, InState DEF EnterReturns, StateOps
  <2>2. /\ stack' = stack
        /\ \A t \in States : \/ phase'[t] = phase[t]
                             \/ phase[t] = "entering" /\ phase'[t] = "entered"
    BY <1>1, <2>1 DEF EnterReturns, DataOK
  <2>3. \A i \in 1..Len(stack) : stack[i] \in States
    BY ElementOfSeq DEF DataOK
  <2>4. StackIsLive'
    BY <2>2, <2>3 DEF StackInv, StackIsLive, Distinct, Live
  <2>5. OutsideStays
    BY <2>2 DEF OutsideStays, OutsideNext, Outside, OnStack, NotLeft
  <2>6. OffStack'
    BY <1>1, <2>1, <2>5, OffLeave DEF EnterReturns, StackInv
  <2> QED BY <2>4, <2>6 DEF StackInv
<1>2. ASSUME EnterThrows PROVE StackInv'
  <2>1. calls # <<>> /\ Top.state \in States /\ Top.at \in Nat /\ InPlace(Top)
    BY <1>2, InState, TopType DEF EnterThrows, StateOps, CallsOK
  <2>2. /\ StackShrinks /\ Distinct(stack') /\ phase' = phase
        /\ \A i \in 1..Len(Above(Top.at)) :
             OnStack(Above(Top.at)[i]) /\ NotLeft(Above(Top.at)[i])
    BY <1>2, <2>1, BelowShrinks DEF EnterThrows, StackInv, StackIsLive
  <2>3. \A i \in 1..Len(stack') : phase[stack'[i]] \in Live
    BY <2>2 DEF StackShrinks, StackInv, StackIsLive
  <2>4. StackIsLive'
    BY <2>2, <2>3 DEF StackIsLive
  <2>5. OutsideStays
    BY <2>2 DEF OutsideStays, OutsideNext, Outside, OnStack, NotLeft, StackShrinks
  <2>6. \A i \in 1..Len(Above(Top.at)) : OutsideNext(Above(Top.at)[i])
    BY <2>2 DEF OutsideNext, OnStack, StackInv, StackIsLive, Live
  <2>7. Top.state = Above(Top.at)[1] /\ 1 \in 1..Len(Above(Top.at))
    BY <2>1, RestStartsInPlace
  <2>8. OffNext(Rollback(Top.state, Top.at)) /\ Good(Rollback(Top.state, Top.at))
    BY <2>1, <2>6, <2>7, RollbackFrame DEF OffNext, DataOK
  <2>9. OffStack'
    BY <1>2, <2>1, <2>5, <2>8, OffBecome DEF EnterThrows, StackInv
  <2> QED BY <2>4, <2>9 DEF StackInv
<1>3. ASSUME NEW threw \in BOOLEAN, ExitEnds(threw) PROVE StackInv'
  <2>1. calls # <<>> /\ Top.state \in States /\ Outside(Top.state)
    BY <1>3, TopIsOff DEF ExitEnds, LeavingOps, StackInv
  <2>2. StackIsLive' /\ OutsideStays /\ OutsideNext(Top.state)
    BY <1>3, <2>1, MarkOutside DEF ExitEnds, Clean, StackInv
  <2> DEFINE f == [Call("onDetach", Top.state) EXCEPT !.failed = threw]
  <2>3. Good(f) /\ f.op = "onDetach" /\ f.state = Top.state
    BY <2>1, CallType DEF Good, Frame, UserOps, Call, CallAt
  <2>4. Become(f)
    BY <1>3 DEF ExitEnds
  <2> HIDE DEF f
  <2>5. OffNext(f)
    BY <2>2, <2>3 DEF OffNext
  <2>6. OffStack'
    BY <2>1, <2>2, <2>3, <2>4, <2>5, OffBecome DEF StackInv
  <2> QED BY <2>2, <2>6 DEF StackInv
<1>4. ASSUME NEW threw \in BOOLEAN, DetachEnds(threw) PROVE StackInv'
  <2>1. calls # <<>> /\ Top.state \in States /\ Outside(Top.state)
    BY <1>4, TopIsOff DEF DetachEnds, LeavingOps, StackInv
  <2>2. StackIsLive' /\ OutsideStays
    BY <1>4, <2>1, MarkOutside DEF DetachEnds, StackInv
  <2>3. OffStack'
    BY <1>4, <2>1, <2>2, OffLeave DEF DetachEnds, StackInv
  <2> QED BY <2>2, <2>3 DEF StackInv
<1>5. ASSUME NEW threw, calls # <<>>, Leave(threw), stack' = stack, phase' = phase
      PROVE  StackInv'
  BY <1>5, SameStack, OffLeave DEF StackInv
<1>6. ASSUME calls # <<>>, ThenDispose, stack' = stack, phase' = phase PROVE StackInv'
  <2>1. Good(Disposing) /\ OffNext(Disposing)
    BY NewCallOK, NotLeaving DEF EngineOps, StateOps, LeavingOps, Disposing
  <2>2. StackIsLive' /\ OutsideStays
    BY <1>6, SameStack DEF StackInv
  <2>3. CASE Become(Disposing)
    BY <1>6, <2>1, <2>2, <2>3, OffBecome DEF StackInv
  <2> QED BY <1>5, <1>6, <2>3 DEF ThenDispose
<1>7. ASSUME AttachReturns \/ AttachThrows \/ DeletedEnds \/ StartReturns PROVE StackInv'
  BY <1>5, <1>7 DEF AttachReturns, AttachThrows, DeletedEnds, StartReturns, In, Running
<1>8. ASSUME StartThrows PROVE StackInv'
  BY <1>6, <1>8 DEF StartThrows, In, Running
<1>9. ASSUME NEW threw \in BOOLEAN, StopEnds(threw) PROVE StackInv'
  BY <1>6, <1>9 DEF StopEnds, In, Running
<1> QED BY <1>1, <1>2, <1>3, <1>4, <1>7, <1>8, <1>9 DEF HookEnds

LEMMA EngineStepLive ==
  ASSUME DataOK, CallsOK, StackInv, EngineStep
  PROVE  StackInv'
<1>0. StackIsLive /\ OffStack
  BY DEF StackInv
<1>1. ASSUME RollbackNext PROVE StackInv'
  <2>1. /\ calls # <<>> /\ Top \in Frame /\ Top.op = "rollback"
        /\ Top.state \in States /\ Outside(Top.state) /\ Top.rest \in Seq(States)
        /\ \A j \in 1..Len(Top.rest) : Outside(Top.rest[j])
    BY <1>0, <1>1, TopIsOff DEF RollbackNext, LeavingOps
  <2>2. Top.rest # <<>>
    BY <1>1, EmptySeq DEF RollbackNext
  <2> DEFINE s == Last(Top.rest)
             g == [Top EXCEPT !.rest = Front(@)]
  <2>3. /\ s \in States /\ Outside(s)
        /\ Front(Top.rest) \in Seq(States)
        /\ \A j \in 1..Len(Front(Top.rest)) :
             Front(Top.rest)[j] \in States /\ Outside(Front(Top.rest)[j])
    <3>1. /\ Last(Top.rest) = Top.rest[Len(Top.rest)]
          /\ Len(Top.rest) \in 1..Len(Top.rest) /\ Last(Top.rest) \in States
      BY <2>1, <2>2, FrontFacts
    <3>2. /\ Front(Top.rest) \in Seq(States)
          /\ \A j \in 1..Len(Front(Top.rest)) :
               Front(Top.rest)[j] = Top.rest[j] /\ j \in 1..Len(Top.rest)
      BY <2>1, <2>2, FrontFacts
    <3>3. \A j \in 1..Len(Top.rest) : Top.rest[j] \in States
      BY <2>1, ElementOfSeq
    <3> QED BY <2>1, <3>1, <3>2, <3>3
  <2>4. StackIsLive' /\ OutsideStays
    BY <1>0, <1>1, <2>3, MarkOutside DEF RollbackNext
  <2>5. /\ Good(g) /\ g.op = "rollback" /\ g.state = Top.state
        /\ g.rest = Front(Top.rest)
    BY <2>1, <2>3 DEF Good, Frame
  <2>6. Good(Call("onExit", s))
    BY <2>3, NewCallOK DEF UserOps
  <2>7. BecomeThenEnter(g, Call("onExit", s))
    BY <1>1 DEF RollbackNext
  <2> HIDE DEF g, s
  <2>8. OffNext(g)
    BY <2>1, <2>3, <2>4, <2>5 DEF OffNext, OutsideStays
  <2>9. OffNext(Call("onExit", s))
    BY <2>3, <2>4 DEF OffNext, OutsideStays, Call, CallAt
  <2>10. OffStack'
    BY <1>0, <2>1, <2>4, <2>5, <2>6, <2>7, <2>8, <2>9, OffBecomeThenEnter
  <2> QED BY <2>4, <2>10 DEF StackInv
<1>2. ASSUME RollbackSelf PROVE StackInv'
  <2>1. calls # <<>> /\ Top.state \in States /\ Outside(Top.state)
    BY <1>0, <1>2, TopIsOff DEF RollbackSelf, LeavingOps
  <2>2. StackIsLive' /\ OutsideStays /\ OutsideNext(Top.state)
    BY <1>0, <1>2, <2>1, MarkOutside DEF RollbackSelf, Clean
  <2>3. Good(Call("failed", Top.state)) /\ Good(Call("onDetach", Top.state))
    BY <2>1, NewCallOK DEF UserOps, EngineOps
  <2>4. OffNext(Call("failed", Top.state)) /\ OffNext(Call("onDetach", Top.state))
    BY <2>2 DEF OffNext, Call, CallAt
  <2>5. OffStack'
    BY <1>0, <1>2, <2>1, <2>2, <2>3, <2>4, OffBecomeThenEnter DEF RollbackSelf
  <2> QED BY <2>2, <2>5 DEF StackInv
<1>3. ASSUME NEW threw, calls # <<>>, Leave(threw), stack' = stack, phase' = phase
      PROVE  StackInv'
  BY <1>0, <1>3, SameStack, OffLeave DEF StackInv
<1>4. ASSUME RollbackDone \/ ClearedOnly \/ DisposeEnds PROVE StackInv'
  BY <1>3, <1>4 DEF RollbackDone, ClearedOnly, DisposeEnds, In, Running
<1>5. ASSUME ClearNext PROVE StackInv'
  <2>1. calls # <<>> /\ Top.at \in Nat
    BY <1>5, TopType DEF ClearNext, Clearing, Running, CallsOK
  <2>2. stack # <<>>
    BY <1>5, <2>1, EmptySeq DEF ClearNext
  <2> QED BY <1>0, <1>5, <2>2, FrontShrinks, RemoveLive DEF ClearNext, StackIsLive
<1>6. ASSUME ClearedThenPush PROVE StackInv'
  <2>1. calls # <<>> /\ Top.state \in States
    BY <1>6, TopType DEF ClearedThenPush, Running, CallsOK, FramesNameStates, StateOps
  <2>2. /\ Push(Top.state) /\ Unborn(Top.state)
        /\ Become(CallAt("onEnter", Top.state, Len(stack)))
    BY <1>6 DEF ClearedThenPush
  <2>3. Good(CallAt("onEnter", Top.state, Len(stack)))
    BY <2>1, <2>2, PushType, NewCallOK DEF UserOps
  <2>4. StackIsLive' /\ OutsideStays
    BY <1>0, <2>1, <2>2, PushLive
  <2>5. OffNext(CallAt("onEnter", Top.state, Len(stack)))
    BY NotLeaving DEF LeavingOps
  <2>6. OffStack'
    BY <1>0, <2>1, <2>2, <2>3, <2>4, <2>5, OffBecome
  <2> QED BY <2>4, <2>6 DEF StackInv
<1> QED BY <1>1, <1>2, <1>4, <1>5, <1>6 DEF EngineStep

LEMMA StackStep ==
  ASSUME TypeInv, StackInv, [Next]_vars, ~ThrowsAfterMove
  PROVE  StackInv'
<1>0. DataOK /\ CallsOK /\ StackIsLive /\ OffStack
  BY TypeInvSplit DEF StackInv
<1>1. ASSUME Start PROVE StackInv'
  <2>1. Good(Call("onStart", NoState))
    BY NewCallOK DEF UserOps, StateOps
  <2>2. OffNext(Call("onStart", NoState))
    BY NotLeaving DEF LeavingOps
  <2>3. StackIsLive' /\ OutsideStays
    BY <1>0, <1>1, SameStack DEF Start
  <2>4. OffStack'
    BY <1>0, <1>1, <2>1, <2>2, <2>3, OffEnter DEF Start
  <2> QED BY <2>3, <2>4 DEF StackInv
<1>2. ASSUME calls' = calls, stack' = stack, phase' = phase PROVE StackInv'
  BY <1>0, <1>2 DEF StackInv, StackIsLive, Distinct, OffStack, Off, Outside, OnStack
<1>3. ASSUME NEW s \in States, ScriptEnds(s) PROVE StackInv'
  BY <1>2, <1>3 DEF ScriptEnds
<1>4. CASE UNCHANGED vars
  BY <1>2, <1>4 DEF vars
<1> QED
  BY <1>0, <1>1, <1>3, <1>4, UserCallLive, HookEndsLive, EngineStepLive DEF Next

\* With game code that does not throw from an onEnter whose state it already moved,
\* getState() and deleteState() only ever find live states, each once.
THEOREM StackStaysLive ==
  ASSUME ~ThrowsAfterMove
  PROVE  Spec => []StackIsLive
<1>1. Init => StackInv
  <2> SUFFICES ASSUME Init PROVE StackInv
    OBVIOUS
  <2>1. Len(stack) = 0 /\ Len(calls) = 0
    BY EmptySeq DEF Init
  <2> QED BY <2>1 DEF StackInv, StackIsLive, Distinct, OffStack
<1>2. TypeInv /\ StackInv /\ [Next]_vars => StackInv'
  BY StackStep
<1>3. StackInv => StackIsLive
  BY DEF StackInv
<1> QED BY <1>1, <1>2, <1>3, TypeInvariant, PTL DEF Spec

\* What hooks find on the stack is sound (GameEngine), unless an onEnter throws once its own
\* state was moved.
THEOREM StackStaysSound ==
  ASSUME ~ThrowsAfterMove
  PROVE  Spec => []StackIsSound
BY TypeCorrect, StackStaysLive, DisposedStaysEmpty, PTL DEF StackIsSound

-----------------------------------------------------------------------------
(* Nothing is lost: neither a state that was entered nor what a state holds. *)

Departed == {"leaving", "cleaning", "gone"}

CleanedUp == {"cleaning", "gone"}

\* A rollback still has live states to clean up, its own state first; an exit works on a
\* state that is leaving, a detach on one whose components are out of the map.
FrameSound(f) ==
  /\ f.op = "rollback" =>
       /\ 1 \in 1..Len(f.rest) /\ f.rest[1] = f.state
       /\ \A a \in 1..Len(f.rest) : phase[f.rest[a]] \in Live
  /\ f.op = "onExit" => phase[f.state] \in Departed
  /\ f.op = "onDetach" => phase[f.state] \in CleanedUp

FramesSound == \A i \in 1..Len(calls) : FrameSound(calls[i])

\* No two rollbacks, and no two places of one, wait for the same state.
PendingOnce ==
  \A i, k \in 1..Len(calls) :
    calls[i].op = "rollback" /\ calls[k].op = "rollback" =>
      \A a \in 1..Len(calls[i].rest), b \in 1..Len(calls[k].rest) :
        calls[i].rest[a] = calls[k].rest[b] => i = k /\ a = b

\* What a state held is out of its maps as soon as its cleanup says so, and stays out if
\* game code adds nothing to a state it has left.
Released ==
  ~AcquiresAfterExit =>
    \A s \in States :
      /\ phase[s] \in CleanedUp => s \notin components
      /\ phase[s] = "gone" => s \notin runners

FrameInv == FramesSound /\ PendingOnce

LeakInv == FrameInv /\ Released /\ NothingOrphaned

\* The frames of the next call stack that were there before, but for `failed`.
Kept(i) ==
  /\ i \in 1..Len(calls)
  /\ calls'[i].op = calls[i].op
  /\ calls'[i].state = calls[i].state
  /\ calls'[i].rest = calls[i].rest

\* A frame that rolls nothing back, and is sound in the next state.
SoundNext(f) ==
  /\ f.op # "rollback"
  /\ f.op = "onExit" => phase'[f.state] \in Departed
  /\ f.op = "onDetach" => phase'[f.state] \in CleanedUp

\* The call stack after a call, a tail call, both, and a return.
LEMMA EnterKeeps ==
  ASSUME CallsOK, NEW f, Good(f), Enter(f)
  PROVE  /\ \A i \in 1..Len(calls') : Kept(i) \/ calls'[i] = f
         /\ \A i \in 1..Len(calls) : i \in 1..Len(calls') /\ Kept(i)
<1>1. /\ Len(calls') = Len(calls) + 1 /\ Len(calls) \in Nat
      /\ \A i \in 1..Len(calls) : calls'[i] = calls[i]
      /\ calls'[Len(calls) + 1] = f
  BY AppendProperties, LenProperties DEF CallsOK, Enter, Good
<1>2. \A i \in 1..Len(calls') : i \in 1..Len(calls) \/ i = Len(calls) + 1
  BY <1>1
<1>3. \A i \in 1..Len(calls) : i \in 1..Len(calls')
  BY <1>1
<1> QED BY <1>1, <1>2, <1>3 DEF Kept

LEMMA BecomeKeeps ==
  ASSUME CallsOK, calls # <<>>, NEW f, Good(f), Become(f)
  PROVE  /\ Len(calls) \in 1..Len(calls') /\ calls'[Len(calls)] = f
         /\ Len(calls') = Len(calls) /\ Top = calls[Len(calls)]
         /\ \A i \in 1..Len(calls') : i # Len(calls) => Kept(i)
<1>1. Len(calls) \in 1..Len(calls) /\ Top = calls[Len(calls)]
  BY TopType DEF CallsOK
<1>2. /\ Len(calls') = Len(calls)
      /\ \A i \in 1..Len(calls) : calls'[i] = IF i = Len(calls) THEN f ELSE calls[i]
  BY <1>1, ExceptSeq DEF CallsOK, Become, Good
<1> QED BY <1>1, <1>2 DEF Kept

LEMMA BecomeThenEnterKeeps ==
  ASSUME CallsOK, calls # <<>>, NEW g, Good(g), NEW f, Good(f), BecomeThenEnter(g, f)
  PROVE  /\ Len(calls) \in 1..Len(calls) /\ Top = calls[Len(calls)]
         /\ Len(calls) \in 1..Len(calls') /\ calls'[Len(calls)] = g
         /\ \A i \in 1..Len(calls') : i # Len(calls) => Kept(i) \/ calls'[i] = f
         /\ \A i \in 1..Len(calls) : i # Len(calls) => i \in 1..Len(calls') /\ Kept(i)
<1>1. /\ Len(calls') = Len(calls) + 1 /\ Len(calls) \in Nat
      /\ \A i \in 1..Len(calls') :
           calls'[i] = IF i = Len(calls) + 1 THEN f
                       ELSE IF i = Len(calls) THEN g ELSE calls[i]
  BY ReplaceThenEnterOK, LenProperties DEF CallsOK
<1>2. Len(calls) \in 1..Len(calls) /\ Top = calls[Len(calls)]
  BY TopType DEF CallsOK
<1>3. \A i \in 1..Len(calls') : i = Len(calls) + 1 \/ i \in 1..Len(calls)
  BY <1>1
<1>4. \A i \in 1..Len(calls) : i \in 1..Len(calls') /\ i # Len(calls) + 1
  BY <1>1
<1> QED BY <1>1, <1>2, <1>3, <1>4 DEF Kept

LEMMA LeaveKeeps ==
  ASSUME CallsOK, calls # <<>>, NEW threw, Leave(threw)
  PROVE  /\ Len(calls) \in 1..Len(calls) /\ Top = calls[Len(calls)]
         /\ \A i \in 1..Len(calls') : Kept(i) /\ i # Len(calls)
         /\ \A i \in 1..Len(calls) : i # Len(calls) => i \in 1..Len(calls') /\ Kept(i)
<1>1. Len(calls) \in 1..Len(calls) /\ Top = calls[Len(calls)] /\ Len(calls) \in Nat
  BY TopType, LenProperties DEF CallsOK
<1>2. /\ Len(calls') = Len(calls) - 1
      /\ \A i \in 1..Len(calls') : Kept(i)
  BY LeaveFrames DEF CallsOK, Kept
<1>3. /\ \A i \in 1..Len(calls') : i # Len(calls)
      /\ \A i \in 1..Len(calls) : i # Len(calls) => i \in 1..Len(calls')
  BY <1>1, <1>2
<1> QED BY <1>1, <1>2, <1>3

\* A cleanup that has begun goes on.
PhasesMoveOn ==
  \A s \in States :
    /\ phase[s] \in Departed => phase'[s] \in Departed
    /\ phase[s] \in CleanedUp => phase'[s] \in CleanedUp

\* The rollback of frame i finds its states alive after the step.
PendingKept(i) ==
  calls[i].op = "rollback" =>
    \A a \in 1..Len(calls[i].rest) : phase'[calls[i].rest[a]] \in Live

NotPending(i, s) ==
  calls[i].op = "rollback" => \A a \in 1..Len(calls[i].rest) : calls[i].rest[a] # s

\* A frame keeps its hold on the states it works for.
LEMMA KeptIsSound ==
  ASSUME CallsOK, FramesSound, PhasesMoveOn, NEW i, Kept(i), PendingKept(i)
  PROVE  FrameSound(calls[i])'
<1>1. /\ i \in 1..Len(calls) /\ FrameSound(calls[i])
      /\ calls'[i].op = calls[i].op /\ calls'[i].state = calls[i].state
      /\ calls'[i].rest = calls[i].rest
  BY DEF Kept, FramesSound
<1>2. calls[i].op \in {"onExit", "onDetach"} => calls[i].state \in States
  BY <1>1 DEF CallsOK, FramesNameStates, StateOps
<1> QED BY <1>1, <1>2 DEF FrameSound, PhasesMoveOn, PendingKept

\* A step that starts no rollback.
LEMMA FramesStay ==
  ASSUME CallsOK, FrameInv, PhasesMoveOn,
         \A i \in 1..Len(calls') : (Kept(i) /\ PendingKept(i)) \/ SoundNext(calls'[i])
  PROVE  FrameInv'
<1>1. \A i \in 1..Len(calls') : FrameSound(calls[i])'
  BY KeptIsSound DEF FrameInv, SoundNext, FrameSound
<1>2. FramesSound'
  BY <1>1 DEF FramesSound
<1>3. PendingOnce'
  <2> SUFFICES ASSUME NEW i \in 1..Len(calls'), NEW k \in 1..Len(calls'),
                      calls'[i].op = "rollback", calls'[k].op = "rollback",
                      NEW a \in 1..Len(calls'[i].rest), NEW b \in 1..Len(calls'[k].rest),
                      calls'[i].rest[a] = calls'[k].rest[b]
               PROVE  i = k /\ a = b
    BY DEF PendingOnce
  <2>1. Kept(i) /\ Kept(k)
    BY DEF SoundNext
  <2>2. /\ i \in 1..Len(calls) /\ calls[i].op = "rollback" /\ calls'[i].rest = calls[i].rest
        /\ k \in 1..Len(calls) /\ calls[k].op = "rollback" /\ calls'[k].rest = calls[k].rest
    BY <2>1 DEF Kept
  <2>3. /\ a \in 1..Len(calls[i].rest) /\ b \in 1..Len(calls[k].rest)
        /\ calls[i].rest[a] = calls[k].rest[b]
    BY <2>2
  <2>4. PendingOnce
    BY DEF FrameInv
  <2> QED BY <2>2, <2>3, <2>4 DEF PendingOnce
<1> QED BY <1>2, <1>3 DEF FrameInv

LEMMA RestType ==
  ASSUME CallsOK, NEW i \in 1..Len(calls)
  PROVE  /\ calls[i] \in Frame /\ calls[i].rest \in Seq(States)
         /\ \A a \in 1..Len(calls[i].rest) : calls[i].rest[a] \in States
<1>1. calls[i] \in Frame
  BY ElementOfSeq DEF CallsOK
<1>2. calls[i].rest \in Seq(States)
  BY <1>1 DEF Frame
<1> QED BY <1>1, <1>2, ElementOfSeq

\* States of a rollback are named, so that a change of phase can be followed.
LEMMA MoveKeepsPending ==
  ASSUME DataOK, CallsOK, FramesSound, NEW i \in 1..Len(calls), NEW s \in States, NEW v,
         phase' = [phase EXCEPT ![s] = v], NotPending(i, s)
  PROVE  PendingKept(i)
<1> SUFFICES ASSUME calls[i].op = "rollback", NEW a \in 1..Len(calls[i].rest)
             PROVE  phase'[calls[i].rest[a]] \in Live
  BY DEF PendingKept
<1>1. calls[i].rest[a] \in States
  BY RestType
<1>2. phase[calls[i].rest[a]] \in Live /\ calls[i].rest[a] # s
  BY DEF FramesSound, FrameSound, NotPending
<1> QED BY <1>1, <1>2 DEF DataOK

LEMMA LiveKeepsPending ==
  ASSUME CallsOK, FramesSound, \A s \in States : phase[s] \in Live => phase'[s] \in Live,
         NEW i \in 1..Len(calls)
  PROVE  PendingKept(i)
<1> SUFFICES ASSUME calls[i].op = "rollback", NEW a \in 1..Len(calls[i].rest)
             PROVE  phase'[calls[i].rest[a]] \in Live
  BY DEF PendingKept
<1>1. calls[i].rest[a] \in States
  BY RestType
<1> QED BY <1>1 DEF FramesSound, FrameSound

LEMMA MoveOn ==
  ASSUME DataOK, NEW s \in States, NEW v, phase' = [phase EXCEPT ![s] = v],
         \/ phase[s] \notin Departed
         \/ v \in CleanedUp
  PROVE  PhasesMoveOn
  BY DEF PhasesMoveOn, Departed, CleanedUp, DataOK

\* Nobody waits for a state that is on the stack or was cleaned up already.
LEMMA OnStackNotPending ==
  ASSUME OffStack, NEW s, OnStack(s), NEW i \in 1..Len(calls)
  PROVE  NotPending(i, s)
  BY DEF OffStack, Off, Outside, NotPending, LeavingOps

LEMMA DepartedNotPending ==
  ASSUME FramesSound, NEW s, phase[s] \in Departed, NEW i \in 1..Len(calls)
  PROVE  NotPending(i, s)
  BY DEF FramesSound, FrameSound, NotPending, Departed, Live

\* A step that leaves the phases alone.
LEMMA SamePhases ==
  ASSUME CallsOK, FramesSound, phase' = phase
  PROVE  /\ PhasesMoveOn
         /\ \A i \in 1..Len(calls) : PendingKept(i)
  BY LiveKeepsPending DEF PhasesMoveOn

LEMMA PlainEnter ==
  ASSUME CallsOK, FrameInv, NEW f, Good(f), Enter(f), phase' = phase,
         f.op \notin {"rollback", "onExit", "onDetach"}
  PROVE  FrameInv'
<1>1. \A i \in 1..Len(calls') : Kept(i) \/ calls'[i] = f
  BY EnterKeeps
<1>2. SoundNext(f)
  BY DEF SoundNext
<1> QED BY <1>1, <1>2, SamePhases, FramesStay DEF FrameInv, Kept

LEMMA PlainLeave ==
  ASSUME CallsOK, FrameInv, calls # <<>>, NEW threw, Leave(threw), phase' = phase
  PROVE  FrameInv'
<1>1. \A i \in 1..Len(calls') : Kept(i)
  BY LeaveKeeps
<1> QED BY <1>1, SamePhases, FramesStay DEF FrameInv, Kept

LEMMA PlainBecome ==
  ASSUME CallsOK, FrameInv, calls # <<>>, NEW f, Good(f), Become(f), phase' = phase,
         f.op \notin {"rollback", "onExit", "onDetach"}
  PROVE  FrameInv'
<1>1. \A i \in 1..Len(calls') : Kept(i) \/ calls'[i] = f
  BY BecomeKeeps
<1>2. SoundNext(f)
  BY DEF SoundNext
<1> QED BY <1>1, <1>2, SamePhases, FramesStay DEF FrameInv, Kept

\* removeState() of a state of the stack.
LEMMA RemoveKeeps ==
  ASSUME DataOK, CallsOK, StackInv, FrameInv, NEW s \in States, OnStack(s), RemoveState(s)
  PROVE  FrameInv' /\ phase[s] \in Live /\ \A t \in States : t # s => phase'[t] = phase[t]
<1>1. phase[s] \in Live
  BY DEF StackInv, StackIsLive, OnStack
<1>2. phase' = [phase EXCEPT ![s] = "leaving"] /\ Enter(Call("onExit", s))
  BY DEF RemoveState
<1>3. PhasesMoveOn
  BY <1>1, <1>2, MoveOn DEF Live, Departed
<1>4. Good(Call("onExit", s)) /\ SoundNext(Call("onExit", s))
  BY <1>2, NewCallOK DEF UserOps, SoundNext, Call, CallAt, Departed, DataOK
<1>5. \A i \in 1..Len(calls) : PendingKept(i)
  BY <1>2, OnStackNotPending, MoveKeepsPending DEF StackInv, FrameInv
<1>6. \A i \in 1..Len(calls') : Kept(i) \/ calls'[i] = Call("onExit", s)
  BY <1>2, <1>4, EnterKeeps
<1> QED BY <1>1, <1>2, <1>3, <1>4, <1>5, <1>6, FramesStay DEF Kept, DataOK

\* pushState() of an unborn state.
LEMMA PushKeeps ==
  ASSUME DataOK, CallsOK, FrameInv, NEW s \in States, Unborn(s), Push(s)
  PROVE  PhasesMoveOn /\ \A i \in 1..Len(calls) : PendingKept(i)
<1>1. phase' = [phase EXCEPT ![s] = "entering"] /\ phase[s] = "unborn"
  BY DEF Push, Unborn
<1>2. \A t \in States : phase[t] \in Live => phase'[t] \in Live
  BY <1>1 DEF DataOK, Live
<1>3. PhasesMoveOn
  BY <1>1, MoveOn DEF Departed
<1> QED BY <1>2, <1>3, LiveKeepsPending DEF FrameInv

\* What stays on the stack in a pop, a deletion, a splice and a push.
LEMMA FrontKeepsOthers ==
  ASSUME DataOK, stack # <<>>, stack' = Front(stack), NEW t, OnStack(t), t # Last(stack)
  PROVE  OnStack(t)'
<1>1. PICK j \in 1..Len(stack) : stack[j] = t
  BY DEF OnStack
<1>2. /\ Len(stack') = Len(stack) - 1 /\ Len(stack) \in 1..Len(stack)
      /\ Last(stack) = stack[Len(stack)]
      /\ \A i \in 1..Len(stack') : stack'[i] = stack[i]
  BY FrontFacts DEF DataOK
<1>3. j \in 1..Len(stack')
  BY <1>1, <1>2
<1> QED BY <1>1, <1>2, <1>3 DEF OnStack

LEMMA RemoveAtKeepsOthers ==
  ASSUME DataOK, NEW k \in 1..Len(stack), stack' = RemoveAt(stack, k),
         NEW t, OnStack(t), t # stack[k]
  PROVE  OnStack(t)'
<1>0. Len(stack) \in Nat
  BY LenProperties DEF DataOK
<1>1. PICK j \in 1..Len(stack) : stack[j] = t
  BY DEF OnStack
<1>2. /\ Len(stack') = Len(stack) - 1
      /\ \A i \in 1..(Len(stack) - 1) :
           stack'[i] = IF i < k THEN stack[i] ELSE stack[i + 1]
  BY RemoveAtFacts DEF DataOK
<1>3. CASE j < k
  <2>1. j \in 1..Len(stack') /\ stack'[j] = stack[j]
    BY <1>0, <1>2, <1>3
  <2> QED BY <1>1, <2>1 DEF OnStack
<1>4. CASE k < j
  <2>1. j - 1 \in 1..Len(stack') /\ stack'[j - 1] = stack[j]
    BY <1>0, <1>2, <1>4
  <2> QED BY <1>1, <2>1 DEF OnStack
<1> QED BY <1>1, <1>3, <1>4

LEMMA SplicedOff ==
  ASSUME DataOK, NEW n \in Nat, stack' = Below(n), NEW t, OnStack(t)
  PROVE  OnStack(t)' \/ \E a \in 1..Len(Above(n)) : Above(n)[a] = t
<1>0. Len(stack) \in Nat
  BY LenProperties DEF DataOK
<1>1. PICK j \in 1..Len(stack) : stack[j] = t
  BY DEF OnStack
<1>2. CASE n < Len(stack)
  <2>1. /\ Len(Below(n)) = n - 1 + 1
        /\ \A i \in 1..(n - 1 + 1) : Below(n)[i] = stack[1 + i - 1]
    <3>1. 1 \in Int /\ n \in Int /\ 1 <= 1 /\ n <= Len(stack) /\ 1 <= n + 1
      BY <1>0, <1>2
    <3> QED BY <1>2, <3>1, SubSeqFacts DEF Below, DataOK
  <2>2. /\ Len(Above(n)) = Len(stack) - (n + 1) + 1
        /\ \A i \in 1..(Len(stack) - (n + 1) + 1) : Above(n)[i] = stack[n + 1 + i - 1]
    <3>1. /\ n + 1 \in Int /\ Len(stack) \in Int /\ 1 <= n + 1
          /\ Len(stack) <= Len(stack) /\ n + 1 <= Len(stack) + 1
      BY <1>0, <1>2
    <3> QED BY <1>2, <3>1, SubSeqFacts DEF Above, DataOK
  <2>3. CASE j <= n
    <3>1. j \in 1..Len(stack') /\ stack'[j] = stack[j]
      BY <2>1, <2>3
    <3> QED BY <1>1, <3>1 DEF OnStack
  <2>4. CASE n < j
    <3>1. j - n \in 1..Len(Above(n)) /\ Above(n)[j - n] = stack[j]
      BY <1>0, <2>2, <2>4
    <3> QED BY <1>1, <3>1
  <2> QED BY <2>3, <2>4
<1>3. CASE ~(n < Len(stack))
  BY <1>1, <1>3 DEF Below, OnStack
<1> QED BY <1>2, <1>3

LEMMA PushKeepsStack ==
  ASSUME DataOK, NEW s \in States, Push(s)
  PROVE  OnStack(s)' /\ \A t : OnStack(t) => OnStack(t)'
<1>1. /\ Len(stack') = Len(stack) + 1 /\ Len(stack) \in Nat
      /\ \A i \in 1..Len(stack) : stack'[i] = stack[i]
      /\ stack'[Len(stack) + 1] = s
  BY PushStack
<1>2. Len(stack) + 1 \in 1..Len(stack') /\ \A i \in 1..Len(stack) : i \in 1..Len(stack')
  BY <1>1
<1> QED BY <1>1, <1>2 DEF OnStack

\* Every rollback frame is still there.
RollbacksKept ==
  \A i \in 1..Len(calls) : calls[i].op = "rollback" => i \in 1..Len(calls') /\ Kept(i)

LEMMA OrphansStay ==
  ASSUME NothingOrphaned, RollbacksKept,
         \A s \in States : phase'[s] \in Live => phase[s] \in Live \/ OnStack(s)',
         \A s \in States : phase'[s] \in Live /\ OnStack(s) => OnStack(s)'
  PROVE  NothingOrphaned'
<1> SUFFICES ASSUME NEW s \in States, phase'[s] \in Live, ~OnStack(s)'
             PROVE  BeingRolledBack(s)'
  BY DEF NothingOrphaned
<1>1. BeingRolledBack(s)
  BY DEF NothingOrphaned
<1>2. PICK i \in 1..Len(calls) :
        /\ calls[i].op = "rollback"
        /\ \/ s = calls[i].state
           \/ \E j \in 2..Len(calls[i].rest) : s = calls[i].rest[j]
  BY <1>1 DEF BeingRolledBack
<1>3. i \in 1..Len(calls') /\ Kept(i)
  BY <1>2 DEF RollbacksKept
<1> QED BY <1>2, <1>3 DEF BeingRolledBack, Kept

\* A step that neither moves a state on nor takes one off the stack.
LEMMA CalmOrphans ==
  ASSUME NothingOrphaned, RollbacksKept, stack' = stack, phase' = phase
  PROVE  NothingOrphaned'
  BY OrphansStay DEF OnStack

LEMMA EnterKeepsRollbacks ==
  ASSUME CallsOK, NEW f, Good(f), Enter(f)
  PROVE  RollbacksKept
  BY EnterKeeps DEF RollbacksKept

LEMMA LeaveKeepsRollbacks ==
  ASSUME CallsOK, calls # <<>>, NEW threw, Leave(threw), Top.op # "rollback"
  PROVE  RollbacksKept
  BY LeaveKeeps DEF RollbacksKept

LEMMA BecomeKeepsRollbacks ==
  ASSUME CallsOK, calls # <<>>, NEW f, Good(f), Become(f), Top.op # "rollback"
  PROVE  RollbacksKept
<1>1. /\ Top = calls[Len(calls)] /\ Len(calls') = Len(calls)
      /\ \A i \in 1..Len(calls') : i # Len(calls) => Kept(i)
  BY BecomeKeeps
<1> QED BY <1>1 DEF RollbacksKept

\* removeState() of a state of the stack, which the stack then lacks.
LEMMA RemoveLeaks ==
  ASSUME DataOK, CallsOK, StackInv, LeakInv, NEW s \in States, OnStack(s), RemoveState(s),
         \A t \in States : OnStack(t) /\ t # s => OnStack(t)',
         components' = components, runners' = runners
  PROVE  LeakInv'
<1>1. /\ FrameInv' /\ phase[s] \in Live
      /\ \A t \in States : t # s => phase'[t] = phase[t]
  BY RemoveKeeps DEF LeakInv
<1>2. phase'[s] = "leaving"
  BY DEF RemoveState, DataOK
<1>3. Released'
  BY <1>1, <1>2 DEF LeakInv, Released, CleanedUp
<1>4. RollbacksKept
  <2>1. Good(Call("onExit", s))
    BY NewCallOK DEF UserOps
  <2> QED BY <2>1, EnterKeepsRollbacks DEF RemoveState
<1>5. NothingOrphaned'
  BY <1>1, <1>2, <1>4, OrphansStay DEF LeakInv, Live
<1> QED BY <1>1, <1>3, <1>5 DEF LeakInv

\* Game code is called, and nothing else changes but what s acquires.
LEMMA CallLeaks ==
  ASSUME CallsOK, LeakInv, NEW f, Good(f), Enter(f), stack' = stack, phase' = phase,
         f.op \notin {"rollback", "onExit", "onDetach"},
         components' \subseteq components, runners' \subseteq runners
  PROVE  LeakInv'
<1>1. FrameInv'
  BY PlainEnter DEF LeakInv
<1>2. Released'
  BY DEF LeakInv, Released
<1>3. NothingOrphaned'
  BY EnterKeepsRollbacks, CalmOrphans DEF LeakInv
<1> QED BY <1>1, <1>2, <1>3 DEF LeakInv

LEMMA UserCallLeaks ==
  ASSUME DataOK, CallsOK, StackInv, LeakInv, UserCall
  PROVE  LeakInv'
<1>1. ASSUME NEW s \in States, PushState(s) PROVE LeakInv'
  <2>1. /\ Unborn(s) /\ Push(s) /\ Enter(CallAt("onEnter", s, Len(stack)))
        /\ components' = components /\ runners' = runners
    BY <1>1 DEF PushState
  <2>2. /\ Good(CallAt("onEnter", s, Len(stack))) /\ SoundNext(CallAt("onEnter", s, Len(stack)))
    BY <2>1, PushType, NewCallOK DEF UserOps, SoundNext, CallAt
  <2>3. FrameInv'
    <3>1. PhasesMoveOn /\ \A i \in 1..Len(calls) : PendingKept(i)
      BY <2>1, PushKeeps DEF LeakInv
    <3>2. \A i \in 1..Len(calls') : Kept(i) \/ calls'[i] = CallAt("onEnter", s, Len(stack))
      BY <2>1, <2>2, EnterKeeps
    <3> QED BY <2>2, <3>1, <3>2, FramesStay DEF LeakInv, Kept
  <2>4. phase' = [phase EXCEPT ![s] = "entering"]
    BY <2>1 DEF Push
  <2>5. Released'
    BY <2>1, <2>4 DEF LeakInv, Released, DataOK, CleanedUp
  <2>6. NothingOrphaned'
    <3>1. RollbacksKept
      BY <2>1, <2>2, EnterKeepsRollbacks
    <3>2. \A t \in States : t # s => phase'[t] = phase[t]
      BY <2>4 DEF DataOK
    <3> QED BY <2>1, <3>1, <3>2, PushKeepsStack, OrphansStay DEF LeakInv
  <2> QED BY <2>3, <2>5, <2>6 DEF LeakInv
<1>2. ASSUME PopState PROVE LeakInv'
  <2>1. Last(stack) \in States /\ OnStack(Last(stack))
    BY <1>2, FrontShrinks DEF PopState, StackInv, StackIsLive
  <2> QED BY <1>2, <2>1, FrontKeepsOthers, RemoveLeaks DEF PopState
<1>3. ASSUME NEW s \in States, DeleteState(s) PROVE LeakInv'
  <2>1. HeightOf(s) \in 1..Len(stack) /\ stack[HeightOf(s)] = s
    BY <1>3 DEF DeleteState, OnStack, HeightOf
  <2>2. \A t \in States : OnStack(t) /\ t # s => OnStack(t)'
    BY <1>3, <2>1, RemoveAtKeepsOthers DEF DeleteState
  <2> QED BY <1>3, <2>2, RemoveLeaks DEF DeleteState
<1>4. ASSUME NEW s \in States, ResetState(s) PROVE LeakInv'
  <2>1. /\ Good(CallAt("reset", s, 0))
        /\ CallAt("reset", s, 0).op \notin {"rollback", "onExit", "onDetach"}
    BY NewCallOK DEF EngineOps, CallAt
  <2> QED BY <1>4, <2>1, CallLeaks DEF ResetState
<1>5. ASSUME NEW t \in States, NEW s \in States, ReplaceFrom(t, s) PROVE LeakInv'
  <2>1. HeightOf(t) - 1 \in Nat
    BY <1>5 DEF ReplaceFrom, OnStack, HeightOf
  <2> DEFINE f == CallAt("replace", s, HeightOf(t) - 1)
  <2>2. Good(f) /\ f.op \notin {"rollback", "onExit", "onDetach"}
    BY <2>1, NewCallOK DEF EngineOps, CallAt
  <2>3. /\ Enter(f) /\ stack' = stack /\ phase' = phase
        /\ components' = components /\ runners' = runners
    BY <1>5 DEF ReplaceFrom
  <2> HIDE DEF f
  <2> QED BY <2>2, <2>3, CallLeaks
<1>6. ASSUME NEW s \in States, AddComponent(s) PROVE LeakInv'
  <2>1. /\ Good(Call("onAttach", s))
        /\ Call("onAttach", s).op \notin {"rollback", "onExit", "onDetach"}
    BY NewCallOK DEF UserOps, Call, CallAt
  <2> QED BY <1>6, <2>1, CallLeaks DEF AddComponent
<1>7. ASSUME NEW s \in States, DeleteComponent(s) PROVE LeakInv'
  <2>1. /\ Good(Call("deleted", s))
        /\ Call("deleted", s).op \notin {"rollback", "onExit", "onDetach"}
    BY NewCallOK DEF UserOps, Call, CallAt
  <2> QED BY <1>7, <2>1, CallLeaks DEF DeleteComponent
<1>8. ASSUME NEW s \in States, RunScript(s) PROVE LeakInv'
  <2>1. /\ calls' = calls /\ phase' = phase /\ stack' = stack /\ components' = components
        /\ ~AcquiresAfterExit => phase[s] # "gone"
        /\ runners' = runners \union {s}
    BY <1>8 DEF RunScript, Acquires
  <2>2. FrameInv'
    <3>1. FramesSound'
      BY <2>1 DEF LeakInv, FrameInv, FramesSound, FrameSound
    <3>2. PendingOnce'
      BY <2>1 DEF LeakInv, FrameInv, PendingOnce
    <3> QED BY <3>1, <3>2 DEF FrameInv
  <2>3. Released'
    BY <2>1 DEF LeakInv, Released
  <2>4. RollbacksKept
    BY <2>1 DEF RollbacksKept, Kept
  <2> QED BY <2>1, <2>2, <2>3, <2>4, CalmOrphans DEF LeakInv
<1>9. ASSUME Stop \/ DisposeAll PROVE LeakInv'
  <2>1. /\ Good(Disposing) /\ Disposing.op \notin {"rollback", "onExit", "onDetach"}
        /\ Good(Call("onStop", NoState))
        /\ Call("onStop", NoState).op \notin {"rollback", "onExit", "onDetach"}
    BY NewCallOK DEF UserOps, EngineOps, StateOps, Disposing, Call, CallAt
  <2> QED BY <1>9, <2>1, CallLeaks DEF Stop, DisposeAll
<1> QED BY <1>1, <1>2, <1>3, <1>4, <1>5, <1>6, <1>7, <1>8, <1>9 DEF UserCall

\* A frame returns or goes on as a harmless one, and nothing else changes.
LEMMA ReturnLeaks ==
  ASSUME CallsOK, LeakInv, calls # <<>>, Top.op # "rollback", NEW threw, Leave(threw),
         stack' = stack, phase' = phase, components' = components, runners' = runners
  PROVE  LeakInv'
<1>1. FrameInv'
  BY PlainLeave DEF LeakInv
<1>2. NothingOrphaned'
  BY LeaveKeepsRollbacks, CalmOrphans DEF LeakInv
<1> QED BY <1>1, <1>2 DEF LeakInv, Released

LEMMA ThenDisposeLeaks ==
  ASSUME CallsOK, LeakInv, calls # <<>>, Top.op # "rollback", ThenDispose,
         stack' = stack, phase' = phase, components' = components, runners' = runners
  PROVE  LeakInv'
<1>1. CASE Leave(FALSE)
  BY <1>1, ReturnLeaks
<1>2. CASE Become(Disposing)
  <2>1. Good(Disposing) /\ Disposing.op \notin {"rollback", "onExit", "onDetach"}
    BY NewCallOK DEF EngineOps, StateOps, Disposing, CallAt
  <2>2. FrameInv'
    BY <1>2, <2>1, PlainBecome DEF LeakInv
  <2>3. NothingOrphaned'
    BY <1>2, <2>1, BecomeKeepsRollbacks, CalmOrphans DEF LeakInv
  <2> QED BY <2>2, <2>3 DEF LeakInv, Released
<1> QED BY <1>1, <1>2 DEF ThenDispose

\* An onEnter throws in place: what it takes off the stack waits for its rollback.
LEMMA ThrowLeaks ==
  ASSUME DataOK, CallsOK, StackInv, LeakInv, EnterThrows, ~ThrowsAfterMove
  PROVE  LeakInv'
<1> DEFINE f == Rollback(Top.state, Top.at)
<1>1. /\ calls # <<>> /\ Top.state \in States /\ Top.at \in Nat /\ InPlace(Top)
      /\ Top.op = "onEnter"
  BY InState, TopType DEF EnterThrows, StateOps, CallsOK
<1>2. /\ stack' = Below(Top.at) /\ Become(f)
      /\ phase' = phase /\ components' = components /\ runners' = runners
  BY DEF EnterThrows
<1>3. /\ Good(f) /\ f.op = "rollback" /\ f.state = Top.state /\ f.rest = Above(Top.at)
  BY <1>1, RollbackFrame DEF DataOK
<1> HIDE DEF f
<1>4. 1 \in 1..Len(f.rest) /\ f.rest[1] = f.state
  BY <1>1, <1>3, RestStartsInPlace
<1>5. /\ Len(stack) \in Nat
      /\ \A a \in 1..Len(f.rest) :
           f.rest[a] = stack[Top.at + a] /\ Top.at + a \in 1..Len(stack)
  <2>1. stack \in Seq(States)
    BY DEF DataOK
  <2>2. /\ Len(stack) \in Nat
        /\ \A a \in 1..Len(Above(Top.at)) :
             Above(Top.at)[a] = stack[Top.at + a] /\ Top.at + a \in 1..Len(stack)
    BY <1>1, <2>1, SpliceFacts
  <2> QED BY <1>3, <2>2
<1>6. /\ Len(calls) \in 1..Len(calls') /\ calls'[Len(calls)] = f
      /\ Len(calls') = Len(calls) /\ Top = calls[Len(calls)]
      /\ \A i \in 1..Len(calls') : i # Len(calls) => Kept(i)
  BY <1>1, <1>2, <1>3, BecomeKeeps
<1>7. \A a \in 1..Len(f.rest) : phase[f.rest[a]] \in Live
  BY <1>5 DEF StackInv, StackIsLive
<1>8. FramesSound'
  <2>1. ASSUME NEW i \in 1..Len(calls')
        PROVE  /\ calls'[i].op = "rollback" =>
                    /\ 1 \in 1..Len(calls'[i].rest) /\ calls'[i].rest[1] = calls'[i].state
                    /\ \A a \in 1..Len(calls'[i].rest) : phase'[calls'[i].rest[a]] \in Live
               /\ calls'[i].op = "onExit" => phase'[calls'[i].state] \in Departed
               /\ calls'[i].op = "onDetach" => phase'[calls'[i].state] \in CleanedUp
    <3>1. CASE i = Len(calls)
      BY <1>2, <1>3, <1>4, <1>6, <1>7, <3>1
    <3>2. CASE i # Len(calls)
      BY <1>2, <1>6, <3>2 DEF LeakInv, FrameInv, FramesSound, FrameSound, Kept
    <3> QED BY <3>1, <3>2
  <2> QED BY <2>1 DEF FramesSound, FrameSound
<1>9. PendingOnce'
  <2> SUFFICES ASSUME NEW i \in 1..Len(calls'), NEW k \in 1..Len(calls'),
                      calls'[i].op = "rollback", calls'[k].op = "rollback",
                      NEW a \in 1..Len(calls'[i].rest), NEW b \in 1..Len(calls'[k].rest),
                      calls'[i].rest[a] = calls'[k].rest[b]
               PROVE  i = k /\ a = b
    BY DEF PendingOnce
  <2>1. CASE i # Len(calls) /\ k # Len(calls)
    <3>1. Kept(i) /\ Kept(k)
      BY <1>6, <2>1
    <3>2. /\ i \in 1..Len(calls) /\ k \in 1..Len(calls)
          /\ calls[i].op = "rollback" /\ calls[k].op = "rollback"
          /\ a \in 1..Len(calls[i].rest) /\ b \in 1..Len(calls[k].rest)
          /\ calls[i].rest[a] = calls[k].rest[b]
      BY <3>1 DEF Kept
    <3>3. PendingOnce
      BY DEF LeakInv, FrameInv
    <3> QED BY <3>2, <3>3 DEF PendingOnce
  <2>2. CASE i = Len(calls) /\ k = Len(calls)
    <3>1. a \in 1..Len(f.rest) /\ b \in 1..Len(f.rest) /\ f.rest[a] = f.rest[b]
      BY <1>6, <2>2
    <3>2. /\ Top.at + a \in 1..Len(stack) /\ Top.at + b \in 1..Len(stack)
          /\ stack[Top.at + a] = stack[Top.at + b]
      BY <1>5, <3>1
    <3>3. Top.at + a = Top.at + b
      BY <3>2 DEF StackInv, StackIsLive, Distinct
    <3> QED BY <1>1, <2>2, <3>1, <3>3
  <2>3. ASSUME NEW m \in 1..Len(calls), calls[m].op = "rollback",
               NEW c \in 1..Len(calls[m].rest), NEW d \in 1..Len(f.rest)
        PROVE  calls[m].rest[c] # f.rest[d]
    <3>1. \A j \in 1..Len(stack) : stack[j] # calls[m].rest[c]
      BY <2>3 DEF StackInv, OffStack, Off, Outside, OnStack, LeavingOps
    <3> QED BY <1>5, <3>1
  <2>4. CASE i = Len(calls) /\ k # Len(calls)
    <3>1. a \in 1..Len(f.rest) /\ calls'[i].rest[a] = f.rest[a]
      BY <1>6, <2>4
    <3>2. Kept(k)
      BY <1>6, <2>4
    <3>3. /\ k \in 1..Len(calls) /\ calls[k].op = "rollback"
          /\ b \in 1..Len(calls[k].rest) /\ calls'[k].rest[b] = calls[k].rest[b]
      BY <3>2 DEF Kept
    <3> QED BY <2>3, <3>1, <3>3
  <2>5. CASE i # Len(calls) /\ k = Len(calls)
    <3>1. b \in 1..Len(f.rest) /\ calls'[k].rest[b] = f.rest[b]
      BY <1>6, <2>5
    <3>2. Kept(i)
      BY <1>6, <2>5
    <3>3. /\ i \in 1..Len(calls) /\ calls[i].op = "rollback"
          /\ a \in 1..Len(calls[i].rest) /\ calls'[i].rest[a] = calls[i].rest[a]
      BY <3>2 DEF Kept
    <3> QED BY <2>3, <3>1, <3>3
  <2> QED BY <2>1, <2>2, <2>4, <2>5
<1>10. NothingOrphaned'
  <2> SUFFICES ASSUME NEW s \in States, phase'[s] \in Live, ~OnStack(s)'
               PROVE  BeingRolledBack(s)'
    BY DEF NothingOrphaned
  <2>1. CASE OnStack(s)
    <3>1. PICK a \in 1..Len(f.rest) : f.rest[a] = s
      BY <1>1, <1>2, <1>3, <2>1, SplicedOff
    <3>2. s = f.state \/ a \in 2..Len(f.rest)
      BY <1>4, <3>1
    <3> QED BY <1>3, <1>6, <3>1, <3>2 DEF BeingRolledBack
  <2>2. CASE BeingRolledBack(s)
    <3>1. PICK i \in 1..Len(calls) :
            /\ calls[i].op = "rollback"
            /\ \/ s = calls[i].state
               \/ \E j \in 2..Len(calls[i].rest) : s = calls[i].rest[j]
      BY <2>2 DEF BeingRolledBack
    <3>2. i \in 1..Len(calls') /\ Kept(i)
      BY <1>1, <1>6, <3>1
    <3> QED BY <3>1, <3>2 DEF BeingRolledBack, Kept
  <2> QED BY <1>2, <2>1, <2>2 DEF LeakInv, NothingOrphaned
<1> QED BY <1>2, <1>8, <1>9, <1>10 DEF LeakInv, FrameInv, Released

LEMMA HookEndsLeaks ==
  ASSUME DataOK, CallsOK, StackInv, LeakInv, HookEnds, ~ThrowsAfterMove
  PROVE  LeakInv'
<1>0. FramesSound
  BY DEF LeakInv, FrameInv
<1>1. ASSUME EnterReturns PROVE LeakInv'
  <2>1. calls # <<>> /\ Top.state \in States /\ Top.op = "onEnter"
    BY <1>1, InState DEF EnterReturns, StateOps
  <2>2. /\ Leave(FALSE) /\ stack' = stack /\ components' = components /\ runners' = runners
        /\ \A t \in States : \/ phase'[t] = phase[t]
                             \/ phase[t] = "entering" /\ phase'[t] = "entered"
    BY <1>1, <2>1 DEF EnterReturns, DataOK
  <2>3. /\ \A t \in States : phase[t] \in Live <=> phase'[t] \in Live
        /\ \A t \in States : phase[t] \in CleanedUp <=> phase'[t] \in CleanedUp
        /\ \A t \in States : phase[t] = "gone" <=> phase'[t] = "gone"
        /\ PhasesMoveOn
    BY <2>2 DEF Live, CleanedUp, Departed, PhasesMoveOn
  <2>4. FrameInv'
    <3>1. \A i \in 1..Len(calls') : Kept(i)
      BY <2>1, <2>2, LeaveKeeps
    <3>2. \A i \in 1..Len(calls) : PendingKept(i)
      BY <1>0, <2>3, LiveKeepsPending
    <3> QED BY <2>3, <3>1, <3>2, FramesStay DEF LeakInv, Kept
  <2>5. Released'
    BY <2>2, <2>3 DEF LeakInv, Released
  <2>6. NothingOrphaned'
    BY <2>1, <2>2, <2>3, LeaveKeepsRollbacks, OrphansStay DEF LeakInv, OnStack
  <2> QED BY <2>4, <2>5, <2>6 DEF LeakInv
<1>2. ASSUME EnterThrows PROVE LeakInv'
  BY <1>2, ThrowLeaks
<1>3. ASSUME NEW threw \in BOOLEAN, ExitEnds(threw) PROVE LeakInv'
  <2>1. calls # <<>> /\ Top.state \in States /\ Top.op = "onExit"
    BY <1>3, InState DEF ExitEnds, StateOps
  <2> DEFINE f == [Call("onDetach", Top.state) EXCEPT !.failed = threw]
             s == Top.state
  <2>2. Good(f) /\ f.op = "onDetach" /\ f.state = Top.state
    BY <2>1, CallType DEF Good, Frame, UserOps, Call, CallAt
  <2>3. /\ Become(f) /\ stack' = stack /\ runners' = runners
        /\ components' = components \ {s} /\ phase' = [phase EXCEPT ![s] = "cleaning"]
    BY <1>3 DEF ExitEnds, Clean
  <2> HIDE DEF f, s
  <2>4. s \in States /\ phase[s] \in Departed
    BY <1>0, <2>1, TopType DEF s, FramesSound, FrameSound, CallsOK
  <2>5. FrameInv'
    <3>1. \A i \in 1..Len(calls') : Kept(i) \/ calls'[i] = f
      BY <2>1, <2>2, <2>3, BecomeKeeps
    <3>2. SoundNext(f)
      BY <2>2, <2>3, <2>4 DEF s, SoundNext, DataOK, CleanedUp
    <3>3. PhasesMoveOn /\ \A i \in 1..Len(calls) : PendingKept(i)
      BY <1>0, <2>3, <2>4, MoveOn, MoveKeepsPending, DepartedNotPending DEF CleanedUp
    <3> QED BY <3>1, <3>2, <3>3, FramesStay DEF LeakInv, Kept
  <2>6. Released'
    BY <2>3, <2>4 DEF LeakInv, Released, DataOK, CleanedUp
  <2>7. NothingOrphaned'
    <3>1. \A t \in States : phase'[t] \in Live => phase[t] \in Live
      BY <2>3, <2>4 DEF DataOK, Live
    <3> QED BY <2>1, <2>2, <2>3, <3>1, BecomeKeepsRollbacks, OrphansStay DEF LeakInv, OnStack
  <2> QED BY <2>5, <2>6, <2>7 DEF LeakInv
<1>4. ASSUME NEW threw \in BOOLEAN, DetachEnds(threw) PROVE LeakInv'
  <2>1. calls # <<>> /\ Top.state \in States /\ Top.op = "onDetach"
    BY <1>4, InState DEF DetachEnds, StateOps
  <2> DEFINE s == Top.state
  <2>2. /\ Leave(threw \/ Top.failed) /\ stack' = stack /\ components' = components
        /\ runners' = runners \ {s} /\ phase' = [phase EXCEPT ![s] = "gone"]
    BY <1>4 DEF DetachEnds
  <2> HIDE DEF s
  <2>3. s \in States /\ phase[s] \in CleanedUp
    BY <1>0, <2>1, TopType DEF s, FramesSound, FrameSound, CallsOK
  <2>4. FrameInv'
    <3>1. \A i \in 1..Len(calls') : Kept(i)
      BY <2>1, <2>2, LeaveKeeps
    <3>2. phase[s] \in Departed
      BY <2>3 DEF CleanedUp, Departed
    <3>3. PhasesMoveOn /\ \A i \in 1..Len(calls) : PendingKept(i)
      BY <1>0, <2>2, <2>3, <3>2, MoveOn, MoveKeepsPending, DepartedNotPending DEF CleanedUp
    <3> QED BY <3>1, <3>3, FramesStay DEF LeakInv, Kept
  <2>5. Released'
    BY <2>2, <2>3 DEF LeakInv, Released, DataOK, CleanedUp
  <2>6. NothingOrphaned'
    <3>1. \A t \in States : phase'[t] \in Live => phase[t] \in Live
      BY <2>2, <2>3 DEF DataOK, Live
    <3> QED BY <2>1, <2>2, <3>1, LeaveKeepsRollbacks, OrphansStay DEF LeakInv, OnStack
  <2> QED BY <2>4, <2>5, <2>6 DEF LeakInv
<1>5. ASSUME AttachReturns PROVE LeakInv'
  <2>1. calls # <<>> /\ Top.state \in States /\ Top.op = "onAttach"
    BY <1>5, InState DEF AttachReturns, StateOps
  <2>2. /\ Leave(FALSE) /\ stack' = stack /\ phase' = phase /\ runners' = runners
        /\ components' = components \union {Top.state}
        /\ ~AcquiresAfterExit => phase[Top.state] \notin CleanedUp
    BY <1>5 DEF AttachReturns, Acquires, CleanedUp
  <2>3. FrameInv' /\ NothingOrphaned'
    BY <2>1, <2>2, PlainLeave, LeaveKeepsRollbacks, CalmOrphans DEF LeakInv
  <2>4. Released'
    BY <2>2 DEF LeakInv, Released
  <2> QED BY <2>3, <2>4 DEF LeakInv
<1>6. ASSUME AttachThrows \/ DeletedEnds \/ StartReturns PROVE LeakInv'
  BY <1>6, ReturnLeaks DEF AttachThrows, DeletedEnds, StartReturns, In, Running
<1>7. ASSUME StartThrows PROVE LeakInv'
  BY <1>7, ThenDisposeLeaks DEF StartThrows, In, Running
<1>8. ASSUME NEW threw \in BOOLEAN, StopEnds(threw) PROVE LeakInv'
  BY <1>8, ThenDisposeLeaks DEF StopEnds, In, Running
<1> QED BY <1>1, <1>2, <1>3, <1>4, <1>5, <1>6, <1>7, <1>8 DEF HookEnds

\* A round of the rollback: the last state it waits for is removed.
LEMMA RollbackNextLeaks ==
  ASSUME DataOK, CallsOK, LeakInv, RollbackNext
  PROVE  LeakInv' /\ phase[Last(Top.rest)] \in Live
<1> DEFINE s == Last(Top.rest)
           n == Len(Top.rest)
           top == Len(calls)
           g == [Top EXCEPT !.rest = Front(@)]
           f == Call("onExit", s)
<1>1. /\ calls # <<>> /\ Top \in Frame /\ Top.op = "rollback" /\ n > 1
      /\ Top.state \in States /\ Top.rest \in Seq(States) /\ Top.rest # <<>>
  BY InState, TopType, EmptySeq DEF RollbackNext, StateOps, CallsOK
<1>2. /\ s \in States /\ s = Top.rest[n] /\ n \in 1..n
      /\ Front(Top.rest) \in Seq(States) /\ Len(Front(Top.rest)) = n - 1
      /\ \A a \in 1..Len(Front(Top.rest)) : Front(Top.rest)[a] = Top.rest[a] /\ a \in 1..n
  BY <1>1, FrontFacts
<1>3. /\ Good(g) /\ g.op = "rollback" /\ g.state = Top.state /\ g.rest = Front(Top.rest)
  BY <1>1, <1>2 DEF Good, Frame
<1>4. Good(f) /\ f.op = "onExit" /\ f.state = s
  BY <1>2, NewCallOK DEF UserOps, Call, CallAt
<1>5. /\ BecomeThenEnter(g, f) /\ phase' = [phase EXCEPT ![s] = "leaving"]
      /\ stack' = stack /\ components' = components /\ runners' = runners
  BY DEF RollbackNext
<1>6. /\ top \in 1..Len(calls) /\ Top = calls[top] /\ top \in 1..Len(calls') /\ calls'[top] = g
      /\ \A i \in 1..Len(calls') : i # top => Kept(i) \/ calls'[i] = f
      /\ \A i \in 1..Len(calls) : i # top => i \in 1..Len(calls') /\ Kept(i)
  <2> HIDE DEF g, f
  <2> QED BY <1>1, <1>3, <1>4, <1>5, BecomeThenEnterKeeps
<1> HIDE DEF s, n, top, g, f
<1>7. /\ 1 \in 1..n /\ Top.rest[1] = Top.state
      /\ \A a \in 1..n : phase[Top.rest[a]] \in Live
  BY <1>1, <1>6 DEF n, LeakInv, FrameInv, FramesSound, FrameSound
<1>8. phase[s] \in Live /\ phase'[s] = "leaving"
  BY <1>2, <1>5, <1>7 DEF DataOK
<1>9. \A t \in States : t # s => phase'[t] = phase[t]
  BY <1>5 DEF DataOK
\* The rollbacks of the next state wait for less than they did.
<1>10. ASSUME NEW i \in 1..Len(calls'), calls'[i].op = "rollback"
       PROVE  /\ i \in 1..Len(calls) /\ calls[i].op = "rollback"
              /\ calls'[i].state = calls[i].state
              /\ 1 \in 1..Len(calls'[i].rest)
              /\ \A a \in 1..Len(calls'[i].rest) :
                   /\ a \in 1..Len(calls[i].rest) /\ calls'[i].rest[a] = calls[i].rest[a]
                   /\ calls[i].rest[a] # s
  <2>1. CASE i = top
    <3>0. \A a, b \in 1..n : Top.rest[a] = Top.rest[b] => a = b
      BY <1>1, <1>6 DEF n, LeakInv, FrameInv, PendingOnce
    <3>1. \A a \in 1..n : a # n => Top.rest[a] # s
      BY <1>2, <3>0
    <3>2. /\ 1 \in 1..Len(g.rest)
          /\ \A a \in 1..Len(g.rest) : a \in 1..n /\ a # n /\ g.rest[a] = Top.rest[a]
      BY <1>1, <1>2, <1>3
    <3> QED BY <1>1, <1>3, <1>6, <2>1, <3>1, <3>2 DEF n
  <2>2. CASE i # top
    <3>1. Kept(i)
      BY <1>4, <1>6, <1>10, <2>2
    <3>2. \A a \in 1..Len(calls[i].rest) : calls[i].rest[a] # s
      BY <1>1, <1>2, <1>6, <1>10, <2>2, <3>1 DEF n, Kept, LeakInv, FrameInv, PendingOnce
    <3> QED BY <1>10, <3>1, <3>2 DEF Kept, LeakInv, FrameInv, FramesSound, FrameSound
  <2> QED BY <2>1, <2>2
<1>11. PhasesMoveOn
  BY <1>2, <1>5, <1>8, MoveOn DEF Live, Departed
<1>12. FramesSound'
  <2>1. ASSUME NEW i \in 1..Len(calls')
        PROVE  /\ calls'[i].op = "rollback" =>
                    /\ 1 \in 1..Len(calls'[i].rest) /\ calls'[i].rest[1] = calls'[i].state
                    /\ \A a \in 1..Len(calls'[i].rest) : phase'[calls'[i].rest[a]] \in Live
               /\ calls'[i].op = "onExit" => phase'[calls'[i].state] \in Departed
               /\ calls'[i].op = "onDetach" => phase'[calls'[i].state] \in CleanedUp
    <3>1. CASE calls'[i].op = "rollback"
      <4>1. \A a \in 1..Len(calls'[i].rest) :
              /\ calls'[i].rest[a] = calls[i].rest[a] /\ calls[i].rest[a] \in States
              /\ calls[i].rest[a] # s /\ phase[calls[i].rest[a]] \in Live
        BY <1>10, <3>1, RestType DEF LeakInv, FrameInv, FramesSound, FrameSound
      <4>2. 1 \in 1..Len(calls'[i].rest) /\ calls'[i].rest[1] = calls'[i].state
        BY <1>10, <3>1 DEF LeakInv, FrameInv, FramesSound, FrameSound
      <4> QED BY <1>9, <3>1, <4>1, <4>2
    <3>2. CASE calls'[i] = f
      BY <1>4, <1>8, <3>2 DEF Departed
    <3>3. CASE calls'[i].op # "rollback" /\ calls'[i] # f
      <4>1. Kept(i)
        BY <1>3, <1>6, <3>3
      <4>2. calls[i].op \in {"onExit", "onDetach"} => calls[i].state \in States
        BY <4>1 DEF Kept, CallsOK, FramesNameStates, StateOps
      <4> QED BY <1>11, <3>3, <4>1, <4>2
              DEF Kept, PhasesMoveOn, LeakInv, FrameInv, FramesSound, FrameSound
    <3> QED BY <3>1, <3>2, <3>3
  <2> QED BY <2>1 DEF FramesSound, FrameSound
<1>13. PendingOnce'
  <2> SUFFICES ASSUME NEW i \in 1..Len(calls'), NEW k \in 1..Len(calls'),
                      calls'[i].op = "rollback", calls'[k].op = "rollback",
                      NEW a \in 1..Len(calls'[i].rest), NEW b \in 1..Len(calls'[k].rest),
                      calls'[i].rest[a] = calls'[k].rest[b]
               PROVE  i = k /\ a = b
    BY DEF PendingOnce
  <2>1. /\ i \in 1..Len(calls) /\ calls[i].op = "rollback"
        /\ k \in 1..Len(calls) /\ calls[k].op = "rollback"
    BY <1>10
  <2>2. /\ a \in 1..Len(calls[i].rest) /\ calls'[i].rest[a] = calls[i].rest[a]
        /\ b \in 1..Len(calls[k].rest) /\ calls'[k].rest[b] = calls[k].rest[b]
    BY <1>10
  <2>3. calls[i].rest[a] = calls[k].rest[b]
    BY <2>2
  <2>4. PendingOnce
    BY DEF LeakInv, FrameInv
  <2> QED BY <2>1, <2>2, <2>3, <2>4 DEF PendingOnce
<1>14. Released'
  BY <1>5, <1>8, <1>9 DEF LeakInv, Released, CleanedUp
<1>15. NothingOrphaned'
  <2> SUFFICES ASSUME NEW t \in States, phase'[t] \in Live, ~OnStack(t)'
               PROVE  BeingRolledBack(t)'
    BY DEF NothingOrphaned
  <2>1. t # s /\ ~OnStack(t) /\ phase[t] \in Live
    BY <1>5, <1>8, <1>9 DEF Live, OnStack
  <2>2. PICK i \in 1..Len(calls) :
          /\ calls[i].op = "rollback"
          /\ \/ t = calls[i].state
             \/ \E j \in 2..Len(calls[i].rest) : t = calls[i].rest[j]
    BY <2>1 DEF LeakInv, NothingOrphaned, BeingRolledBack
  <2>3. CASE i # top
    BY <1>6, <2>2, <2>3 DEF Kept, BeingRolledBack
  <2>4. CASE i = top
    <3>1. CASE t = Top.state
      BY <1>3, <1>6, <3>1 DEF BeingRolledBack
    <3>2. CASE \E j \in 2..n : t = Top.rest[j]
      <4>1. PICK j \in 2..n : t = Top.rest[j]
        BY <3>2
      <4>2. j \in 2..Len(g.rest) /\ g.rest[j] = t
        BY <1>1, <1>2, <1>3, <2>1, <4>1
      <4> QED BY <1>3, <1>6, <4>2 DEF BeingRolledBack
    <3> QED BY <1>6, <2>2, <2>4, <3>1, <3>2 DEF n
  <2> QED BY <2>3, <2>4
<1> QED BY <1>8, <1>12, <1>13, <1>14, <1>15 DEF LeakInv, FrameInv, s

\* The last round: the state whose onEnter threw is cleaned up itself.
LEMMA RollbackSelfLeaks ==
  ASSUME DataOK, CallsOK, LeakInv, RollbackSelf
  PROVE  LeakInv'
<1> DEFINE s == Top.state
           top == Len(calls)
           g == Call("failed", Top.state)
           f == Call("onDetach", Top.state)
<1>1. /\ calls # <<>> /\ Top.op = "rollback" /\ Len(Top.rest) <= 1 /\ s \in States
  BY InState DEF RollbackSelf, StateOps
<1>2. /\ Good(g) /\ g.op = "failed" /\ Good(f) /\ f.op = "onDetach" /\ f.state = s
  BY <1>1, NewCallOK DEF UserOps, EngineOps, Call, CallAt
<1>3. /\ BecomeThenEnter(g, f) /\ phase' = [phase EXCEPT ![s] = "cleaning"]
      /\ stack' = stack /\ components' = components \ {s} /\ runners' = runners
  BY DEF RollbackSelf, Clean
<1>4. /\ top \in 1..Len(calls) /\ Top = calls[top] /\ top \in 1..Len(calls') /\ calls'[top] = g
      /\ \A i \in 1..Len(calls') : i # top => Kept(i) \/ calls'[i] = f
      /\ \A i \in 1..Len(calls) : i # top => i \in 1..Len(calls') /\ Kept(i)
  <2> HIDE DEF g, f
  <2> QED BY <1>1, <1>2, <1>3, BecomeThenEnterKeeps
<1> HIDE DEF s, top, g, f
<1>5. 1 \in 1..Len(Top.rest) /\ Top.rest[1] = s /\ phase[s] \in Live
  BY <1>1, <1>4 DEF s, LeakInv, FrameInv, FramesSound, FrameSound
<1>6. \A i \in 1..Len(calls) : i # top => NotPending(i, s)
  BY <1>1, <1>4, <1>5 DEF NotPending, LeakInv, FrameInv, PendingOnce
<1>7. FrameInv'
  <2>1. PhasesMoveOn
    BY <1>1, <1>3, MoveOn DEF CleanedUp
  <2>2. SoundNext(f) /\ SoundNext(g)
    BY <1>1, <1>2, <1>3 DEF SoundNext, DataOK, CleanedUp
  <2>3. \A i \in 1..Len(calls) : i # top => PendingKept(i)
    BY <1>1, <1>3, <1>6, MoveKeepsPending DEF LeakInv, FrameInv
  <2>4. \A i \in 1..Len(calls') : (Kept(i) /\ PendingKept(i)) \/ SoundNext(calls'[i])
    BY <1>4, <2>2, <2>3 DEF Kept
  <2> QED BY <2>1, <2>4, FramesStay DEF LeakInv
<1>8. Released'
  BY <1>1, <1>3 DEF LeakInv, Released, DataOK, CleanedUp
<1>9. NothingOrphaned'
  <2> SUFFICES ASSUME NEW t \in States, phase'[t] \in Live, ~OnStack(t)'
               PROVE  BeingRolledBack(t)'
    BY DEF NothingOrphaned
  <2>1. t # s /\ ~OnStack(t) /\ phase[t] \in Live
    BY <1>1, <1>3 DEF Live, OnStack, DataOK
  <2>2. PICK i \in 1..Len(calls) :
          /\ calls[i].op = "rollback"
          /\ \/ t = calls[i].state
             \/ \E j \in 2..Len(calls[i].rest) : t = calls[i].rest[j]
    BY <2>1 DEF LeakInv, NothingOrphaned, BeingRolledBack
  <2>3. i # top
    <3>1. Len(Top.rest) \in Nat
      BY <1>1, TopType, LenProperties DEF CallsOK
    <3>2. 2..Len(Top.rest) = {}
      BY <1>1, <3>1
    <3> QED BY <1>4, <2>1, <2>2, <3>2 DEF s
  <2> QED BY <1>4, <2>2, <2>3 DEF Kept, BeingRolledBack
<1> QED BY <1>7, <1>8, <1>9 DEF LeakInv

LEMMA EngineStepLeaks ==
  ASSUME DataOK, CallsOK, StackInv, LeakInv, EngineStep
  PROVE  LeakInv'
<1>1. ASSUME RollbackDone \/ ClearedOnly \/ DisposeEnds PROVE LeakInv'
  BY <1>1, ReturnLeaks DEF RollbackDone, ClearedOnly, DisposeEnds, In, Running
<1>2. ASSUME ClearNext PROVE LeakInv'
  <2>1. calls # <<>> /\ Top.at \in Nat
    BY <1>2, TopType DEF ClearNext, Clearing, Running, CallsOK
  <2>2. stack # <<>>
    BY <1>2, <2>1, EmptySeq DEF ClearNext
  <2>3. Last(stack) \in States /\ OnStack(Last(stack))
    BY <1>2, <2>2, FrontShrinks DEF ClearNext, StackInv, StackIsLive
  <2> QED BY <1>2, <2>2, <2>3, FrontKeepsOthers, RemoveLeaks DEF ClearNext
<1>3. ASSUME ClearedThenPush PROVE LeakInv'
  <2>1. calls # <<>> /\ Top.state \in States /\ Top.op # "rollback"
    BY <1>3, TopType DEF ClearedThenPush, Running, CallsOK, FramesNameStates, StateOps
  <2> DEFINE s == Top.state
             f == CallAt("onEnter", s, Len(stack))
  <2>2. /\ Push(s) /\ Unborn(s) /\ Become(f)
        /\ components' = components /\ runners' = runners
    BY <1>3 DEF ClearedThenPush
  <2>3. Good(f) /\ SoundNext(f)
    BY <2>1, <2>2, PushType, NewCallOK DEF UserOps, SoundNext, CallAt
  <2> HIDE DEF f, s
  <2>4. s \in States /\ phase' = [phase EXCEPT ![s] = "entering"]
    BY <2>1, <2>2 DEF s, Push
  <2>5. FrameInv'
    <3>1. PhasesMoveOn /\ \A i \in 1..Len(calls) : PendingKept(i)
      BY <2>2, <2>4, PushKeeps DEF LeakInv
    <3>2. \A i \in 1..Len(calls') : Kept(i) \/ calls'[i] = f
      BY <2>1, <2>2, <2>3, BecomeKeeps
    <3> QED BY <2>3, <3>1, <3>2, FramesStay DEF LeakInv, Kept
  <2>6. Released'
    BY <2>2, <2>4 DEF LeakInv, Released, DataOK, CleanedUp
  <2>7. NothingOrphaned'
    <3>1. RollbacksKept
      BY <2>1, <2>2, <2>3, BecomeKeepsRollbacks
    <3>2. \A t \in States : t # s => phase'[t] = phase[t]
      BY <2>4 DEF DataOK
    <3> QED BY <2>2, <2>4, <3>1, <3>2, PushKeepsStack, OrphansStay DEF LeakInv
  <2> QED BY <2>5, <2>6, <2>7 DEF LeakInv
<1> QED BY <1>1, <1>2, <1>3, RollbackNextLeaks, RollbackSelfLeaks DEF EngineStep

LEMMA LeakStep ==
  ASSUME TypeInv, StackInv, LeakInv, [Next]_vars, ~ThrowsAfterMove
  PROVE  LeakInv'
<1>0. DataOK /\ CallsOK
  BY TypeInvSplit
<1>1. ASSUME Start PROVE LeakInv'
  <2>1. /\ Good(Call("onStart", NoState))
        /\ Call("onStart", NoState).op \notin {"rollback", "onExit", "onDetach"}
    BY NewCallOK DEF UserOps, StateOps, Call, CallAt
  <2> QED BY <1>0, <1>1, <2>1, CallLeaks DEF Start
<1>2. ASSUME calls' = calls, stack' = stack, phase' = phase, components' = components,
             runners' \subseteq runners
      PROVE  LeakInv'
  <2>1. FrameInv'
    <3>1. FramesSound'
      BY <1>2 DEF LeakInv, FrameInv, FramesSound, FrameSound
    <3>2. PendingOnce'
      BY <1>2 DEF LeakInv, FrameInv, PendingOnce
    <3> QED BY <3>1, <3>2 DEF FrameInv
  <2>2. RollbacksKept
    BY <1>2 DEF RollbacksKept, Kept
  <2>3. NothingOrphaned'
    BY <1>2, <2>2, CalmOrphans DEF LeakInv
  <2> QED BY <1>2, <2>1, <2>3 DEF LeakInv, Released
<1>3. ASSUME NEW s \in States, ScriptEnds(s) PROVE LeakInv'
  BY <1>2, <1>3 DEF ScriptEnds
<1>4. CASE UNCHANGED vars
  BY <1>2, <1>4 DEF vars
<1> QED
  BY <1>0, <1>1, <1>3, <1>4, UserCallLeaks, HookEndsLeaks, EngineStepLeaks DEF Next

LEMMA LeakInit == Init => StackInv /\ LeakInv
<1> SUFFICES ASSUME Init PROVE StackInv /\ LeakInv
  OBVIOUS
<1>1. Len(stack) = 0 /\ Len(calls) = 0
  BY EmptySeq DEF Init
<1>2. StackInv
  BY <1>1 DEF StackInv, StackIsLive, Distinct, OffStack
<1>3. FrameInv
  BY <1>1 DEF FrameInv, FramesSound, PendingOnce
<1>4. Released /\ NothingOrphaned
  BY DEF Init, Released, NothingOrphaned, CleanedUp, Live
<1> QED BY <1>2, <1>3, <1>4 DEF LeakInv

\* TypeInv, StackInv and LeakInv together are inductive.
LEMMA LeakInvariant ==
  ASSUME ~ThrowsAfterMove
  PROVE  Spec => [](TypeInv /\ StackInv /\ LeakInv)
<1>1. TypeInv /\ StackInv /\ LeakInv /\ [Next]_vars => StackInv' /\ LeakInv'
  BY StackStep, LeakStep
<1> QED BY <1>1, LeakInit, TypeInvariant, PTL DEF Spec

\* A state that was entered stays on the stack until it is removed, or is about to be cleaned
\* up by the rollback that took it off (pushState, gameEngine.ts).
THEOREM NoStateIsOrphaned ==
  ASSUME ~ThrowsAfterMove
  PROVE  Spec => []NothingOrphaned
<1>1. LeakInv => NothingOrphaned
  BY DEF LeakInv
<1> QED BY <1>1, LeakInvariant, PTL

\* Nothing is lost (docs/architecture.md:22-24): besides, a state that was cleaned up holds
\* neither a component nor a runner, as long as game code adds neither to a state it has left.
THEOREM NothingIsLost ==
  ASSUME ~ThrowsAfterMove, ~AcquiresAfterExit
  PROVE  Spec => []NothingLeaks
<1>1. LeakInv => NothingLeaks
  BY DEF LeakInv, NothingLeaks, Released, ExitReleases, CleanedUp
<1> QED BY <1>1, LeakInvariant, PTL

-----------------------------------------------------------------------------
(* onExit is called once. *)

\* State s is alive before the step and on its way out after it.
GoesOut(s) == phase[s] \in Live /\ phase'[s] = "leaving"

\* The onExit frames that a step adds work for such states.
ExitsAreFirst ==
  \A i \in 1..Len(calls') :
    calls'[i].op = "onExit" => Kept(i) \/ GoesOut(calls'[i].state)

LEMMA LeaveNoExit ==
  ASSUME CallsOK, calls # <<>>, NEW threw, Leave(threw)
  PROVE  ExitsAreFirst
  BY LeaveKeeps DEF ExitsAreFirst

LEMMA EnterNoExit ==
  ASSUME CallsOK, NEW f, Good(f), Enter(f), f.op # "onExit"
  PROVE  ExitsAreFirst
  BY EnterKeeps DEF ExitsAreFirst

LEMMA BecomeNoExit ==
  ASSUME CallsOK, calls # <<>>, NEW f, Good(f), Become(f), f.op # "onExit"
  PROVE  ExitsAreFirst
<1>1. \A i \in 1..Len(calls') : Kept(i) \/ calls'[i] = f
  BY BecomeKeeps
<1> QED BY <1>1 DEF ExitsAreFirst

LEMMA ExitOfLive ==
  ASSUME DataOK, CallsOK, StackInv, NEW s \in States, OnStack(s), RemoveState(s)
  PROVE  ExitsAreFirst
<1>1. GoesOut(s)
  BY DEF StackInv, StackIsLive, OnStack, GoesOut, RemoveState, DataOK
<1>2. Good(Call("onExit", s)) /\ Call("onExit", s).state = s
  BY NewCallOK DEF UserOps, Call, CallAt
<1>3. \A i \in 1..Len(calls') : Kept(i) \/ calls'[i] = Call("onExit", s)
  BY <1>2, EnterKeeps DEF RemoveState
<1> QED BY <1>1, <1>2, <1>3 DEF ExitsAreFirst

LEMMA UserCallExits ==
  ASSUME DataOK, CallsOK, StackInv, UserCall
  PROVE  ExitsAreFirst
<1>1. ASSUME NEW s \in States, PushState(s) PROVE ExitsAreFirst
  <2>1. /\ Good(CallAt("onEnter", s, Len(stack)))
        /\ CallAt("onEnter", s, Len(stack)).op # "onExit"
    BY NewCallOK, LenProperties DEF UserOps, CallAt, DataOK
  <2> QED BY <1>1, <2>1, EnterNoExit DEF PushState
<1>2. ASSUME PopState PROVE ExitsAreFirst
  <2>1. Last(stack) \in States /\ OnStack(Last(stack))
    BY <1>2, FrontFacts DEF PopState, DataOK, OnStack
  <2> QED BY <1>2, <2>1, ExitOfLive DEF PopState
<1>3. ASSUME NEW s \in States, DeleteState(s) PROVE ExitsAreFirst
  BY <1>3, ExitOfLive DEF DeleteState
<1>4. ASSUME NEW s \in States, ResetState(s) PROVE ExitsAreFirst
  <2>1. Good(CallAt("reset", s, 0)) /\ CallAt("reset", s, 0).op # "onExit"
    BY NewCallOK DEF EngineOps, CallAt
  <2> QED BY <1>4, <2>1, EnterNoExit DEF ResetState
<1>5. ASSUME NEW t \in States, NEW s \in States, ReplaceFrom(t, s) PROVE ExitsAreFirst
  <2>1. HeightOf(t) - 1 \in Nat
    BY <1>5 DEF ReplaceFrom, OnStack, HeightOf
  <2>2. /\ Good(CallAt("replace", s, HeightOf(t) - 1))
        /\ CallAt("replace", s, HeightOf(t) - 1).op # "onExit"
    BY <2>1, NewCallOK DEF EngineOps, CallAt
  <2> QED BY <1>5, <2>2, EnterNoExit DEF ReplaceFrom
<1>6. ASSUME NEW s \in States, AddComponent(s) \/ DeleteComponent(s) PROVE ExitsAreFirst
  <2>1. /\ Good(Call("onAttach", s)) /\ Call("onAttach", s).op # "onExit"
        /\ Good(Call("deleted", s)) /\ Call("deleted", s).op # "onExit"
    BY NewCallOK DEF UserOps, Call, CallAt
  <2> QED BY <1>6, <2>1, EnterNoExit DEF AddComponent, DeleteComponent
<1>7. ASSUME NEW s \in States, RunScript(s) PROVE ExitsAreFirst
  BY <1>7 DEF RunScript, ExitsAreFirst, Kept
<1>8. ASSUME Stop \/ DisposeAll PROVE ExitsAreFirst
  <2>1. /\ Good(Disposing) /\ Disposing.op # "onExit"
        /\ Good(Call("onStop", NoState)) /\ Call("onStop", NoState).op # "onExit"
    BY NewCallOK DEF UserOps, EngineOps, StateOps, Disposing, Call, CallAt
  <2> QED BY <1>8, <2>1, EnterNoExit DEF Stop, DisposeAll
<1> QED BY <1>1, <1>2, <1>3, <1>4, <1>5, <1>6, <1>7, <1>8 DEF UserCall

LEMMA HookEndsExits ==
  ASSUME DataOK, CallsOK, HookEnds
  PROVE  ExitsAreFirst
<1>1. ASSUME EnterThrows PROVE ExitsAreFirst
  <2>1. calls # <<>> /\ Top.state \in States /\ Top.at \in Nat
    BY <1>1, InState, TopType DEF EnterThrows, StateOps, CallsOK
  <2>2. Good(Rollback(Top.state, Top.at)) /\ Rollback(Top.state, Top.at).op # "onExit"
    BY <2>1, RollbackFrame DEF DataOK
  <2> QED BY <1>1, <2>1, <2>2, BecomeNoExit DEF EnterThrows
<1>2. ASSUME NEW threw \in BOOLEAN, ExitEnds(threw) PROVE ExitsAreFirst
  <2>1. calls # <<>> /\ Top.state \in States
    BY <1>2, InState DEF ExitEnds, StateOps
  <2> DEFINE f == [Call("onDetach", Top.state) EXCEPT !.failed = threw]
  <2>2. Good(f) /\ f.op # "onExit"
    BY <2>1, CallType DEF Good, Frame, UserOps, Call, CallAt
  <2>3. Become(f)
    BY <1>2 DEF ExitEnds
  <2> HIDE DEF f
  <2> QED BY <2>1, <2>2, <2>3, BecomeNoExit
<1>3. ASSUME NEW threw \in BOOLEAN, DetachEnds(threw) PROVE ExitsAreFirst
  BY <1>3, LeaveNoExit DEF DetachEnds, In, Running
<1>4. ASSUME EnterReturns \/ AttachReturns \/ AttachThrows \/ DeletedEnds \/ StartReturns
      PROVE  ExitsAreFirst
  BY <1>4, LeaveNoExit DEF EnterReturns, AttachReturns, AttachThrows, DeletedEnds,
                           StartReturns, In, Running
<1>5. ASSUME calls # <<>>, ThenDispose PROVE ExitsAreFirst
  <2>1. Good(Disposing) /\ Disposing.op # "onExit"
    BY NewCallOK DEF EngineOps, StateOps, Disposing, CallAt
  <2> QED BY <1>5, <2>1, LeaveNoExit, BecomeNoExit DEF ThenDispose
<1>6. ASSUME StartThrows PROVE ExitsAreFirst
  BY <1>5, <1>6 DEF StartThrows, In, Running
<1>7. ASSUME NEW threw \in BOOLEAN, StopEnds(threw) PROVE ExitsAreFirst
  BY <1>5, <1>7 DEF StopEnds, In, Running
<1> QED BY <1>1, <1>2, <1>3, <1>4, <1>6, <1>7 DEF HookEnds

LEMMA EngineStepExits ==
  ASSUME DataOK, CallsOK, StackInv, LeakInv, EngineStep
  PROVE  ExitsAreFirst
<1>1. ASSUME NEW g, Good(g), g.op # "onExit", NEW f, Good(f), calls # <<>>,
             BecomeThenEnter(g, f), f.op = "onExit" => GoesOut(f.state)
      PROVE  ExitsAreFirst
  <2>1. \A i \in 1..Len(calls') : Kept(i) \/ calls'[i] = f \/ calls'[i] = g
    BY <1>1, BecomeThenEnterKeeps
  <2> QED BY <1>1, <2>1 DEF ExitsAreFirst
<1>2. ASSUME RollbackNext PROVE ExitsAreFirst
  <2>1. /\ calls # <<>> /\ Top.state \in States /\ Top.rest \in Seq(States)
        /\ Top \in Frame /\ Top.op = "rollback"
    BY <1>2, InState, TopType DEF RollbackNext, StateOps, CallsOK
  <2>2. Top.rest # <<>>
    BY <1>2, EmptySeq DEF RollbackNext
  <2>3. Last(Top.rest) \in States /\ Front(Top.rest) \in Seq(States)
    BY <2>1, <2>2, FrontFacts
  <2> DEFINE g == [Top EXCEPT !.rest = Front(@)]
             f == Call("onExit", Last(Top.rest))
  <2>4. Good(g) /\ g.op # "onExit"
    BY <2>1, <2>3 DEF Good, Frame
  <2>5. Good(f) /\ f.state = Last(Top.rest)
    BY <2>3, NewCallOK DEF UserOps, Call, CallAt
  <2>7. GoesOut(f.state)
    BY <1>2, <2>3, <2>5, RollbackNextLeaks DEF RollbackNext, GoesOut, DataOK
  <2>6. BecomeThenEnter(g, f)
    BY <1>2 DEF RollbackNext
  <2> HIDE DEF f, g
  <2> QED BY <1>1, <2>1, <2>4, <2>5, <2>6, <2>7
<1>3. ASSUME RollbackSelf PROVE ExitsAreFirst
  <2>1. calls # <<>> /\ Top.state \in States
    BY <1>3, InState DEF RollbackSelf, StateOps
  <2>2. /\ Good(Call("failed", Top.state)) /\ Call("failed", Top.state).op # "onExit"
        /\ Good(Call("onDetach", Top.state)) /\ Call("onDetach", Top.state).op # "onExit"
    BY <2>1, NewCallOK DEF UserOps, EngineOps, Call, CallAt
  <2> QED BY <1>1, <1>3, <2>1, <2>2 DEF RollbackSelf
<1>4. ASSUME ClearNext PROVE ExitsAreFirst
  <2>1. calls # <<>> /\ Top.at \in Nat
    BY <1>4, TopType DEF ClearNext, Clearing, Running, CallsOK
  <2>2. stack # <<>>
    BY <1>4, <2>1, EmptySeq DEF ClearNext
  <2>3. Last(stack) \in States /\ OnStack(Last(stack))
    BY <2>2, FrontFacts DEF DataOK, OnStack
  <2> QED BY <1>4, <2>3, ExitOfLive DEF ClearNext
<1>5. ASSUME ClearedThenPush PROVE ExitsAreFirst
  <2>1. calls # <<>> /\ Top.state \in States
    BY <1>5, TopType DEF ClearedThenPush, Running, CallsOK, FramesNameStates, StateOps
  <2>2. /\ Good(CallAt("onEnter", Top.state, Len(stack)))
        /\ CallAt("onEnter", Top.state, Len(stack)).op # "onExit"
    BY <2>1, NewCallOK, LenProperties DEF UserOps, DataOK, CallAt
  <2> QED BY <1>5, <2>1, <2>2, BecomeNoExit DEF ClearedThenPush
<1>6. ASSUME RollbackDone \/ ClearedOnly \/ DisposeEnds PROVE ExitsAreFirst
  BY <1>6, LeaveNoExit DEF RollbackDone, ClearedOnly, DisposeEnds, In, Running
<1> QED BY <1>2, <1>3, <1>4, <1>5, <1>6 DEF EngineStep

LEMMA StepExits ==
  ASSUME TypeInv, StackInv, LeakInv, [Next]_vars
  PROVE  ExitsAreFirst
<1>0. DataOK /\ CallsOK
  BY TypeInvSplit
<1>1. ASSUME Start PROVE ExitsAreFirst
  <2>1. Good(Call("onStart", NoState)) /\ Call("onStart", NoState).op # "onExit"
    BY NewCallOK DEF UserOps, StateOps, Call, CallAt
  <2> QED BY <1>0, <1>1, <2>1, EnterNoExit DEF Start
<1>2. ASSUME calls' = calls PROVE ExitsAreFirst
  BY <1>2 DEF ExitsAreFirst, Kept
<1> QED BY <1>0, <1>1, <1>2, UserCallExits, HookEndsExits, EngineStepExits
        DEF Next, ScriptEnds, vars

\* States only become live by being pushed for the first time.
LEMMA NeverLiveAgain ==
  ASSUME TypeInv, [Next]_vars, NEW s \in States, phase[s] \notin Live \union {"unborn"}
  PROVE  phase'[s] \notin Live
<1>0. phase \in [States -> Phases]
  BY DEF TypeInv, TypeOK
<1>1. ASSUME UserCall PROVE phase'[s] \notin Live
  BY <1>0, <1>1 DEF UserCall, PushState, PopState, DeleteState, ResetState, ReplaceFrom,
     AddComponent, DeleteComponent, RunScript, Stop, DisposeAll, Push, RemoveState, Unborn, Live
<1>2. ASSUME HookEnds PROVE phase'[s] \notin Live
  BY <1>0, <1>2 DEF HookEnds, EnterReturns, EnterThrows, ExitEnds, DetachEnds, AttachReturns,
     AttachThrows, DeletedEnds, StartReturns, StartThrows, StopEnds, Clean, Live
<1>3. ASSUME EngineStep PROVE phase'[s] \notin Live
  BY <1>0, <1>3 DEF EngineStep, RollbackNext, RollbackSelf, RollbackDone, ClearNext,
     ClearedThenPush, ClearedOnly, DisposeEnds, Push, RemoveState, Clean, Unborn, Live
<1> QED BY <1>0, <1>1, <1>2, <1>3 DEF Next, Start, ScriptEnds, vars

\* The user's onExit is called at most once for a state, and only for one that was entered or
\* began to be, whatever the hooks pop, stop or throw (removeState, gameEngine.ts): each new
\* call takes a live state, one made from within another onExit too, and the state is live
\* no more.
THEOREM ExitIsCalledOnce ==
  ASSUME ~ThrowsAfterMove
  PROVE  Spec => ExitCalledOnce
<1>1. ASSUME TypeInv, StackInv, LeakInv, [Next]_vars
      PROVE  \A s \in States :
               /\ \/ ExitsOf(calls', s) \subseteq ExitsOf(calls, s)
                  \/ phase[s] \in Live /\ phase'[s] \notin Live
               /\ phase[s] \notin Live \union {"unborn"} => phase'[s] \notin Live
  <2>1. ASSUME NEW s \in States, NEW i \in ExitsOf(calls', s), i \notin ExitsOf(calls, s)
        PROVE  GoesOut(s)
    <3>1. i \in 1..Len(calls') /\ calls'[i].op = "onExit" /\ calls'[i].state = s
      BY <2>1 DEF ExitsOf
    <3>2. ~Kept(i)
      BY <2>1, <3>1 DEF Kept, ExitsOf
    <3> QED BY <1>1, <3>1, <3>2, StepExits DEF ExitsAreFirst
  <2>2. \A s \in States : GoesOut(s) => phase[s] \in Live /\ phase'[s] \notin Live
    BY DEF GoesOut, Live
  <2> QED BY <1>1, <2>1, <2>2, NeverLiveAgain
<1> QED BY <1>1, LeakInvariant, PTL DEF Spec, ExitCalledOnce

-----------------------------------------------------------------------------
(* The reader of the trace keeps up with the stack. *)

Notes == {"push", "enter", "exit", "remove", "error"}

ContextTypes == context \in [stack : Seq(States), nodes : [States -> SUBSET Notes]]

\* The reader has read of s before t.
Ahead(q, s, t) == \E i, j \in 1..Len(q) : i < j /\ q[i] = s /\ q[j] = t

\* The stack of the engine is part of the reader's, in the same order.
Mirrors ==
  /\ Distinct(context.stack)
  /\ \A i \in 1..Len(context.stack) : phase[context.stack[i]] # "unborn"
  /\ \A i \in 1..Len(stack) : \E j \in 1..Len(context.stack) : context.stack[j] = stack[i]
  /\ \A i, j \in 1..Len(stack) : i < j => Ahead(context.stack, stack[i], stack[j])

\* The frame f is going to remove s.
Handles(f, s) ==
  \/ f.op \in {"onExit", "onDetach"} /\ f.state = s
  \/ f.op = "rollback" /\ \E a \in 2..Len(f.rest) : f.rest[a] = s

Handled(s) == \E k \in 1..Len(calls) : Handles(calls[k], s)

\* What the engine has no more on its stack failed, or will be removed.
Accounted ==
  \A i \in 1..Len(context.stack) : \A s \in {context.stack[i]} :
    OnStack(s) \/ Failed(s) \/ Handled(s)

\* The cleanup of a failed state is its own, and what is above it on the call stack.
FrameKnown(i) ==
  /\ calls[i].op \in {"rollback", "failed"} => Failed(calls[i].state)
  /\ i > 1 /\ calls[i - 1].op = "failed" => calls[i].op = "onDetach" /\ Failed(calls[i].state)

FramesKnown == \A i \in 1..Len(calls) : FrameKnown(i)

FailuresAreOut == \A s \in States : Failed(s) => Outside(s)

NotRead(s) == \A i \in 1..Len(context.stack) : context.stack[i] # s

\* The reader was told of a removal, and has dropped the state.
Told ==
  \A s \in States :
    phase[s] = "gone" => Failed(s) \/ ("remove" \in context.nodes[s] /\ NotRead(s))

ReadInv == ContextTypes /\ Mirrors /\ Accounted /\ FramesKnown /\ FailuresAreOut /\ Told

\* A step of which the reader notes at most that a state was entered or exits.
Calm ==
  /\ ContextTypes' /\ context'.stack = context.stack
  /\ \A s \in States : /\ context.nodes[s] \subseteq context'.nodes[s]
                       /\ Failed(s)' <=> Failed(s)

LEMMA ReadCalm ==
  ASSUME ContextTypes, NEW s \in States, NEW type \in {"state.enter", "state.exit"},
         context' = Read(context, Event(type, s))
  PROVE  Calm
<1>1. \E n \in SUBSET Notes : "error" \notin n /\ context' = Note(context, s, n)
  BY DEF Read, Event, ReadOther, Notes
<1> QED BY <1>1 DEF Note, Calm, ContextTypes, Failed

LEMMA Quiet ==
  ASSUME CallsOK, ContextTypes, Reads, Pushed = {}, Removed = {}, ~Threw
  PROVE  Calm
<1>1. \A e \in Emitted : \E s \in States : \E type \in {"state.enter", "state.exit"} :
        e = Event(type, s)
  <2>1. Entered => Top.state \in States
    BY InState DEF Entered, StateOps
  <2> QED BY <2>1 DEF Emitted, Exited
<1>2. CASE Emitted = {}
  BY <1>2 DEF Reads, Calm, ContextTypes, Failed
<1>3. CASE Emitted # {}
  <2>1. PICK e \in Emitted : context' = Read(context, e)
    BY <1>3 DEF Reads
  <2> QED BY <1>1, <2>1, ReadCalm
<1> QED BY <1>2, <1>3

\* Only a push is of an unborn state, only the end of a detach makes it gone.
LEMMA NothingToTell ==
  ASSUME DataOK,
         \A s \in States : /\ phase[s] = "unborn" <=> phase'[s] = "unborn"
                           /\ phase'[s] = "gone" => phase[s] = "gone"
  PROVE  Pushed = {} /\ Removed = {}
  BY DEF Pushed, Cleaned, Removed

\* onEnter does not throw in any step but one.
LEMMA NoThrow ==
  ASSUME CallsOK,
         \/ ~In("onEnter")
         \/ calls' = calls
         \/ \E f : Good(f) /\ Enter(f)
         \/ \E threw \in BOOLEAN : calls # <<>> /\ Leave(threw)
  PROVE  ~Threw
<1>1. CASE ~In("onEnter")
  BY <1>1 DEF Threw
<1>2. CASE calls' = calls
  BY <1>2 DEF Threw, In, Top
<1>3. ASSUME NEW f, Good(f), Enter(f) PROVE Len(calls') # Len(calls)
  BY <1>3, PushFacts DEF CallsOK, Good, Enter
<1>4. ASSUME NEW threw \in BOOLEAN, calls # <<>>, Leave(threw) PROVE Len(calls') # Len(calls)
  <2>1. Len(calls') = Len(calls) - 1 /\ Len(calls) \in Nat
    BY <1>4, LeaveFrames, LenProperties DEF CallsOK
  <2> QED BY <2>1
<1> QED BY <1>1, <1>2, <1>3, <1>4 DEF Threw

-----------------------------------------------------------------------------
\* The stack after a pop, a deletion, a splice keeps its order.
KeepsOrder ==
  \A i, j \in 1..Len(stack') :
    i < j => \E a, b \in 1..Len(stack) : a < b /\ stack'[i] = stack[a] /\ stack'[j] = stack[b]

LEMMA SameOrder ==
  ASSUME stack' = stack
  PROVE  StackShrinks /\ KeepsOrder
  BY DEF StackShrinks, KeepsOrder

LEMMA FrontOrder ==
  ASSUME DataOK, stack # <<>>, stack' = Front(stack)
  PROVE  KeepsOrder
<1>1. \A i \in 1..Len(stack') : stack'[i] = stack[i] /\ i \in 1..Len(stack)
  BY FrontFacts DEF DataOK
<1> QED BY <1>1 DEF KeepsOrder

LEMMA RemoveAtOrder ==
  ASSUME DataOK, NEW k \in 1..Len(stack), stack' = RemoveAt(stack, k)
  PROVE  KeepsOrder
<1>0. Len(stack) \in Nat
  BY LenProperties DEF DataOK
<1>1. /\ Len(stack') = Len(stack) - 1
      /\ \A i \in 1..(Len(stack) - 1) :
           stack'[i] = IF i < k THEN stack[i] ELSE stack[i + 1]
  BY RemoveAtFacts DEF DataOK
<1> DEFINE from(i) == IF i < k THEN i ELSE i + 1
<1>2. \A i \in 1..Len(stack') : from(i) \in 1..Len(stack) /\ stack'[i] = stack[from(i)]
  BY <1>0, <1>1
<1>3. \A i, j \in 1..Len(stack') : i < j => from(i) < from(j)
  BY <1>0, <1>1
<1> HIDE DEF from
<1> QED BY <1>2, <1>3 DEF KeepsOrder

LEMMA BelowOrder ==
  ASSUME DataOK, NEW n \in Nat, stack' = Below(n)
  PROVE  KeepsOrder
<1>1. \A i \in 1..Len(stack') : stack'[i] = stack[i] /\ i \in 1..Len(stack)
  BY SpliceFacts DEF DataOK
<1> QED BY <1>1 DEF KeepsOrder

StayBorn == \A s \in States : phase[s] # "unborn" => phase'[s] # "unborn"

LEMMA MirrorsStay ==
  ASSUME ContextTypes, Mirrors, context'.stack = context.stack, StackShrinks, KeepsOrder, StayBorn
  PROVE  Mirrors'
<1>1. \A i \in 1..Len(context.stack) : context.stack[i] \in States
  BY ElementOfSeq DEF ContextTypes
<1>2. \A i \in 1..Len(context'.stack) : phase'[context'.stack[i]] # "unborn"
  BY <1>1 DEF Mirrors, StayBorn
<1>3. \A i \in 1..Len(stack') : \E j \in 1..Len(context'.stack) : context'.stack[j] = stack'[i]
  BY DEF Mirrors, StackShrinks
<1>4. \A i, j \in 1..Len(stack') : i < j => Ahead(context'.stack, stack'[i], stack'[j])
  BY DEF Mirrors, KeepsOrder
<1> QED BY <1>2, <1>3, <1>4 DEF Mirrors, Distinct

LEMMA MirrorsPush ==
  ASSUME DataOK, ContextTypes, Mirrors, NEW s \in States, Unborn(s), Push(s),
         context'.stack = Append(context.stack, s)
  PROVE  Mirrors'
<1> DEFINE c == context.stack
           d == context'.stack
<1>1. /\ Len(stack') = Len(stack) + 1 /\ Len(stack) \in Nat
      /\ \A i \in 1..Len(stack) : stack'[i] = stack[i]
      /\ stack'[Len(stack) + 1] = s
      /\ \A i \in 1..Len(stack') : i \in 1..Len(stack) \/ i = Len(stack) + 1
  BY PushStack
<1>2. /\ Len(d) = Len(c) + 1 /\ Len(c) \in Nat
      /\ \A i \in 1..Len(c) : d[i] = c[i] /\ c[i] \in States
      /\ d[Len(c) + 1] = s
      /\ \A i \in 1..Len(d) : i \in 1..Len(c) \/ i = Len(c) + 1
  <2>1. c \in Seq(States)
    BY DEF ContextTypes
  <2>2. /\ Len(Append(c, s)) = Len(c) + 1 /\ Len(c) \in Nat
        /\ \A i \in 1..Len(c) : Append(c, s)[i] = c[i]
        /\ Append(c, s)[Len(c) + 1] = s
    BY <2>1, PushFacts
  <2>3. \A i \in 1..Len(c) : c[i] \in States
    BY <2>1, ElementOfSeq
  <2> HIDE DEF c, d
  <2>4. d = Append(c, s)
    BY DEF c, d
  <2> QED BY <2>2, <2>3, <2>4
<1>3. \A t \in States : phase'[t] = IF t = s THEN "entering" ELSE phase[t]
  BY DEF Push, DataOK
<1>4. \A i \in 1..Len(c) : c[i] # s
  BY <1>2 DEF Mirrors, Unborn
<1>5. /\ Distinct(c)
      /\ \A i \in 1..Len(c) : phase[c[i]] # "unborn"
      /\ \A i \in 1..Len(stack) : \E j \in 1..Len(c) : c[j] = stack[i]
      /\ \A i, j \in 1..Len(stack) : i < j => Ahead(c, stack[i], stack[j])
  BY DEF Mirrors
<1> HIDE DEF c, d
<1>6. Distinct(d)
  <2> SUFFICES ASSUME NEW i \in 1..Len(d), NEW j \in 1..Len(d), d[i] = d[j] PROVE i = j
    BY DEF Distinct
  <2>1. CASE i \in 1..Len(c) /\ j \in 1..Len(c)
    <3>1. c[i] = c[j]
      BY <1>2, <2>1
    <3> QED BY <1>5, <2>1, <3>1 DEF Distinct
  <2>2. CASE ~(i \in 1..Len(c) /\ j \in 1..Len(c))
    BY <1>2, <1>4, <2>2
  <2> QED BY <2>1, <2>2
<1>7. \A i \in 1..Len(d) : phase'[d[i]] # "unborn"
  <2> TAKE i \in 1..Len(d)
  <2>1. CASE i \in 1..Len(c)
    BY <1>2, <1>3, <1>4, <1>5, <2>1
  <2>2. CASE i = Len(c) + 1
    BY <1>2, <1>3, <2>2
  <2> QED BY <1>2, <2>1, <2>2
<1>8. \A i \in 1..Len(c) : i \in 1..Len(d)
  BY <1>2
<1>9. Len(c) + 1 \in 1..Len(d) /\ \A i \in 1..Len(c) : i < Len(c) + 1
  BY <1>2
<1>10. \A i \in 1..Len(stack') : \E j \in 1..Len(d) : d[j] = stack'[i]
  <2> TAKE i \in 1..Len(stack')
  <2>1. CASE i \in 1..Len(stack)
    <3>1. PICK j \in 1..Len(c) : c[j] = stack[i]
      BY <1>5, <2>1
    <3> QED BY <1>1, <1>2, <1>8, <2>1, <3>1
  <2>2. CASE i = Len(stack) + 1
    BY <1>1, <1>2, <1>9, <2>2
  <2> QED BY <1>1, <2>1, <2>2
<1>11. \A i, j \in 1..Len(stack') : i < j => Ahead(d, stack'[i], stack'[j])
  <2> SUFFICES ASSUME NEW i \in 1..Len(stack'), NEW j \in 1..Len(stack'), i < j
               PROVE  Ahead(d, stack'[i], stack'[j])
    OBVIOUS
  <2>1. i \in 1..Len(stack)
    BY <1>1
  <2>2. CASE j \in 1..Len(stack)
    <3>1. PICK a \in 1..Len(c), b \in 1..Len(c) : a < b /\ c[a] = stack[i] /\ c[b] = stack[j]
      BY <1>5, <2>1, <2>2 DEF Ahead
    <3>2. a \in 1..Len(d) /\ b \in 1..Len(d) /\ d[a] = stack'[i] /\ d[b] = stack'[j]
      BY <1>1, <1>2, <1>8, <2>1, <2>2, <3>1
    <3> QED BY <3>1, <3>2 DEF Ahead
  <2>3. CASE j = Len(stack) + 1
    <3>1. PICK a \in 1..Len(c) : c[a] = stack[i]
      BY <1>5, <2>1
    <3>2. a \in 1..Len(d) /\ a < Len(c) + 1 /\ d[a] = stack'[i] /\ d[Len(c) + 1] = stack'[j]
      BY <1>1, <1>2, <1>8, <1>9, <2>1, <2>3, <3>1
    <3> QED BY <1>9, <3>2 DEF Ahead
  <2> QED BY <1>1, <2>2, <2>3
<1> QED BY <1>6, <1>7, <1>10, <1>11 DEF Mirrors, d

LEMMA RemoveFirstIs ==
  ASSUME NEW S, NEW s \in Seq(S), NEW k \in 1..Len(s),
         \A i \in 1..Len(s) : s[i] = s[k] => k <= i
  PROVE  RemoveFirst(s, s[k]) = RemoveAt(s, k)
<1> DEFINE I == {i \in 1..Len(s) : s[i] = s[k]}
<1>1. I \in SUBSET Nat /\ k \in I /\ \A j \in I : k <= j
  OBVIOUS
<1>2. Min(I) = k
  <2>1. \A x \in I : (\A y \in I : x <= y) => x = k
    BY <1>1
  <2> QED BY <1>1, <2>1 DEF Min
<1>3. SelectInSeq(s, LAMBDA v : v = s[k]) = k
  BY <1>1, <1>2 DEF SelectInSeq
<1> QED BY <1>3 DEF RemoveFirst

LEMMA MirrorsRemove ==
  ASSUME DataOK, ContextTypes, Mirrors, NEW s \in States, ~OnStack(s), stack' = stack, StayBorn,
         context'.stack = RemoveFirst(context.stack, s)
  PROVE  /\ Mirrors' /\ context'.stack \in Seq(States)
         /\ \A i \in 1..Len(context'.stack) :
              /\ context'.stack[i] # s
              /\ \E j \in 1..Len(context.stack) : context'.stack[i] = context.stack[j]
<1> DEFINE c == context.stack
           d == context'.stack
<1>1. c \in Seq(States) /\ Len(c) \in Nat /\ \A i \in 1..Len(c) : c[i] \in States
  BY ElementOfSeq, LenProperties DEF ContextTypes
<1>2. CASE \A i \in 1..Len(c) : c[i] # s
  <2>1. d = c
    BY <1>2 DEF RemoveFirst
  <2>2. Mirrors'
    BY <2>1, SameOrder, MirrorsStay
  <2> QED BY <1>1, <1>2, <2>1, <2>2
<1>3. CASE \E k \in 1..Len(c) : c[k] = s
  <2>1. PICK k \in 1..Len(c) : c[k] = s
    BY <1>3
  <2>2. Distinct(c)
    BY DEF Mirrors
  <2>3. d = RemoveAt(c, k)
    <3>1. \A i \in 1..Len(c) : c[i] = c[k] => k <= i
      BY <1>1, <2>2 DEF Distinct
    <3> HIDE DEF c
    <3>2. RemoveFirst(c, c[k]) = RemoveAt(c, k)
      BY <1>1, <3>1, RemoveFirstIs
    <3> QED BY <2>1, <3>2 DEF c
  <2>4. /\ d \in Seq(States) /\ Len(d) = Len(c) - 1
        /\ \A i \in 1..(Len(c) - 1) : d[i] = IF i < k THEN c[i] ELSE c[i + 1]
    <3> HIDE DEF c, d
    <3> QED BY <1>1, <2>3, RemoveAtFacts
  <2>5. /\ \A i \in 1..Len(c) : phase[c[i]] # "unborn"
        /\ \A i \in 1..Len(stack) : \E j \in 1..Len(c) : c[j] = stack[i]
        /\ \A i, j \in 1..Len(stack) : i < j => Ahead(c, stack[i], stack[j])
    BY DEF Mirrors
  <2> DEFINE from(i) == IF i < k THEN i ELSE i + 1
             to(i) == IF i < k THEN i ELSE i - 1
  <2> HIDE DEF c, d
  <2>6. \A i \in 1..Len(d) : from(i) \in 1..Len(c) /\ from(i) # k /\ d[i] = c[from(i)]
    BY <1>1, <2>4
  <2>7. \A i, j \in 1..Len(d) : from(i) = from(j) => i = j
    BY <1>1, <2>4
  <2>8. \A i \in 1..Len(c) : i # k => to(i) \in 1..Len(d) /\ from(to(i)) = i
    BY <1>1, <2>4
  <2>9. \A i, j \in 1..Len(c) : i # k /\ j # k /\ i < j => to(i) < to(j)
    BY <1>1, <2>4
  <2> HIDE DEF from, to
  <2>10. \A i \in 1..Len(c) : i # k => to(i) \in 1..Len(d) /\ d[to(i)] = c[i]
    BY <2>6, <2>8
  <2>11. Distinct(d)
    BY <2>2, <2>6, <2>7 DEF Distinct
  <2>12. \A i \in 1..Len(d) : d[i] # s /\ \E j \in 1..Len(c) : d[i] = c[j]
    BY <2>1, <2>2, <2>6 DEF Distinct
  <2>13. \A i \in 1..Len(d) : phase'[d[i]] # "unborn"
    BY <1>1, <2>5, <2>12 DEF StayBorn
  <2>14. \A i \in 1..Len(stack) : \A j \in 1..Len(c) : c[j] = stack[i] => j # k
    BY <2>1 DEF OnStack
  <2>15. \A i \in 1..Len(stack) : \E j \in 1..Len(d) : d[j] = stack[i]
    BY <2>5, <2>10, <2>14
  <2>16. \A i, j \in 1..Len(stack) : i < j => Ahead(d, stack[i], stack[j])
    <3> SUFFICES ASSUME NEW i \in 1..Len(stack), NEW j \in 1..Len(stack), i < j
                 PROVE  Ahead(d, stack[i], stack[j])
      OBVIOUS
    <3>1. PICK a \in 1..Len(c), b \in 1..Len(c) : a < b /\ c[a] = stack[i] /\ c[b] = stack[j]
      BY <2>5 DEF Ahead
    <3>2. a # k /\ b # k
      BY <2>14, <3>1
    <3>3. /\ to(a) \in 1..Len(d) /\ to(b) \in 1..Len(d) /\ to(a) < to(b)
          /\ d[to(a)] = stack[i] /\ d[to(b)] = stack[j]
      BY <2>9, <2>10, <3>1, <3>2
    <3> QED BY <3>3 DEF Ahead
  <2>17. Mirrors'
    BY <2>11, <2>13, <2>15, <2>16 DEF Mirrors, d
  <2> QED BY <2>4, <2>12, <2>17 DEF c, d
<1> QED BY <1>2, <1>3

-----------------------------------------------------------------------------
\* The reader forgets no failure.
FailedNext(s) == "error" \in context'.nodes[s]

FailuresStay == \A s \in States : Failed(s) => Failed(s)'

LEMMA KeptHandles ==
  ASSUME NEW i \in 1..Len(calls'), Kept(i), NEW t, Handles(calls[i], t)
  PROVE  Handled(t)'
<1>1. Handles(calls'[i], t)
  BY DEF Kept, Handles
<1> QED BY <1>1 DEF Handled, Handles

LEMMA KeptIsKnown ==
  ASSUME CallsOK, FramesKnown, FailuresStay,
         NEW i \in 1..Len(calls'), Kept(i), i > 1 => Kept(i - 1)
  PROVE  FrameKnown(i)'
<1>1. /\ i \in 1..Len(calls) /\ FrameKnown(i)
      /\ calls'[i].op = calls[i].op /\ calls'[i].state = calls[i].state
      /\ i > 1 => calls'[i - 1].op = calls[i - 1].op
  BY DEF Kept, FramesKnown
<1>2. calls[i].op \in {"rollback", "failed", "onDetach"} => calls[i].state \in States
  BY <1>1 DEF CallsOK, FramesNameStates, StateOps
<1> QED BY <1>1, <1>2 DEF FrameKnown, FailuresStay

LEMMA HandledUnder ==
  ASSUME calls # <<>> => Len(calls) \in 1..Len(calls) /\ Top = calls[Len(calls)],
         \A i \in 1..Len(calls) : i # Len(calls) => i \in 1..Len(calls') /\ Kept(i)
  PROVE  \A t : Handled(t) => Handled(t)' \/ Handles(Top, t)
<1> SUFFICES ASSUME NEW t, NEW k \in 1..Len(calls), Handles(calls[k], t)
             PROVE  Handled(t)' \/ Handles(Top, t)
  BY DEF Handled
<1>1. CASE k = Len(calls)
  <2>1. calls # <<>>
    BY EmptySeq
  <2> QED BY <1>1, <2>1
<1>2. CASE k # Len(calls)
  BY <1>2, KeptHandles
<1> QED BY <1>1, <1>2

\* Who is handled, and what is known of failures, after a call, a tail call, both, a return.
LEMMA EnterFollows ==
  ASSUME CallsOK, FramesKnown, FailuresStay, NEW f, Good(f), Enter(f),
         f.op \notin {"rollback", "failed"}, calls # <<>> => Top.op # "failed"
  PROVE  /\ FramesKnown'
         /\ \A t : Handled(t) => Handled(t)'
         /\ \A t : Handles(f, t) => Handled(t)'
<1>1. /\ Len(calls') = Len(calls) + 1 /\ Len(calls) \in Nat
      /\ \A i \in 1..Len(calls) : calls'[i] = calls[i]
      /\ calls'[Len(calls) + 1] = f
  BY AppendProperties, LenProperties DEF CallsOK, Enter, Good
<1>2. \A i \in 1..Len(calls) : i \in 1..Len(calls') /\ Kept(i)
  BY <1>1 DEF Kept
<1>3. FramesKnown'
  <2> SUFFICES ASSUME NEW i \in 1..Len(calls') PROVE FrameKnown(i)'
    BY DEF FramesKnown
  <2>1. CASE i = Len(calls) + 1
    <3>1. i > 1 => calls'[i - 1].op # "failed"
      <4> SUFFICES ASSUME i > 1 PROVE calls'[i - 1].op # "failed"
        OBVIOUS
      <4>1. i - 1 = Len(calls) /\ i - 1 \in 1..Len(calls)
        BY <1>1, <2>1
      <4>2. calls # <<>>
        BY <4>1, EmptySeq
      <4>3. Top = calls[i - 1]
        BY <4>1, <4>2, TopType DEF CallsOK
      <4> QED BY <1>1, <4>1, <4>2, <4>3
    <3> QED BY <1>1, <2>1, <3>1 DEF FrameKnown
  <2>2. CASE i # Len(calls) + 1
    <3>1. i \in 1..Len(calls) /\ (i > 1 => i - 1 \in 1..Len(calls))
      BY <1>1, <2>2
    <3> QED BY <1>2, <3>1, KeptIsKnown
  <2> QED BY <2>1, <2>2
<1>4. \A t : Handled(t) => Handled(t)'
  BY <1>2, KeptHandles DEF Handled
<1>5. \A t : Handles(f, t) => Handled(t)'
  <2>1. Len(calls) + 1 \in 1..Len(calls')
    BY <1>1
  <2> QED BY <1>1, <2>1 DEF Handled, Handles
<1> QED BY <1>3, <1>4, <1>5

LEMMA LeaveFollows ==
  ASSUME CallsOK, FramesKnown, FailuresStay, calls # <<>>, NEW threw, Leave(threw)
  PROVE  FramesKnown' /\ \A t : Handled(t) => Handled(t)' \/ Handles(Top, t)
<1>1. /\ Len(calls) \in 1..Len(calls) /\ Top = calls[Len(calls)]
      /\ \A i \in 1..Len(calls') : Kept(i) /\ i # Len(calls)
      /\ \A i \in 1..Len(calls) : i # Len(calls) => i \in 1..Len(calls') /\ Kept(i)
  BY LeaveKeeps
<1>2. FramesKnown'
  <2> SUFFICES ASSUME NEW i \in 1..Len(calls') PROVE FrameKnown(i)'
    BY DEF FramesKnown
  <2>1. i > 1 => i - 1 \in 1..Len(calls')
    OBVIOUS
  <2> QED BY <1>1, <2>1, KeptIsKnown
<1> QED BY <1>1, <1>2, HandledUnder

LEMMA BecomeFollows ==
  ASSUME CallsOK, FramesKnown, FailuresStay, calls # <<>>, NEW f, Good(f), Become(f),
         Top.op # "onDetach", f.op \in {"rollback", "failed"} => FailedNext(f.state)
  PROVE  /\ FramesKnown'
         /\ \A t : Handled(t) => Handled(t)' \/ Handles(Top, t)
         /\ \A t : Handles(f, t) => Handled(t)'
<1>1. /\ Len(calls) \in 1..Len(calls') /\ calls'[Len(calls)] = f
      /\ Len(calls') = Len(calls) /\ Top = calls[Len(calls)]
      /\ \A i \in 1..Len(calls') : i # Len(calls) => Kept(i)
  BY BecomeKeeps
<1>2. FramesKnown'
  <2> SUFFICES ASSUME NEW i \in 1..Len(calls') PROVE FrameKnown(i)'
    BY DEF FramesKnown
  <2>1. CASE i = Len(calls)
    <3>1. i > 1 => calls'[i - 1].op # "failed"
      <4> SUFFICES ASSUME i > 1 PROVE calls'[i - 1].op # "failed"
        OBVIOUS
      <4>1. i - 1 \in 1..Len(calls') /\ i - 1 # Len(calls) /\ i \in 1..Len(calls)
        BY <1>1, <2>1
      <4>2. calls[i - 1].op # "failed"
        BY <1>1, <2>1, <4>1 DEF FramesKnown, FrameKnown
      <4> QED BY <1>1, <4>1, <4>2 DEF Kept
    <3> QED BY <1>1, <2>1, <3>1 DEF FrameKnown, Failed, FailedNext
  <2>2. CASE i # Len(calls)
    <3>1. i > 1 => i - 1 \in 1..Len(calls') /\ i - 1 # Len(calls)
      BY <1>1
    <3> QED BY <1>1, <2>2, <3>1, KeptIsKnown
  <2> QED BY <2>1, <2>2
<1>3. \A t : Handled(t) => Handled(t)' \/ Handles(Top, t)
  BY <1>1, HandledUnder
<1>4. \A t : Handles(f, t) => Handled(t)'
  BY <1>1 DEF Handled, Handles
<1> QED BY <1>2, <1>3, <1>4

LEMMA BecomeThenEnterFollows ==
  ASSUME CallsOK, FramesKnown, FailuresStay, calls # <<>>,
         NEW g, Good(g), NEW f, Good(f), BecomeThenEnter(g, f), Top.op # "onDetach",
         g.op \in {"rollback", "failed"} => FailedNext(g.state),
         g.op = "failed" => f.op = "onDetach" /\ FailedNext(f.state),
         f.op \notin {"rollback", "failed"}
  PROVE  /\ FramesKnown'
         /\ \A t : Handled(t) => Handled(t)' \/ Handles(Top, t)
         /\ \A t : Handles(g, t) \/ Handles(f, t) => Handled(t)'
<1>1. /\ Len(calls') = Len(calls) + 1 /\ Len(calls) \in Nat
      /\ \A i \in 1..Len(calls') :
           calls'[i] = IF i = Len(calls) + 1 THEN f
                       ELSE IF i = Len(calls) THEN g ELSE calls[i]
  BY ReplaceThenEnterOK, LenProperties DEF CallsOK
<1>2. Len(calls) \in 1..Len(calls) /\ Top = calls[Len(calls)]
  BY TopType DEF CallsOK
<1>3. \A i \in 1..Len(calls) : i # Len(calls) => i \in 1..Len(calls') /\ Kept(i)
  BY <1>1 DEF Kept
<1>4. /\ Len(calls) \in 1..Len(calls') /\ calls'[Len(calls)] = g
      /\ Len(calls) + 1 \in 1..Len(calls') /\ calls'[Len(calls) + 1] = f
  BY <1>1, <1>2
<1>5. FramesKnown'
  <2> SUFFICES ASSUME NEW i \in 1..Len(calls') PROVE FrameKnown(i)'
    BY DEF FramesKnown
  <2>1. CASE i = Len(calls) + 1
    <3>1. i - 1 = Len(calls)
      BY <1>1, <2>1
    <3> QED BY <1>4, <2>1, <3>1 DEF FrameKnown, Failed, FailedNext
  <2>2. CASE i = Len(calls)
    <3>1. i > 1 => calls'[i - 1].op # "failed"
      <4> SUFFICES ASSUME i > 1 PROVE calls'[i - 1].op # "failed"
        OBVIOUS
      <4>1. i - 1 \in 1..Len(calls) /\ i - 1 # Len(calls) /\ i \in 1..Len(calls)
        BY <1>2, <2>2
      <4>2. calls[i - 1].op # "failed"
        BY <1>2, <2>2, <4>1 DEF FramesKnown, FrameKnown
      <4> QED BY <1>3, <4>1, <4>2 DEF Kept
    <3> QED BY <1>4, <2>2, <3>1 DEF FrameKnown, Failed, FailedNext
  <2>3. CASE i # Len(calls) /\ i # Len(calls) + 1
    <3>1. i \in 1..Len(calls) /\ (i > 1 => i - 1 \in 1..Len(calls) /\ i - 1 # Len(calls))
      BY <1>1, <2>3
    <3> QED BY <1>3, <2>3, <3>1, KeptIsKnown
  <2> QED BY <2>1, <2>2, <2>3
<1>6. \A t : Handled(t) => Handled(t)' \/ Handles(Top, t)
  BY <1>2, <1>3, HandledUnder
<1>7. \A t : Handles(g, t) \/ Handles(f, t) => Handled(t)'
  BY <1>4 DEF Handled, Handles
<1> QED BY <1>5, <1>6, <1>7

-----------------------------------------------------------------------------
\* The step takes a state off the stack or out of hands only for another hand.
HandedOn ==
  \A t \in States :
    OnStack(t) \/ Handled(t) => OnStack(t)' \/ Handled(t)' \/ Failed(t)' \/ NotRead(t)

LEMMA AccountedStays ==
  ASSUME ContextTypes, Accounted, HandedOn, FailuresStay,
         \A i \in 1..Len(context'.stack) :
           \E j \in 1..Len(context.stack) : context'.stack[i] = context.stack[j]
  PROVE  Accounted'
<1> SUFFICES ASSUME NEW i \in 1..Len(context'.stack), NEW s, s = context'.stack[i]
             PROVE  OnStack(s)' \/ Failed(s)' \/ Handled(s)'
  BY DEF Accounted
<1>1. PICK j \in 1..Len(context.stack) : s = context.stack[j]
  OBVIOUS
<1>2. s \in States
  BY <1>1, ElementOfSeq DEF ContextTypes
<1>3. OnStack(s) \/ Failed(s) \/ Handled(s)
  BY <1>1 DEF Accounted
<1>4. ~NotRead(s)
  BY <1>1 DEF NotRead
<1> QED BY <1>2, <1>3, <1>4 DEF HandedOn, FailuresStay

LEMMA FailuresStayOut ==
  ASSUME FailuresAreOut, StackShrinks, StayBorn,
         \A s \in States : Failed(s)' => Failed(s) \/ OutsideNext(s)
  PROVE  FailuresAreOut'
<1> SUFFICES ASSUME NEW s \in States, Failed(s)' PROVE Outside(s)'
  BY DEF FailuresAreOut
<1>1. OutsideNext(s)
  BY ShrinkKeepsOutside DEF FailuresAreOut, StayBorn, Outside
<1> QED BY <1>1 DEF Outside, OutsideNext, OnStack, NotLeft

LEMMA CalmIsSteady == ASSUME Calm PROVE FailuresStay
  BY DEF Calm, FailuresStay

LEMMA CalmStep ==
  ASSUME ReadInv, Calm, StackShrinks, KeepsOrder, StayBorn, FramesKnown', HandedOn,
         \A s \in States : phase'[s] = "gone" => phase[s] = "gone" \/ Failed(s)
  PROVE  ReadInv'
<1>1. Mirrors'
  BY MirrorsStay DEF ReadInv, Calm
<1>2. Accounted'
  BY CalmIsSteady, AccountedStays DEF ReadInv, Calm
<1>3. FailuresAreOut'
  BY FailuresStayOut DEF ReadInv, Calm
<1>4. Told'
  BY DEF ReadInv, Calm, Told, NotRead
<1> QED BY <1>1, <1>2, <1>3, <1>4 DEF ReadInv, Calm

-----------------------------------------------------------------------------
(* Steps that leave the stack and the phases alone. *)

LEMMA StillReads ==
  ASSUME DataOK, CallsOK, ContextTypes, Reads, ~Threw, stack' = stack, phase' = phase
  PROVE  Calm /\ FailuresStay /\ StackShrinks /\ KeepsOrder /\ StayBorn
<1>1. Calm
  BY NothingToTell, Quiet
<1> QED BY <1>1, CalmIsSteady, SameOrder DEF StayBorn

LEMMA StillKeeps ==
  ASSUME DataOK, CallsOK, ReadInv, Reads, ~Threw, stack' = stack, phase' = phase, FramesKnown',
         \A t \in States : Handled(t) => Handled(t)'
  PROVE  ReadInv'
<1>1. Calm /\ StackShrinks /\ KeepsOrder /\ StayBorn
  BY StillReads DEF ReadInv
<1>2. HandedOn
  BY DEF HandedOn, OnStack
<1> QED BY <1>1, <1>2, CalmStep

LEMMA CallReads ==
  ASSUME DataOK, CallsOK, ReadInv, Reads, NEW f, Good(f), Enter(f),
         f.op \notin {"rollback", "failed"}, calls # <<>> => Top.op # "failed",
         stack' = stack, phase' = phase
  PROVE  ReadInv'
<1>1. ~Threw
  BY NoThrow
<1>2. FailuresStay
  BY <1>1, StillReads DEF ReadInv
<1>3. FramesKnown' /\ \A t : Handled(t) => Handled(t)'
  BY <1>2, EnterFollows DEF ReadInv
<1> QED BY <1>1, <1>3, StillKeeps

Handlers == {"onExit", "onDetach", "rollback"}

LEMMA ReturnReads ==
  ASSUME DataOK, CallsOK, ReadInv, Reads, calls # <<>>, Top.op \notin Handlers,
         NEW threw \in BOOLEAN, Leave(threw), stack' = stack, phase' = phase
  PROVE  ReadInv'
<1>1. ~Threw
  BY NoThrow
<1>2. FailuresStay
  BY <1>1, StillReads DEF ReadInv
<1>3. FramesKnown' /\ \A t : Handled(t) => Handled(t)'
  BY <1>2, LeaveFollows DEF ReadInv, Handles, Handlers
<1> QED BY <1>1, <1>3, StillKeeps

LEMMA TailReads ==
  ASSUME DataOK, CallsOK, ReadInv, Reads, calls # <<>>, Top.op \notin Handlers, ~In("onEnter"),
         NEW f, Good(f), f.op \notin {"rollback", "failed"}, Become(f),
         stack' = stack, phase' = phase
  PROVE  ReadInv'
<1>1. ~Threw
  BY NoThrow
<1>2. FailuresStay
  BY <1>1, StillReads DEF ReadInv
<1>3. FramesKnown' /\ \A t : Handled(t) => Handled(t)'
  BY <1>2, BecomeFollows DEF ReadInv, Handles, Handlers
<1> QED BY <1>1, <1>3, StillKeeps

LEMMA SameCallsReads ==
  ASSUME DataOK, CallsOK, ReadInv, Reads, calls' = calls, stack' = stack, phase' = phase
  PROVE  ReadInv'
<1>1. ~Threw
  BY NoThrow
<1>2. FailuresStay
  BY <1>1, StillReads DEF ReadInv
<1>3. \A i \in 1..Len(calls') : Kept(i)
  BY DEF Kept
<1>4. FramesKnown'
  <2> SUFFICES ASSUME NEW i \in 1..Len(calls') PROVE FrameKnown(i)'
    BY DEF FramesKnown
  <2>1. i > 1 => i - 1 \in 1..Len(calls')
    OBVIOUS
  <2> QED BY <1>2, <1>3, <2>1, KeptIsKnown DEF ReadInv
<1>5. \A t \in States : Handled(t) => Handled(t)'
  BY DEF Handled, Handles
<1> QED BY <1>1, <1>4, <1>5, StillKeeps

LEMMA ThenDisposeReads ==
  ASSUME DataOK, CallsOK, ReadInv, Reads, calls # <<>>, Top.op \in {"onStart", "onStop"},
         ThenDispose, stack' = stack, phase' = phase
  PROVE  ReadInv'
<1>1. Good(Disposing) /\ Disposing.op \notin {"rollback", "failed"}
  BY NewCallOK DEF EngineOps, StateOps, Disposing, CallAt
<1>2. Top.op \notin Handlers /\ ~In("onEnter")
  BY DEF Handlers, In
<1>3. CASE Leave(FALSE)
  BY <1>2, <1>3, ReturnReads
<1>4. CASE Become(Disposing)
  BY <1>1, <1>2, <1>4, TailReads
<1> QED BY <1>3, <1>4 DEF ThenDispose

-----------------------------------------------------------------------------
(* Steps that push a state, and steps that take one off. *)

\* The reader pushes with the engine, and then knows of the new state nothing else.
LEMMA PushIsRead ==
  ASSUME DataOK, CallsOK, ReadInv, Reads, NEW s \in States, Unborn(s), Push(s),
         ~Entered, ~Threw
  PROVE  /\ ContextTypes' /\ context'.stack = Append(context.stack, s)
         /\ ~Failed(s) /\ ~Failed(s)'
         /\ \A t \in States : t # s => context'.nodes[t] = context.nodes[t]
         /\ FailuresStay
<1>1. phase' = [phase EXCEPT ![s] = "entering"] /\ phase[s] = "unborn"
  BY DEF Push, Unborn
<1>2. Pushed = {s}
  BY <1>1 DEF Pushed, DataOK
<1>3. Emitted = {Event("state.push", s)}
  <2>1. Exited = {} /\ Removed = {}
    BY <1>1 DEF Exited, Removed, Cleaned, DataOK
  <2>2. Emitted = {Event("state.push", t) : t \in Pushed}
    BY <2>1 DEF Emitted
  <2> QED BY <1>2, <2>2
<1>4. context' = ReadPush(context, s)
  <2>1. context' = Read(context, Event("state.push", s))
    BY <1>3 DEF Reads
  <2> QED BY <2>1 DEF Read, Event
<1>5. context.stack \in Seq(States) /\ Append(context.stack, s) \in Seq(States)
  BY PushFacts DEF ReadInv, ContextTypes
<1>6. ContextTypes' /\ context'.stack = Append(context.stack, s)
  BY <1>4, <1>5 DEF ReadPush, ReadInv, ContextTypes, Notes
<1>7. \A t \in States : context'.nodes[t] = IF t = s THEN {"push"} ELSE context.nodes[t]
  BY <1>4 DEF ReadPush, ReadInv, ContextTypes
<1>8. ~Failed(s)
  BY <1>1 DEF ReadInv, FailuresAreOut, Outside
<1> QED BY <1>6, <1>7, <1>8 DEF Failed, FailuresStay

LEMMA PushReads ==
  ASSUME DataOK, CallsOK, StackIsLive, ReadInv, Reads, NEW s \in States, Unborn(s), Push(s),
         ~Entered, ~Threw, FailuresStay => FramesKnown' /\ \A t : Handled(t) => Handled(t)'
  PROVE  ReadInv'
<1>1. /\ ContextTypes' /\ context'.stack = Append(context.stack, s)
      /\ ~Failed(s) /\ ~Failed(s)'
      /\ \A t \in States : t # s => context'.nodes[t] = context.nodes[t]
      /\ FailuresStay
  BY PushIsRead
<1>2. Mirrors'
  BY <1>1, MirrorsPush DEF ReadInv
<1>3. \A t \in States : phase'[t] = IF t = s THEN "entering" ELSE phase[t]
  BY DEF Push, DataOK
<1>4. /\ Len(stack') = Len(stack) + 1 /\ Len(stack) \in Nat
      /\ \A i \in 1..Len(stack) : stack'[i] = stack[i]
      /\ stack'[Len(stack) + 1] = s
  BY PushStack
<1>5. /\ \A i \in 1..Len(stack) : i \in 1..Len(stack')
      /\ Len(stack) + 1 \in 1..Len(stack')
  BY <1>4
<1>6. Accounted'
  <2> SUFFICES ASSUME NEW i \in 1..Len(context'.stack), NEW t, t = context'.stack[i]
               PROVE  OnStack(t)' \/ Failed(t)' \/ Handled(t)'
    BY DEF Accounted
  <2>1. CASE i \in 1..Len(context.stack)
    <3>1. t = context.stack[i] /\ t \in States
      BY <1>1, <2>1, PushFacts, ElementOfSeq DEF ReadInv, ContextTypes
    <3>2. OnStack(t) \/ Failed(t) \/ Handled(t)
      BY <2>1, <3>1 DEF ReadInv, Accounted
    <3>3. OnStack(t) => OnStack(t)'
      BY <1>4, <1>5 DEF OnStack
    <3> QED BY <1>1, <3>1, <3>2, <3>3 DEF FailuresStay
  <2>2. CASE i \notin 1..Len(context.stack)
    <3>1. t = s
      <4>1. /\ Len(context'.stack) = Len(context.stack) + 1 /\ Len(context.stack) \in Nat
            /\ context'.stack[Len(context.stack) + 1] = s
        BY <1>1, PushFacts DEF ReadInv, ContextTypes
      <4>2. i = Len(context.stack) + 1
        BY <2>2, <4>1
      <4> QED BY <4>1, <4>2
    <3> QED BY <1>4, <1>5, <3>1 DEF OnStack
  <2> QED BY <2>1, <2>2
<1>7. FailuresAreOut'
  <2> SUFFICES ASSUME NEW t \in States, Failed(t)' PROVE Outside(t)'
    BY DEF FailuresAreOut
  <2>1. t # s /\ Failed(t)
    BY <1>1 DEF Failed
  <2>2. OutsideNext(t)
    BY <2>1, PushKeepsOutside DEF ReadInv, FailuresAreOut
  <2> QED BY <2>2 DEF Outside, OutsideNext, OnStack, NotLeft
<1>8. Told'
  <2> SUFFICES ASSUME NEW t \in States, phase'[t] = "gone", ~Failed(t)'
               PROVE  "remove" \in context'.nodes[t] /\ NotRead(t)'
    BY DEF Told
  <2>1. t # s /\ phase[t] = "gone"
    BY <1>3
  <2>2. context'.nodes[t] = context.nodes[t] /\ ~Failed(t)
    BY <1>1, <2>1 DEF Failed
  <2>3. "remove" \in context.nodes[t] /\ NotRead(t)
    BY <2>1, <2>2 DEF ReadInv, Told
  <2>4. NotRead(t)'
    <3>1. /\ Len(Append(context.stack, s)) = Len(context.stack) + 1 /\ Len(context.stack) \in Nat
          /\ \A i \in 1..Len(context.stack) : Append(context.stack, s)[i] = context.stack[i]
          /\ Append(context.stack, s)[Len(context.stack) + 1] = s
      BY PushFacts DEF ReadInv, ContextTypes
    <3> SUFFICES ASSUME NEW i \in 1..Len(context'.stack) PROVE context'.stack[i] # t
      BY DEF NotRead
    <3>2. i \in 1..Len(context.stack) \/ i = Len(context.stack) + 1
      BY <1>1, <3>1
    <3> QED BY <1>1, <2>1, <2>3, <3>1, <3>2 DEF NotRead
  <2> QED BY <2>2, <2>3, <2>4
<1> QED BY <1>1, <1>2, <1>6, <1>7, <1>8 DEF ReadInv

\* A live state begins to leave, whose removal is in the hands of a frame.
LEMMA LeavingReads ==
  ASSUME DataOK, CallsOK, ReadInv, Reads, NEW s \in States, phase[s] \in Live,
         phase' = [phase EXCEPT ![s] = "leaving"], ~Threw
  PROVE  /\ Calm /\ FailuresStay /\ StayBorn
         /\ \A t \in States : phase'[t] = "gone" => phase[t] = "gone"
<1>1. \A t \in States : /\ phase[t] = "unborn" <=> phase'[t] = "unborn"
                        /\ phase'[t] = "gone" => phase[t] = "gone"
  BY DEF DataOK, Live
<1>2. Calm
  BY <1>1, NothingToTell, Quiet DEF ReadInv
<1> QED BY <1>1, <1>2, CalmIsSteady DEF StayBorn

LEMMA RemoveReads ==
  ASSUME DataOK, CallsOK, StackIsLive, ReadInv, Reads, NEW s \in States, OnStack(s),
         RemoveState(s), StackShrinks, KeepsOrder,
         \A t \in States : OnStack(t) /\ t # s => OnStack(t)',
         calls # <<>> => Top.op # "failed"
  PROVE  ReadInv'
<1> DEFINE f == Call("onExit", s)
<1>1. /\ Enter(f) /\ phase' = [phase EXCEPT ![s] = "leaving"] /\ phase[s] \in Live
      /\ Good(f) /\ f.op = "onExit" /\ f.state = s
  BY NewCallOK DEF RemoveState, StackIsLive, OnStack, UserOps, Call, CallAt
<1> HIDE DEF f
<1>2. ~Threw
  BY <1>1, NoThrow
<1>3. /\ Calm /\ FailuresStay /\ StayBorn
      /\ \A t \in States : phase'[t] = "gone" => phase[t] = "gone"
  BY <1>1, <1>2, LeavingReads
<1>4. FramesKnown' /\ (\A t : Handled(t) => Handled(t)') /\ (\A t : Handles(f, t) => Handled(t)')
  BY <1>1, <1>3, EnterFollows DEF ReadInv
<1>5. HandedOn
  <2>1. Handled(s)'
    BY <1>1, <1>4 DEF Handles
  <2> QED BY <1>4, <2>1 DEF HandedOn
<1> QED BY <1>3, <1>4, <1>5, CalmStep

-----------------------------------------------------------------------------
(* Steps that neither push a state nor take one off. *)

LEMMA StaysRead ==
  ASSUME DataOK, CallsOK, ReadInv, Reads, ~Threw, stack' = stack,
         \A s \in States : /\ phase[s] = "unborn" <=> phase'[s] = "unborn"
                           /\ phase'[s] = "gone" => phase[s] = "gone",
         FailuresStay => FramesKnown' /\ HandedOn
  PROVE  ReadInv'
<1>1. Calm
  BY NothingToTell, Quiet DEF ReadInv
<1>2. StackShrinks /\ KeepsOrder /\ StayBorn
  BY SameOrder DEF StayBorn
<1> QED BY <1>1, <1>2, CalmIsSteady, CalmStep

LEMMA EnterReturnsReads ==
  ASSUME DataOK, CallsOK, ReadInv, Reads, EnterReturns
  PROVE  ReadInv'
<1>1. calls # <<>> /\ Top.state \in States /\ Top.op = "onEnter"
  BY InState DEF EnterReturns, StateOps
<1>2. ~Threw
  BY <1>1, NoThrow DEF EnterReturns
<1>3. /\ stack' = stack /\ Leave(FALSE)
      /\ phase' = [phase EXCEPT ![Top.state] = IF @ = "entering" THEN "entered" ELSE @]
  BY DEF EnterReturns
<1>4. \A s \in States : /\ phase[s] = "unborn" <=> phase'[s] = "unborn"
                        /\ phase'[s] = "gone" => phase[s] = "gone"
  BY <1>3 DEF DataOK
<1>5. ASSUME FailuresStay PROVE FramesKnown' /\ HandedOn
  <2>1. FramesKnown' /\ \A t : Handled(t) => Handled(t)'
    BY <1>1, <1>3, <1>5, LeaveFollows DEF ReadInv, Handles
  <2> QED BY <1>3, <2>1 DEF HandedOn, OnStack
<1> QED BY <1>2, <1>3, <1>4, <1>5, StaysRead

\* The cleanup under a rollback is known to be of a state that failed.
LEMMA RollsBackFailure ==
  ASSUME CallsOK, FramesKnown, FailuresStay, In("rollback")
  PROVE  Failed(Top.state) /\ FailedNext(Top.state)
<1>1. /\ calls # <<>> /\ Top.op = "rollback" /\ Top.state \in States
      /\ Len(calls) \in 1..Len(calls) /\ Top = calls[Len(calls)]
  BY InState, TopType DEF StateOps, CallsOK
<1>2. Failed(Top.state)
  BY <1>1 DEF FramesKnown, FrameKnown
<1> QED BY <1>1, <1>2 DEF FailuresStay, Failed, FailedNext

LEMMA RollbackNextReads ==
  ASSUME DataOK, CallsOK, LeakInv, ReadInv, Reads, RollbackNext
  PROVE  ReadInv'
<1> DEFINE s == Last(Top.rest)
           g == [Top EXCEPT !.rest = Front(@)]
           f == Call("onExit", s)
<1>1. /\ calls # <<>> /\ Top \in Frame /\ Top.op = "rollback" /\ Len(Top.rest) > 1
      /\ Top.state \in States /\ Top.rest \in Seq(States) /\ Top.rest # <<>>
  BY InState, TopType, EmptySeq DEF RollbackNext, StateOps, CallsOK
<1>2. /\ s \in States /\ s = Top.rest[Len(Top.rest)] /\ Len(Top.rest) \in Nat
      /\ Front(Top.rest) \in Seq(States) /\ Len(Front(Top.rest)) = Len(Top.rest) - 1
      /\ \A a \in 1..Len(Front(Top.rest)) : Front(Top.rest)[a] = Top.rest[a]
  BY <1>1, FrontFacts, LenProperties
<1>3. /\ Good(g) /\ g.op = "rollback" /\ g.state = Top.state /\ g.rest = Front(Top.rest)
  BY <1>1, <1>2 DEF Good, Frame
<1>4. Good(f) /\ f.op = "onExit" /\ f.state = s
  BY <1>2, NewCallOK DEF UserOps, Call, CallAt
<1>5. /\ BecomeThenEnter(g, f) /\ phase' = [phase EXCEPT ![s] = "leaving"] /\ stack' = stack
      /\ phase[s] \in Live
  BY RollbackNextLeaks DEF RollbackNext
<1> HIDE DEF s, g, f
<1>6. ~Threw
  BY <1>1, NoThrow DEF In
<1>7. \A t \in States : /\ phase[t] = "unborn" <=> phase'[t] = "unborn"
                        /\ phase'[t] = "gone" => phase[t] = "gone"
  BY <1>2, <1>5 DEF DataOK, Live
<1>8. ASSUME FailuresStay PROVE FramesKnown' /\ HandedOn
  <2>1. FailedNext(g.state)
    BY <1>1, <1>3, <1>8, RollsBackFailure DEF RollbackNext, ReadInv
  <2>2. /\ FramesKnown'
        /\ \A t : Handled(t) => Handled(t)' \/ Handles(Top, t)
        /\ \A t : Handles(g, t) \/ Handles(f, t) => Handled(t)'
    BY <1>1, <1>3, <1>4, <1>5, <1>8, <2>1, BecomeThenEnterFollows DEF ReadInv
  <2>3. \A t : Handles(Top, t) => Handles(g, t) \/ Handles(f, t)
    <3> SUFFICES ASSUME NEW t, NEW a \in 2..Len(Top.rest), Top.rest[a] = t
                 PROVE  Handles(g, t) \/ Handles(f, t)
      BY <1>1 DEF Handles
    <3>1. CASE a = Len(Top.rest)
      BY <1>2, <1>4, <3>1 DEF Handles
    <3>2. CASE a # Len(Top.rest)
      <4>1. a \in 2..Len(g.rest) /\ a \in 1..Len(g.rest)
        BY <1>2, <1>3, <3>2
      <4> QED BY <1>2, <1>3, <4>1 DEF Handles
    <3> QED BY <3>1, <3>2
  <2> QED BY <1>5, <2>2, <2>3 DEF HandedOn, OnStack
<1> QED BY <1>5, <1>6, <1>7, <1>8, StaysRead

LEMMA RollbackSelfReads ==
  ASSUME DataOK, CallsOK, LeakInv, ReadInv, Reads, RollbackSelf
  PROVE  ReadInv'
<1> DEFINE s == Top.state
           g == Call("failed", s)
           f == Call("onDetach", s)
<1>1. /\ calls # <<>> /\ Top.op = "rollback" /\ s \in States
      /\ Len(calls) \in 1..Len(calls) /\ Top = calls[Len(calls)]
      /\ Len(Top.rest) \in Nat /\ Len(Top.rest) <= 1
  BY InState, TopType, LenProperties DEF RollbackSelf, StateOps, CallsOK
<1>2. /\ Good(g) /\ g.op = "failed" /\ g.state = s /\ Good(f) /\ f.op = "onDetach" /\ f.state = s
  BY <1>1, NewCallOK DEF UserOps, EngineOps, Call, CallAt
<1>3. BecomeThenEnter(g, f) /\ phase' = [phase EXCEPT ![s] = "cleaning"] /\ stack' = stack
  BY DEF RollbackSelf, Clean
<1> HIDE DEF s, g, f
<1>4. phase[s] \in Live
  BY <1>1 DEF s, LeakInv, FrameInv, FramesSound, FrameSound
<1>5. ~Threw
  BY <1>1, NoThrow DEF In
<1>6. \A t \in States : /\ phase[t] = "unborn" <=> phase'[t] = "unborn"
                        /\ phase'[t] = "gone" => phase[t] = "gone"
  BY <1>1, <1>3, <1>4 DEF DataOK, Live
<1>7. ASSUME FailuresStay PROVE FramesKnown' /\ HandedOn
  <2>1. FailedNext(g.state) /\ FailedNext(f.state)
    BY <1>2, <1>7, RollsBackFailure DEF RollbackSelf, ReadInv, s
  <2>2. FramesKnown' /\ \A t : Handled(t) => Handled(t)' \/ Handles(Top, t)
    BY <1>1, <1>2, <1>3, <1>7, <2>1, BecomeThenEnterFollows DEF ReadInv
  <2>3. \A t : ~Handles(Top, t)
    <3>1. 2..Len(Top.rest) = {}
      BY <1>1
    <3> QED BY <1>1, <3>1 DEF Handles
  <2> QED BY <1>3, <2>2, <2>3 DEF HandedOn, OnStack
<1> QED BY <1>3, <1>5, <1>6, <1>7, StaysRead

LEMMA ExitEndsReads ==
  ASSUME DataOK, CallsOK, LeakInv, ReadInv, Reads, NEW threw \in BOOLEAN, ExitEnds(threw)
  PROVE  ReadInv'
<1> DEFINE s == Top.state
           f == [Call("onDetach", s) EXCEPT !.failed = threw]
<1>1. /\ calls # <<>> /\ Top.op = "onExit" /\ s \in States
      /\ Len(calls) \in 1..Len(calls) /\ Top = calls[Len(calls)]
  BY InState, TopType DEF ExitEnds, StateOps, CallsOK
<1>2. Good(f) /\ f.op = "onDetach" /\ f.state = s
  BY <1>1, CallType DEF Good, Frame, UserOps, Call, CallAt
<1>3. Become(f) /\ phase' = [phase EXCEPT ![s] = "cleaning"] /\ stack' = stack
  BY DEF ExitEnds, Clean
<1> HIDE DEF s, f
<1>4. phase[s] \in Departed
  BY <1>1 DEF s, LeakInv, FrameInv, FramesSound, FrameSound
<1>5. ~Threw
  BY <1>1, NoThrow DEF In
<1>6. \A t \in States : /\ phase[t] = "unborn" <=> phase'[t] = "unborn"
                        /\ phase'[t] = "gone" => phase[t] = "gone"
  BY <1>1, <1>3, <1>4 DEF DataOK, Departed
<1>7. ASSUME FailuresStay PROVE FramesKnown' /\ HandedOn
  <2>1. /\ FramesKnown'
        /\ \A t : Handled(t) => Handled(t)' \/ Handles(Top, t)
        /\ \A t : Handles(f, t) => Handled(t)'
    BY <1>1, <1>2, <1>3, <1>7, BecomeFollows DEF ReadInv
  <2>2. \A t : Handles(Top, t) => Handles(f, t)
    BY <1>1, <1>2 DEF Handles, s
  <2> QED BY <1>3, <2>1, <2>2 DEF HandedOn, OnStack
<1> QED BY <1>3, <1>5, <1>6, <1>7, StaysRead

\* What a removal tells the reader.
LEMMA RemovalIsRead ==
  ASSUME DataOK, CallsOK, ReadInv, Reads, ~In("onEnter"), NEW s \in States,
         phase' = [phase EXCEPT ![s] = "gone"], phase[s] = "cleaning", Removed # {}
  PROVE  context' = ReadRemove(context, s)
<1>1. Pushed = {} /\ Exited = {}
  BY DEF Pushed, Exited, DataOK
<1>2. Removed = {s}
  BY DEF Removed, Cleaned, DataOK
<1>3. ~Entered /\ ~Threw
  BY DEF Entered, Threw
<1>4. Emitted = {Event("state.remove", t) : t \in Removed}
  BY <1>1, <1>3 DEF Emitted
<1>5. \E e \in Emitted : context' = Read(context, e)
  BY <1>2, <1>4 DEF Reads
<1>6. context' = Read(context, Event("state.remove", s))
  BY <1>2, <1>4, <1>5
<1> QED BY <1>6 DEF Read, Event

\* The end of a cleanup that the reader is not told of is that of a state it knows to have failed.
LEMMA SilentRemovalReads ==
  ASSUME DataOK, CallsOK, LeakInv, ReadInv, Reads, NEW threw \in BOOLEAN, DetachEnds(threw),
         Removed = {}
  PROVE  ReadInv'
<1>1. /\ calls # <<>> /\ Top.op = "onDetach" /\ Top.state \in States
      /\ Len(calls) \in 1..Len(calls) /\ Top = calls[Len(calls)]
  BY InState, TopType DEF DetachEnds, StateOps, CallsOK
<1> DEFINE s == Top.state
<1>2. phase' = [phase EXCEPT ![s] = "gone"] /\ stack' = stack /\ Leave(threw \/ Top.failed)
  BY DEF DetachEnds
<1>3. phase[s] \in CleanedUp
  BY <1>1 DEF LeakInv, FrameInv, FramesSound, FrameSound
<1>4. Failed(s) \/ (phase[s] = "gone" /\ NotRead(s))
  <2>1. CASE phase[s] = "gone"
    BY <1>1, <2>1 DEF ReadInv, Told
  <2>2. CASE phase[s] = "cleaning"
    <3>1. ~ByRemoval
      BY <1>1, <1>2, <2>2 DEF Removed, Cleaned, DataOK
    <3> QED BY <1>1, <3>1 DEF ByRemoval, ReadInv, FramesKnown, FrameKnown
  <2> QED BY <1>3, <2>1, <2>2 DEF CleanedUp
<1> HIDE DEF s
<1>5. \A t \in States : phase'[t] = IF t = s THEN "gone" ELSE phase[t]
  BY <1>2 DEF DataOK
<1>6. ~Threw /\ Pushed = {}
  BY <1>1, <1>3, <1>5 DEF Threw, In, Pushed, CleanedUp
<1>7. Calm /\ FailuresStay
  BY <1>6, Quiet, CalmIsSteady DEF ReadInv
<1>8. FramesKnown' /\ \A t : Handled(t) => Handled(t)' \/ Handles(Top, t)
  BY <1>1, <1>2, <1>7, LeaveFollows DEF ReadInv
<1>9. HandedOn
  <2>1. \A t : Handles(Top, t) => t = s
    BY <1>1 DEF Handles, s
  <2>2. s \in States /\ (Failed(s) => FailedNext(s))
    BY <1>1, <1>7 DEF s, FailuresStay, Failed, FailedNext
  <2> QED BY <1>2, <1>4, <1>8, <2>1, <2>2 DEF HandedOn, OnStack, Failed, FailedNext
<1>10. StackShrinks /\ KeepsOrder /\ StayBorn
  BY <1>2, <1>5, SameOrder DEF StayBorn
<1>11. \A t \in States : phase'[t] = "gone" => phase[t] = "gone" \/ Failed(t)
  BY <1>4, <1>5
<1> QED BY <1>7, <1>8, <1>9, <1>10, <1>11, CalmStep

LEMMA DetachEndsReads ==
  ASSUME DataOK, CallsOK, StackInv, LeakInv, ReadInv, Reads,
         NEW threw \in BOOLEAN, DetachEnds(threw), Removed # {}
  PROVE  ReadInv'
<1>1. /\ calls # <<>> /\ Top.op = "onDetach" /\ Top.state \in States /\ ~OnStack(Top.state)
  BY TopIsOff DEF DetachEnds, LeavingOps, StackInv, Outside
<1> DEFINE s == Top.state
<1>2. phase' = [phase EXCEPT ![s] = "gone"] /\ stack' = stack /\ Leave(threw \/ Top.failed)
  BY DEF DetachEnds
<1> HIDE DEF s
<1>3. s \in States /\ ~OnStack(s) /\ ~In("onEnter")
  BY <1>1 DEF s, In
<1>4. \A t \in States : phase'[t] = IF t = s THEN "gone" ELSE phase[t]
  BY <1>2 DEF DataOK
<1>5. phase[s] = "cleaning"
  BY <1>4 DEF Removed, Cleaned
<1>6. context' = ReadRemove(context, s)
  BY <1>2, <1>3, <1>5, RemovalIsRead
<1>7. ContextTypes
  BY DEF ReadInv
<1>8. /\ context'.stack = RemoveFirst(context.stack, s)
      /\ \A t \in States : context'.nodes[t] =
           IF t = s THEN context.nodes[t] \union {"exit", "remove"} ELSE context.nodes[t]
      /\ context' \in [stack : {context'.stack}, nodes : [States -> SUBSET Notes]]
  BY <1>3, <1>6, <1>7 DEF ReadRemove, Note, ContextTypes, Notes
<1>9. \A t \in States : Failed(t)' <=> Failed(t)
  <2> TAKE t \in States
  <2>1. "error" \in context'.nodes[t] <=> "error" \in context.nodes[t]
    <3>1. "error" \notin {"exit", "remove"}
      OBVIOUS
    <3>2. CASE t = s
      BY <1>3, <1>8, <3>1, <3>2
    <3>3. CASE t # s
      BY <1>8, <3>3
    <3> QED BY <3>2, <3>3
  <2> QED BY <2>1 DEF Failed
<1>10. StackShrinks /\ StayBorn /\ FailuresStay
  BY <1>2, <1>4, <1>9, SameOrder DEF StayBorn, FailuresStay
<1>11. /\ Mirrors' /\ context'.stack \in Seq(States)
       /\ \A i \in 1..Len(context'.stack) :
            /\ context'.stack[i] # s
            /\ \E j \in 1..Len(context.stack) : context'.stack[i] = context.stack[j]
  BY <1>2, <1>3, <1>8, <1>10, MirrorsRemove DEF ReadInv
<1>12. ContextTypes'
  BY <1>8, <1>11 DEF ContextTypes
<1>13. FramesKnown' /\ \A t : Handled(t) => Handled(t)' \/ Handles(Top, t)
  BY <1>1, <1>2, <1>10, LeaveFollows DEF ReadInv
<1>14. Accounted'
  <2> SUFFICES ASSUME NEW i \in 1..Len(context'.stack), NEW t, t = context'.stack[i]
               PROVE  OnStack(t)' \/ Failed(t)' \/ Handled(t)'
    BY DEF Accounted
  <2>1. PICK j \in 1..Len(context.stack) : t = context.stack[j]
    BY <1>11
  <2>2. t \in States /\ t # s
    BY <1>7, <1>11, <2>1, ElementOfSeq DEF ContextTypes
  <2>3. OnStack(t) \/ Failed(t) \/ Handled(t)
    BY <2>1 DEF ReadInv, Accounted
  <2>4. ~Handles(Top, t)
    BY <1>1, <2>2 DEF Handles, s
  <2> QED BY <1>2, <1>9, <1>13, <2>2, <2>3, <2>4 DEF OnStack
<1>15. FailuresAreOut'
  BY <1>9, <1>10, FailuresStayOut DEF ReadInv
<1>16. Told'
  <2> SUFFICES ASSUME NEW t \in States, phase'[t] = "gone", ~Failed(t)'
               PROVE  "remove" \in context'.nodes[t] /\ NotRead(t)'
    BY DEF Told
  <2>1. CASE t = s
    BY <1>8, <1>11, <2>1 DEF NotRead
  <2>2. CASE t # s
    <3>1. "remove" \in context.nodes[t] /\ NotRead(t)
      BY <1>4, <1>9, <2>2 DEF ReadInv, Told
    <3> QED BY <1>8, <1>11, <2>2, <3>1 DEF NotRead
  <2> QED BY <2>1, <2>2
<1> QED BY <1>11, <1>12, <1>13, <1>14, <1>15, <1>16 DEF ReadInv

LEMMA ThrowIsRead ==
  ASSUME DataOK, CallsOK, ContextTypes, Reads, EnterThrows
  PROVE  /\ ContextTypes' /\ context'.stack = context.stack
         /\ \A t \in States : context.nodes[t] \subseteq context'.nodes[t]
         /\ \A t \in States : FailedNext(t) <=> Failed(t) \/ t = Top.state
<1> DEFINE s == Top.state
           f == Rollback(s, Top.at)
<1>1. /\ calls # <<>> /\ s \in States /\ Top.at \in Nat /\ Top.op = "onEnter"
  BY InState, TopType DEF EnterThrows, StateOps, CallsOK
<1>2. Become(f) /\ phase' = phase
  BY DEF EnterThrows
<1>3. Good(f) /\ f.op = "rollback"
  BY <1>1, RollbackFrame DEF DataOK
<1> HIDE DEF s, f
<1>4. Len(calls') = Len(calls) /\ Last(calls').op = "rollback" /\ Len(calls) \in Nat
  <2>1. /\ Len(calls) \in 1..Len(calls') /\ calls'[Len(calls)] = f /\ Len(calls') = Len(calls)
    BY <1>1, <1>2, <1>3, BecomeKeeps
  <2> QED BY <1>3, <2>1 DEF Last
<1>5. Threw /\ ~Entered
  BY <1>1, <1>4 DEF Threw, Entered, In, Running
<1>6. Pushed = {} /\ Exited = {} /\ Removed = {}
  BY <1>2 DEF Pushed, Exited, Removed, Cleaned
<1>7. Emitted = {Event("state.enter_failed", s)}
  BY <1>5, <1>6 DEF Emitted, s
<1>8. context' = Read(context, Event("state.enter_failed", s))
  BY <1>7 DEF Reads
<1>9. context' = Note(context, s, {"error"})
  BY <1>8 DEF Read, Event, ReadOther
<1>10. /\ context'.stack = context.stack
       /\ \A t \in States : context'.nodes[t] =
            IF t = s THEN context.nodes[t] \union {"error"} ELSE context.nodes[t]
       /\ ContextTypes'
  BY <1>1, <1>9 DEF Note, ContextTypes, Notes
<1>11. \A t \in States : context.nodes[t] \subseteq context'.nodes[t]
  BY <1>10
<1>12. \A t \in States : FailedNext(t) <=> Failed(t) \/ t = s
  <2> TAKE t \in States
  <2>1. CASE t = s
    BY <1>10, <2>1 DEF Failed, FailedNext
  <2>2. CASE t # s
    BY <1>10, <2>2 DEF Failed, FailedNext
  <2> QED BY <2>1, <2>2
<1> QED BY <1>10, <1>11, <1>12 DEF s

LEMMA ThrowReads ==
  ASSUME DataOK, CallsOK, StackInv, ReadInv, Reads, EnterThrows, ~ThrowsAfterMove
  PROVE  ReadInv'
<1> DEFINE s == Top.state
           n == Top.at
           f == Rollback(s, n)
<1>1. /\ calls # <<>> /\ s \in States /\ n \in Nat /\ InPlace(Top) /\ Top.op = "onEnter"
  BY InState, TopType DEF EnterThrows, StateOps, CallsOK
<1>2. stack' = Below(n) /\ Become(f) /\ phase' = phase
  BY DEF EnterThrows
<1>3. /\ Good(f) /\ f.op = "rollback" /\ f.state = s /\ f.rest = Above(n)
      /\ 1 \in 1..Len(Above(n)) /\ Above(n)[1] = s
  BY <1>1, RollbackFrame, RestStartsInPlace DEF DataOK
<1> HIDE DEF s, n, f
<1>4. /\ ContextTypes' /\ context'.stack = context.stack
      /\ \A t \in States : context.nodes[t] \subseteq context'.nodes[t]
      /\ \A t \in States : FailedNext(t) <=> Failed(t) \/ t = s
  BY ThrowIsRead DEF ReadInv, s
<1>5. /\ StackShrinks
      /\ \A i \in 1..Len(Above(n)) : OnStack(Above(n)[i]) /\ NotLeft(Above(n)[i])
  BY <1>1, <1>2, BelowShrinks DEF StackInv, StackIsLive
<1>6. KeepsOrder /\ StayBorn
  BY <1>1, <1>2, BelowOrder DEF StayBorn
<1>7. FailuresStay
  BY <1>4 DEF FailuresStay, Failed, FailedNext
<1>8. Mirrors'
  BY <1>4, <1>5, <1>6, MirrorsStay DEF ReadInv
<1>9. /\ FramesKnown'
      /\ \A t : Handled(t) => Handled(t)' \/ Handles(Top, t)
      /\ \A t : Handles(f, t) => Handled(t)'
  <2>1. FailedNext(f.state)
    BY <1>1, <1>3, <1>4
  <2> QED BY <1>1, <1>2, <1>3, <1>7, <2>1, BecomeFollows DEF ReadInv
<1>10. HandedOn
  <2> SUFFICES ASSUME NEW t \in States, OnStack(t) \/ Handled(t)
               PROVE  OnStack(t)' \/ Handled(t)' \/ Failed(t)'
    BY DEF HandedOn
  <2>1. CASE Handled(t)
    BY <1>1, <1>9, <2>1 DEF Handles
  <2>2. CASE OnStack(t)
    <3>1. OnStack(t)' \/ \E a \in 1..Len(Above(n)) : Above(n)[a] = t
      BY <1>1, <1>2, <2>2, SplicedOff
    <3>2. ASSUME NEW a \in 1..Len(Above(n)), Above(n)[a] = t PROVE Handled(t)' \/ Failed(t)'
      <4>1. CASE a = 1
        BY <1>3, <1>4, <3>2, <4>1 DEF Failed, FailedNext
      <4>2. CASE a # 1
        <5>1. a \in 2..Len(f.rest) /\ f.rest[a] = t
          BY <1>3, <3>2, <4>2
        <5> QED BY <1>3, <1>9, <5>1 DEF Handles
      <4> QED BY <4>1, <4>2
    <3> QED BY <3>1, <3>2
  <2> QED BY <2>1, <2>2
<1>11. Accounted'
  BY <1>4, <1>7, <1>10, AccountedStays DEF ReadInv
<1>12. OutsideNext(s)
  <2>1. OnStack(s) /\ NotLeft(s)
    BY <1>3, <1>5
  <2> QED BY <1>2, <2>1 DEF OutsideNext, OnStack, StackInv, StackIsLive, Live
<1>13. FailuresAreOut'
  <2>1. ASSUME NEW t \in States, Failed(t)' PROVE Failed(t) \/ OutsideNext(t)
    <3>1. Failed(t) \/ t = s
      BY <1>4, <2>1 DEF Failed, FailedNext
    <3> QED BY <1>12, <3>1
  <2> QED BY <1>5, <1>6, <2>1, FailuresStayOut DEF ReadInv
<1>14. Told'
  <2> SUFFICES ASSUME NEW t \in States, phase'[t] = "gone", ~Failed(t)'
               PROVE  "remove" \in context'.nodes[t] /\ NotRead(t)'
    BY DEF Told
  <2>1. "remove" \in context.nodes[t] /\ NotRead(t)
    BY <1>2, <1>7 DEF ReadInv, Told, FailuresStay
  <2>2. NotRead(t)'
    BY <1>4, <2>1 DEF NotRead
  <2>3. context.nodes[t] \subseteq context'.nodes[t]
    BY <1>4
  <2> QED BY <2>1, <2>2, <2>3
<1> QED BY <1>4, <1>8, <1>9, <1>11, <1>13, <1>14 DEF ReadInv

LEMMA UserCallReads ==
  ASSUME DataOK, CallsOK, StackInv, ReadInv, Reads, UserCall
  PROVE  ReadInv'
<1>0. StackIsLive
  BY DEF StackInv
<1>1. MayCall => (calls # <<>> => Top.op # "failed")
  BY DEF MayCall, Running, UserOps
<1>2. ASSUME NEW s \in States, PushState(s) PROVE ReadInv'
  <2> DEFINE f == CallAt("onEnter", s, Len(stack))
  <2>1. Unborn(s) /\ Push(s) /\ Enter(f) /\ (calls # <<>> => Top.op # "failed")
    BY <1>1, <1>2 DEF PushState
  <2>2. Good(f) /\ f.op \notin {"rollback", "failed"}
    BY <2>1, PushType, NewCallOK DEF UserOps, CallAt
  <2> HIDE DEF f
  <2>3. ~Threw
    BY <2>1, <2>2, NoThrow
  <2>4. ~Entered
    <3>1. Len(calls') = Len(calls) + 1 /\ Len(calls) \in Nat
      BY <2>1, <2>2, PushFacts DEF Enter, Good, CallsOK
    <3> QED BY <3>1 DEF Entered
  <2>5. FailuresStay => FramesKnown' /\ \A t : Handled(t) => Handled(t)'
    BY <2>1, <2>2, EnterFollows DEF ReadInv
  <2> QED BY <1>0, <2>1, <2>3, <2>4, <2>5, PushReads
<1>3. ASSUME PopState PROVE ReadInv'
  <2>1. /\ StackShrinks /\ KeepsOrder /\ Last(stack) \in States /\ OnStack(Last(stack))
        /\ RemoveState(Last(stack)) /\ (calls # <<>> => Top.op # "failed")
    BY <1>0, <1>1, <1>3, FrontShrinks, FrontOrder DEF PopState, StackIsLive
  <2>2. \A t \in States : OnStack(t) /\ t # Last(stack) => OnStack(t)'
    BY <1>3, FrontKeepsOthers DEF PopState
  <2> QED BY <1>0, <2>1, <2>2, RemoveReads
<1>4. ASSUME NEW s \in States, DeleteState(s) PROVE ReadInv'
  <2>1. HeightOf(s) \in 1..Len(stack) /\ stack[HeightOf(s)] = s
    BY <1>4 DEF DeleteState, OnStack, HeightOf
  <2>2. /\ OnStack(s) /\ RemoveState(s) /\ (calls # <<>> => Top.op # "failed")
        /\ stack' = RemoveAt(stack, HeightOf(s))
    BY <1>1, <1>4 DEF DeleteState
  <2>3. StackShrinks /\ KeepsOrder
    BY <1>0, <2>1, <2>2, RemoveAtShrinks, RemoveAtOrder DEF StackIsLive
  <2>4. \A t \in States : OnStack(t) /\ t # s => OnStack(t)'
    BY <2>1, <2>2, RemoveAtKeepsOthers
  <2> QED BY <1>0, <2>2, <2>3, <2>4, RemoveReads
<1>5. ASSUME NEW s \in States, ResetState(s) PROVE ReadInv'
  <2>1. Good(CallAt("reset", s, 0)) /\ CallAt("reset", s, 0).op \notin {"rollback", "failed"}
    BY NewCallOK DEF EngineOps, CallAt
  <2> QED BY <1>1, <1>5, <2>1, CallReads DEF ResetState
<1>6. ASSUME NEW t \in States, NEW s \in States, ReplaceFrom(t, s) PROVE ReadInv'
  <2>1. HeightOf(t) - 1 \in Nat
    BY <1>6 DEF ReplaceFrom, OnStack, HeightOf
  <2> DEFINE f == CallAt("replace", s, HeightOf(t) - 1)
  <2>2. Good(f) /\ f.op \notin {"rollback", "failed"}
    BY <2>1, NewCallOK DEF EngineOps, CallAt
  <2>3. Enter(f) /\ stack' = stack /\ phase' = phase /\ (calls # <<>> => Top.op # "failed")
    BY <1>1, <1>6 DEF ReplaceFrom
  <2> HIDE DEF f
  <2> QED BY <2>2, <2>3, CallReads
<1>7. ASSUME NEW s \in States, AddComponent(s) PROVE ReadInv'
  <2>1. Good(Call("onAttach", s)) /\ Call("onAttach", s).op \notin {"rollback", "failed"}
    BY NewCallOK DEF UserOps, Call, CallAt
  <2> QED BY <1>1, <1>7, <2>1, CallReads DEF AddComponent
<1>8. ASSUME NEW s \in States, DeleteComponent(s) PROVE ReadInv'
  <2>1. Good(Call("deleted", s)) /\ Call("deleted", s).op \notin {"rollback", "failed"}
    BY NewCallOK DEF UserOps, Call, CallAt
  <2> QED BY <1>1, <1>8, <2>1, CallReads DEF DeleteComponent
<1>9. ASSUME NEW s \in States, RunScript(s) PROVE ReadInv'
  BY <1>9, SameCallsReads DEF RunScript
<1>10. ASSUME Stop \/ DisposeAll PROVE ReadInv'
  <2>1. /\ Good(Disposing) /\ Disposing.op \notin {"rollback", "failed"}
        /\ Good(Call("onStop", NoState))
        /\ Call("onStop", NoState).op \notin {"rollback", "failed"}
    BY NewCallOK DEF UserOps, EngineOps, StateOps, Disposing, Call, CallAt
  <2> QED BY <1>1, <1>10, <2>1, CallReads DEF Stop, DisposeAll
<1> QED BY <1>2, <1>3, <1>4, <1>5, <1>6, <1>7, <1>8, <1>9, <1>10 DEF UserCall

LEMMA HookEndsRead ==
  ASSUME DataOK, CallsOK, StackInv, LeakInv, ReadInv, Reads, HookEnds, ~ThrowsAfterMove
  PROVE  ReadInv'
<1>1. ASSUME NEW threw \in BOOLEAN, DetachEnds(threw) PROVE ReadInv'
  BY <1>1, SilentRemovalReads, DetachEndsReads
<1>2. ASSUME AttachReturns \/ AttachThrows \/ DeletedEnds \/ StartReturns PROVE ReadInv'
  BY <1>2, ReturnReads
     DEF AttachReturns, AttachThrows, DeletedEnds, StartReturns, In, Running, Handlers
<1>3. ASSUME StartThrows PROVE ReadInv'
  BY <1>3, ThenDisposeReads DEF StartThrows, In, Running
<1>4. ASSUME NEW threw \in BOOLEAN, StopEnds(threw) PROVE ReadInv'
  BY <1>4, ThenDisposeReads DEF StopEnds, In, Running
<1> QED
  BY <1>1, <1>2, <1>3, <1>4, EnterReturnsReads, ThrowReads, ExitEndsReads DEF HookEnds

LEMMA EngineStepReads ==
  ASSUME DataOK, CallsOK, StackInv, LeakInv, ReadInv, Reads, EngineStep
  PROVE  ReadInv'
<1>0. StackIsLive
  BY DEF StackInv
<1>1. ASSUME RollbackDone \/ ClearedOnly \/ DisposeEnds PROVE ReadInv'
  <2>1. calls # <<>> /\ Top.op \notin Handlers /\ stack' = stack /\ phase' = phase
    BY <1>1 DEF RollbackDone, ClearedOnly, DisposeEnds, In, Running, Handlers
  <2>2. Leave(FALSE) \/ Leave(TRUE)
    BY <1>1, <2>1, TopType DEF RollbackDone, ClearedOnly, DisposeEnds, CallsOK
  <2> QED BY <2>1, <2>2, ReturnReads
<1>2. ASSUME ClearNext PROVE ReadInv'
  <2>1. calls # <<>> /\ Top.at \in Nat /\ Top.op # "failed"
    BY <1>2, TopType DEF ClearNext, Clearing, Running, CallsOK
  <2>2. stack # <<>> /\ stack' = Front(stack) /\ RemoveState(Last(stack))
    BY <1>2, <2>1, EmptySeq DEF ClearNext
  <2>3. /\ StackShrinks /\ KeepsOrder /\ Last(stack) \in States /\ OnStack(Last(stack))
    BY <1>0, <2>2, FrontShrinks, FrontOrder DEF StackIsLive
  <2>4. \A t \in States : OnStack(t) /\ t # Last(stack) => OnStack(t)'
    BY <2>2, FrontKeepsOthers
  <2> QED BY <1>0, <2>1, <2>2, <2>3, <2>4, RemoveReads
<1>3. ASSUME ClearedThenPush PROVE ReadInv'
  <2> DEFINE s == Top.state
             f == CallAt("onEnter", s, Len(stack))
  <2>1. calls # <<>> /\ s \in States /\ Top.op \in {"reset", "replace"}
    BY <1>3, TopType DEF ClearedThenPush, Running, CallsOK, FramesNameStates, StateOps
  <2>2. Push(s) /\ Unborn(s) /\ Become(f)
    BY <1>3 DEF ClearedThenPush
  <2>3. Good(f) /\ f.op \notin {"rollback", "failed"}
    BY <2>1, <2>2, PushType, NewCallOK DEF UserOps, CallAt
  <2> HIDE DEF f, s
  <2>4. ~Entered /\ ~Threw
    BY <2>1 DEF Entered, Threw, In
  <2>5. FailuresStay => FramesKnown' /\ \A t : Handled(t) => Handled(t)'
    BY <2>1, <2>2, <2>3, BecomeFollows DEF ReadInv, Handles
  <2> QED BY <1>0, <2>1, <2>2, <2>4, <2>5, PushReads
<1> QED BY <1>1, <1>2, <1>3, RollbackNextReads, RollbackSelfReads DEF EngineStep

LEMMA ReadStep ==
  ASSUME TypeInv, StackInv, LeakInv, ReadInv, [Next /\ Reads]_readVars, ~ThrowsAfterMove
  PROVE  ReadInv'
<1>0. DataOK /\ CallsOK
  BY TypeInvSplit
<1>1. ASSUME Start, Reads PROVE ReadInv'
  <2>1. /\ Good(Call("onStart", NoState))
        /\ Call("onStart", NoState).op \notin {"rollback", "failed"}
    BY NewCallOK DEF UserOps, StateOps, Call, CallAt
  <2> QED BY <1>0, <1>1, <2>1, CallReads DEF Start
<1>2. ASSUME NEW s \in States, ScriptEnds(s), Reads PROVE ReadInv'
  BY <1>0, <1>2, SameCallsReads DEF ScriptEnds
<1>3. CASE UNCHANGED readVars
  <2>1. calls' = calls /\ stack' = stack /\ phase' = phase /\ context' = context
    BY <1>3 DEF readVars, vars
  <2>2. ContextTypes' /\ Mirrors' /\ FramesKnown' /\ FailuresAreOut' /\ Told'
    BY <2>1 DEF ReadInv, ContextTypes, Mirrors, Distinct, Ahead, FramesKnown, FrameKnown,
                FailuresAreOut, Failed, Outside, OnStack, Told, NotRead
  <2>3. Accounted'
    BY <2>1 DEF ReadInv, Accounted, OnStack, Failed, Handled, Handles
  <2> QED BY <2>2, <2>3 DEF ReadInv
<1> QED
  BY <1>0, <1>1, <1>2, <1>3, UserCallReads, HookEndsRead, EngineStepReads DEF Next

LEMMA ReadInitHolds == ReadInit => ReadInv
<1> SUFFICES ASSUME ReadInit PROVE ReadInv
  OBVIOUS
<1>1. /\ stack = <<>> /\ calls = <<>> /\ context.stack = <<>>
      /\ \A s \in States : phase[s] = "unborn" /\ context.nodes[s] = {}
      /\ ContextTypes
  BY DEF ReadInit, Init, ContextTypes, Notes
<1>2. Len(stack) = 0 /\ Len(calls) = 0 /\ Len(context.stack) = 0
  BY <1>1, EmptySeq
<1>3. Mirrors /\ Accounted /\ FramesKnown
  BY <1>2 DEF Mirrors, Distinct, Accounted, FramesKnown
<1>4. FailuresAreOut /\ Told
  BY <1>1 DEF FailuresAreOut, Failed, Told
<1> QED BY <1>1, <1>3, <1>4 DEF ReadInv

-----------------------------------------------------------------------------
(* Without, and what two sequences in the order of a third have in common. *)

LEMMA WithoutIs ==
  ASSUME NEW S, NEW q \in Seq(S), NEW drop
  PROVE  /\ Without(q, drop) \in Seq(S)
         /\ \A i \in 1..Len(Without(q, drop)) :
              Without(q, drop)[i] \notin drop /\ \E k \in 1..Len(q) : Without(q, drop)[i] = q[k]
         /\ \A i, j \in 1..Len(Without(q, drop)) :
              i < j => Ahead(q, Without(q, drop)[i], Without(q, drop)[j])
         /\ \A k \in 1..Len(q) :
              q[k] \in drop \/ \E i \in 1..Len(Without(q, drop)) : Without(q, drop)[i] = q[k]
<1> DEFINE N == Len(q)
           Turn(f, n) == IF n = 0 THEN <<>>
                         ELSE IF q[n] \in drop THEN f[n - 1] ELSE Append(f[n - 1], q[n])
           Loops(f, n) == f = [m \in 0..n |-> Turn(f, m)]
           Sifted(r, n) ==
             /\ r \in Seq(S)
             /\ \A i \in 1..Len(r) : r[i] \notin drop /\ \E k \in 1..n : r[i] = q[k]
             /\ \A i, j \in 1..Len(r) :
                  i < j => \E k, m \in 1..n : k < m /\ r[i] = q[k] /\ r[j] = q[m]
             /\ \A k \in 1..n : q[k] \in drop \/ \E i \in 1..Len(r) : r[i] = q[k]
<1>0. N \in Nat
  BY LenProperties
<1>1. \E f : Loops(f, N)
  <2> DEFINE Bad == {n \in 0..N : ~\E f : Loops(f, n)}
  <2> SUFFICES ASSUME Bad # {} PROVE FALSE
    <3>1. N \in 0..N
      BY <1>0
    <3> HIDE DEF Loops
    <3> QED BY <3>1
  <2>1. Bad \in SUBSET Nat
    BY <1>0
  <2>2. PICK n \in Bad : \A t \in Bad : t >= n
    <3> HIDE DEF Bad
    <3> QED BY <2>1, LeastOf
  <2>3. n \in 0..N /\ ~\E f : Loops(f, n)
    BY <2>2
  <2>4. CASE n = 0
    <3> DEFINE f == [m \in 0..0 |-> <<>>]
    <3>1. f = [m \in 0..0 |-> Turn(f, m)]
      <4>1. \A m \in 0..0 : Turn(f, m) = <<>>
        OBVIOUS
      <4> QED BY <4>1
    <3> QED BY <2>3, <2>4, <3>1
  <2>5. CASE n # 0
    <3>1. n - 1 \in 0..N /\ ~(n - 1 >= n) /\ n \in Nat /\ n - 1 \in Nat
      BY <1>0, <2>3, <2>5
    <3>2. \E f : Loops(f, n - 1)
      BY <2>2, <3>1
    <3>3. PICK f : Loops(f, n - 1)
      BY <3>2
    <3> DEFINE g == [m \in 0..n |-> IF m = n THEN Turn(f, n) ELSE f[m]]
    <3>4. \A m \in 0..n : Turn(g, m) = g[m]
      <4> SUFFICES ASSUME NEW m \in 0..n PROVE Turn(g, m) = g[m]
        OBVIOUS
      <4>1. m = 0 \/ g[m - 1] = f[m - 1]
        BY <3>1
      <4>2. Turn(g, m) = Turn(f, m)
        BY <4>1
      <4>3. m # n => f[m] = Turn(f, m)
        <5>1. m # n => m \in 0..(n - 1)
          BY <3>1
        <5> HIDE DEF Turn
        <5> QED BY <3>3, <5>1
      <4> HIDE DEF Turn
      <4> QED BY <4>2, <4>3
    <3>5. Loops(g, n)
      <4> HIDE DEF Turn
      <4>1. g = [m \in 0..n |-> g[m]]
        OBVIOUS
      <4> HIDE DEF g
      <4> QED BY <3>4, <4>1
    <3> QED BY <2>3, <3>5
  <2> QED BY <2>4, <2>5
<1>2. PICK f : Loops(f, N) /\ Without(q, drop) = f[N]
  BY <1>1 DEF Without
<1>3. \A n \in 0..N : f[n] = Turn(f, n)
  <2> HIDE DEF Turn
  <2> QED BY <1>2
<1>4. \A n \in 0..N : Sifted(f[n], n)
  <2> DEFINE Bad == {n \in 0..N : ~Sifted(f[n], n)}
  <2> SUFFICES ASSUME Bad # {} PROVE FALSE
    OBVIOUS
  <2>1. Bad \in SUBSET Nat
    BY <1>0
  <2>2. PICK n \in Bad : \A t \in Bad : t >= n
    <3> HIDE DEF Bad
    <3> QED BY <2>1, LeastOf
  <2>3. n \in 0..N /\ ~Sifted(f[n], n) /\ f[n] = Turn(f, n)
    BY <1>3, <2>2
  <2>4. CASE n = 0
    BY <2>3, <2>4
  <2>5. CASE n # 0
    <3>1. n - 1 \in 0..N /\ ~(n - 1 >= n) /\ n \in 1..N /\ n \in Nat
      BY <1>0, <2>3, <2>5
    <3>2. Sifted(f[n - 1], n - 1)
      BY <2>2, <3>1
    <3> DEFINE p == f[n - 1]
    <3>3. /\ p \in Seq(S) /\ q[n] \in S
          /\ \A i \in 1..Len(p) : p[i] \notin drop /\ \E k \in 1..(n - 1) : p[i] = q[k]
          /\ \A i, j \in 1..Len(p) :
               i < j => \E k, m \in 1..(n - 1) : k < m /\ p[i] = q[k] /\ p[j] = q[m]
          /\ \A k \in 1..(n - 1) : q[k] \in drop \/ \E i \in 1..Len(p) : p[i] = q[k]
      BY <3>1, <3>2, ElementOfSeq
    <3>4. (q[n] \in drop /\ f[n] = p) \/ (q[n] \notin drop /\ f[n] = Append(p, q[n]))
      BY <2>3, <2>5
    <3>5. /\ \A k \in 1..(n - 1) : k \in 1..n /\ k < n
          /\ \A k \in 1..n : k \in 1..(n - 1) \/ k = n
          /\ n \in 1..n
      BY <3>1
    <3> HIDE DEF p
    <3>6. CASE q[n] \in drop /\ f[n] = p
      <4>1. Sifted(p, n)
        <5>1. \A i \in 1..Len(p) : p[i] \notin drop /\ \E k \in 1..n : p[i] = q[k]
          BY <3>3, <3>5
        <5>2. \A i, j \in 1..Len(p) :
                i < j => \E k, m \in 1..n : k < m /\ p[i] = q[k] /\ p[j] = q[m]
          BY <3>3, <3>5
        <5>3. \A k \in 1..n : q[k] \in drop \/ \E i \in 1..Len(p) : p[i] = q[k]
          BY <3>3, <3>5, <3>6
        <5> QED BY <3>3, <5>1, <5>2, <5>3
      <4> HIDE DEF Sifted
      <4> QED BY <2>3, <3>6, <4>1
    <3>7. CASE q[n] \notin drop /\ f[n] = Append(p, q[n])
      <4> DEFINE r == Append(p, q[n])
      <4>1. /\ r \in Seq(S) /\ Len(r) = Len(p) + 1 /\ Len(p) \in Nat
            /\ \A i \in 1..Len(p) : r[i] = p[i]
            /\ r[Len(p) + 1] = q[n]
        BY <3>3, PushFacts
      <4> HIDE DEF r
      <4>2. /\ \A i \in 1..Len(p) : i \in 1..Len(r)
            /\ Len(p) + 1 \in 1..Len(r)
            /\ \A i \in 1..Len(r) : i \in 1..Len(p) \/ i = Len(p) + 1
        BY <4>1
      <4>3. ASSUME NEW i \in 1..Len(r)
            PROVE  r[i] \notin drop /\ \E k \in 1..n : r[i] = q[k]
        <5>1. CASE i = Len(p) + 1
          BY <3>5, <3>7, <4>1, <5>1
        <5>2. CASE i \in 1..Len(p)
          <6>1. p[i] \notin drop /\ \E k \in 1..(n - 1) : p[i] = q[k]
            BY <3>3, <5>2
          <6>2. \E k \in 1..n : p[i] = q[k]
            BY <3>5, <6>1
          <6> QED BY <4>1, <5>2, <6>1, <6>2
        <5> QED BY <4>2, <5>1, <5>2
      <4>4. ASSUME NEW i \in 1..Len(r), NEW j \in 1..Len(r), i < j
            PROVE  \E k, m \in 1..n : k < m /\ r[i] = q[k] /\ r[j] = q[m]
        <5>1. i \in 1..Len(p) /\ r[i] = p[i]
          BY <4>1, <4>4
        <5>2. CASE j = Len(p) + 1
          <6>1. PICK k \in 1..(n - 1) : p[i] = q[k]
            BY <3>3, <5>1
          <6>2. k \in 1..n /\ n \in 1..n /\ k < n
            BY <3>5
          <6> QED BY <4>1, <5>1, <5>2, <6>1, <6>2
        <5>3. CASE j \in 1..Len(p)
          <6>1. r[j] = p[j]
            BY <4>1, <5>3
          <6>2. PICK k \in 1..(n - 1), m \in 1..(n - 1) : k < m /\ p[i] = q[k] /\ p[j] = q[m]
            BY <3>3, <4>4, <5>1, <5>3
          <6>3. k \in 1..n /\ m \in 1..n
            BY <3>5
          <6> QED BY <5>1, <6>1, <6>2, <6>3
        <5> QED BY <4>2, <5>2, <5>3
      <4>5. ASSUME NEW k \in 1..n
            PROVE  q[k] \in drop \/ \E i \in 1..Len(r) : r[i] = q[k]
        <5>1. CASE k = n
          BY <4>1, <4>2, <5>1
        <5>2. CASE k \in 1..(n - 1)
          BY <3>3, <4>1, <4>2, <5>2
        <5> QED BY <3>5, <5>1, <5>2
      <4>6. Sifted(r, n)
        BY <4>1, <4>3, <4>4, <4>5
      <4> HIDE DEF Sifted
      <4> QED BY <2>3, <3>7, <4>6 DEF r
    <3> QED BY <3>4, <3>6, <3>7
  <2> QED BY <2>4, <2>5
<1>5. Sifted(f[N], N)
  <2>1. N \in 0..N
    BY <1>0
  <2> HIDE DEF Sifted
  <2> QED BY <1>4, <2>1
<1> DEFINE w == Without(q, drop)
<1>6. w = f[N]
  BY <1>2
<1> HIDE DEF w
<1>7. /\ w \in Seq(S)
      /\ \A i \in 1..Len(w) : w[i] \notin drop /\ \E k \in 1..Len(q) : w[i] = q[k]
      /\ \A i, j \in 1..Len(w) :
           i < j => \E k, m \in 1..Len(q) : k < m /\ w[i] = q[k] /\ w[j] = q[m]
      /\ \A k \in 1..Len(q) : q[k] \in drop \/ \E i \in 1..Len(w) : w[i] = q[k]
  BY <1>5, <1>6
<1>8. \A i, j \in 1..Len(w) : i < j => Ahead(q, w[i], w[j])
  <2> SUFFICES ASSUME NEW i \in 1..Len(w), NEW j \in 1..Len(w), i < j PROVE Ahead(q, w[i], w[j])
    OBVIOUS
  <2>1. PICK k \in 1..Len(q), m \in 1..Len(q) : k < m /\ w[i] = q[k] /\ w[j] = q[m]
    BY <1>7
  <2> QED BY <2>1 DEF Ahead
<1> QED BY <1>7, <1>8 DEF w

Rising(p, n) == \A i, j \in 1..n : i < j => p[i] < p[j]

\* Every number of p is one of r.
Among(p, m, r, n) == \A i \in 1..m : \E k \in 1..n : r[k] = p[i]

\* Two rising lists of the same numbers agree as far as the first one goes.
LEMMA SameNumbers ==
  ASSUME NEW m \in Nat, NEW n \in Nat, NEW p \in [1..m -> Nat], NEW r \in [1..n -> Nat],
         Rising(p, m), Rising(r, n), Among(p, m, r, n), Among(r, n, p, m)
  PROVE  \A i \in 1..m : i \in 1..n /\ p[i] = r[i]
<1> DEFINE Bad == {i \in 1..m : ~(i \in 1..n /\ p[i] = r[i])}
<1> SUFFICES ASSUME Bad # {} PROVE FALSE
  OBVIOUS
<1>0. (\A i \in 1..m : i \in Nat /\ p[i] \in Nat) /\ (\A k \in 1..n : k \in Nat /\ r[k] \in Nat)
  OBVIOUS
<1>1. PICK i \in Bad : \A t \in Bad : t >= i
  <2>1. Bad \in SUBSET Nat
    OBVIOUS
  <2> HIDE DEF Bad
  <2> QED BY <2>1, LeastOf
<1>2. i \in 1..m /\ i \in Nat /\ p[i] \in Nat /\ ~(i \in 1..n /\ p[i] = r[i])
  BY <1>0, <1>1
<1>3. \A j \in 1..m : j < i => j \in 1..n /\ p[j] = r[j]
  <2> SUFFICES ASSUME NEW j \in 1..m, j < i, j \in Bad PROVE FALSE
    OBVIOUS
  <2>1. j >= i /\ j \in Nat
    BY <1>0, <1>1
  <2> QED BY <1>2, <2>1
<1> HIDE DEF Bad
<1>4. PICK k \in 1..n : r[k] = p[i]
  BY <1>2 DEF Among
<1>5. ~(k < i)
  <2> SUFFICES ASSUME k < i PROVE FALSE
    OBVIOUS
  <2>1. k \in 1..m
    BY <1>0, <1>2
  <2>2. p[k] = r[k] /\ p[k] < p[i]
    BY <1>2, <1>3, <2>1 DEF Rising
  <2> QED BY <1>2, <1>4, <2>2
<1>6. i \in 1..n /\ i < k
  <2>1. k \in Nat /\ i <= k
    BY <1>0, <1>2, <1>4, <1>5
  <2>2. i \in 1..n
    BY <1>2, <2>1
  <2> QED BY <1>2, <1>4, <2>1, <2>2
<1>7. r[i] < p[i]
  BY <1>4, <1>6 DEF Rising
<1>8. PICK l \in 1..m : p[l] = r[i]
  BY <1>6 DEF Among
<1>9. l < i
  <2>1. l # i
    BY <1>2, <1>6, <1>8
  <2>2. ~(i < l)
    <3>1. i < l => p[i] < p[l]
      BY <1>2 DEF Rising
    <3>2. p[l] \in Nat
      BY <1>0
    <3> QED BY <1>2, <1>7, <1>8, <3>1, <3>2
  <2>3. l \in Nat
    BY <1>0
  <2> QED BY <1>2, <2>1, <2>2, <2>3
<1>10. l \in 1..n /\ r[l] = r[i] /\ r[i] \in Nat
  BY <1>0, <1>3, <1>6, <1>8, <1>9
<1>11. r[l] < r[i]
  BY <1>6, <1>9, <1>10 DEF Rising
<1> QED BY <1>10, <1>11

\* The sequence u is part of q, in the order of q.
Within(u, q) ==
  /\ \A i \in 1..Len(u) : \E a \in 1..Len(q) : q[a] = u[i]
  /\ \A i, j \in 1..Len(u) : i < j => Ahead(q, u[i], u[j])

\* The places of the elements of u in q.
Places(q, u) == [i \in 1..Len(u) |-> CHOOSE a \in 1..Len(q) : q[a] = u[i]]

LEMMA PlacesRise ==
  ASSUME NEW S, NEW q \in Seq(S), NEW u \in Seq(S), Distinct(q), Within(u, q)
  PROVE  /\ Places(q, u) \in [1..Len(u) -> Nat]
         /\ \A i \in 1..Len(u) : Places(q, u)[i] \in 1..Len(q) /\ q[Places(q, u)[i]] = u[i]
         /\ Rising(Places(q, u), Len(u))
<1> DEFINE p == Places(q, u)
<1>1. \A i \in 1..Len(u) : p[i] = CHOOSE a \in 1..Len(q) : q[a] = u[i]
  BY DEF Places
<1>2. \A i \in 1..Len(u) : p[i] \in 1..Len(q) /\ q[p[i]] = u[i]
  <2> HIDE DEF p
  <2> QED BY <1>1 DEF Within
<1>3. p \in [1..Len(u) -> Nat]
  <2>1. DOMAIN p = 1..Len(u) /\ p = [i \in 1..Len(u) |-> p[i]]
    BY DEF Places
  <2> HIDE DEF p
  <2> QED BY <1>2, <2>1
<1> HIDE DEF p
<1>4. Rising(p, Len(u))
  <2> SUFFICES ASSUME NEW i \in 1..Len(u), NEW j \in 1..Len(u), i < j PROVE p[i] < p[j]
    BY DEF Rising
  <2>1. PICK a \in 1..Len(q), b \in 1..Len(q) : a < b /\ q[a] = u[i] /\ q[b] = u[j]
    BY DEF Within, Ahead
  <2>2. p[i] = a /\ p[j] = b
    BY <1>2, <2>1 DEF Distinct
  <2> QED BY <2>1, <2>2
<1> QED BY <1>2, <1>3, <1>4 DEF p

\* Two sequences of the same elements of q, both in its order, are equal.
LEMMA SameSequence ==
  ASSUME NEW S, NEW q \in Seq(S), NEW u \in Seq(S), NEW w \in Seq(S), Distinct(q),
         Within(u, q), Within(w, q), Among(u, Len(u), w, Len(w)), Among(w, Len(w), u, Len(u))
  PROVE  u = w
<1> DEFINE p == Places(q, u)
           r == Places(q, w)
<1>1. /\ p \in [1..Len(u) -> Nat] /\ Rising(p, Len(u))
      /\ \A i \in 1..Len(u) : p[i] \in 1..Len(q) /\ q[p[i]] = u[i]
  BY PlacesRise
<1>2. /\ r \in [1..Len(w) -> Nat] /\ Rising(r, Len(w))
      /\ \A i \in 1..Len(w) : r[i] \in 1..Len(q) /\ q[r[i]] = w[i]
  BY PlacesRise
<1> HIDE DEF p, r
<1>3. Len(u) \in Nat /\ Len(w) \in Nat
  BY LenProperties
<1>4. ASSUME NEW i \in 1..Len(u), NEW k \in 1..Len(w), w[k] = u[i]
      PROVE  r[k] = p[i]
  <2>1. p[i] \in 1..Len(q) /\ r[k] \in 1..Len(q) /\ q[r[k]] = q[p[i]]
    BY <1>1, <1>2, <1>4
  <2> QED BY <2>1 DEF Distinct
<1>5. Among(p, Len(u), r, Len(w)) /\ Among(r, Len(w), p, Len(u))
  BY <1>4 DEF Among
<1>6. \A i \in 1..Len(u) : i \in 1..Len(w) /\ p[i] = r[i]
  BY <1>1, <1>2, <1>3, <1>5, SameNumbers
<1>7. \A i \in 1..Len(w) : i \in 1..Len(u) /\ r[i] = p[i]
  BY <1>1, <1>2, <1>3, <1>5, SameNumbers
<1>8. Len(u) = Len(w)
  <2>1. ~(Len(u) < Len(w))
    <3>1. Len(u) < Len(w) => Len(w) \in 1..Len(w)
      BY <1>3
    <3> QED BY <1>3, <1>7, <3>1
  <2>2. ~(Len(w) < Len(u))
    <3>1. Len(w) < Len(u) => Len(u) \in 1..Len(u)
      BY <1>3
    <3> QED BY <1>3, <1>6, <3>1
  <2> QED BY <1>3, <2>1, <2>2
<1>9. \A i \in 1..Len(u) : u[i] = w[i]
  BY <1>1, <1>2, <1>6
<1> QED BY <1>8, <1>9, SeqEqual

-----------------------------------------------------------------------------
LEMMA ReaderIsUpToDate ==
  ASSUME DataOK, StackInv, ReadInv
  PROVE  ReaderFollows
<1> SUFFICES ASSUME calls = <<>>
             PROVE  /\ Without(context.stack, {s \in States : Failed(s)}) = stack
                    /\ \A s \in States :
                         phase[s] = "gone" => "remove" \in context.nodes[s] \/ Failed(s)
  BY DEF ReaderFollows
<1> DEFINE c == context.stack
           out == {s \in States : Failed(s)}
           w == Without(c, out)
<1>1. /\ c \in Seq(States) /\ stack \in Seq(States) /\ Distinct(c)
      /\ \A i \in 1..Len(c) : c[i] \in States
      /\ \A i \in 1..Len(stack) : stack[i] \in States
  BY ElementOfSeq DEF DataOK, ReadInv, ContextTypes, Mirrors
<1>2. Within(stack, c)
  BY DEF ReadInv, Mirrors, Within
<1>3. \A s : ~Handled(s)
  <2>1. Len(calls) = 0
    BY EmptySeq
  <2> QED BY <2>1 DEF Handled
<1>4. \A i \in 1..Len(c) : OnStack(c[i]) \/ c[i] \in out
  <2> SUFFICES ASSUME NEW i \in 1..Len(c), NEW s, s = c[i] PROVE OnStack(s) \/ s \in out
    OBVIOUS
  <2>1. OnStack(s) \/ Failed(s) \/ Handled(s)
    BY DEF ReadInv, Accounted
  <2> QED BY <1>1, <1>3, <2>1
<1>5. \A i \in 1..Len(stack) : stack[i] \notin out
  BY DEF ReadInv, FailuresAreOut, Outside, OnStack
<1> HIDE DEF c, out
<1>6. /\ w \in Seq(States)
      /\ \A i \in 1..Len(w) : w[i] \notin out /\ \E k \in 1..Len(c) : w[i] = c[k]
      /\ \A i, j \in 1..Len(w) : i < j => Ahead(c, w[i], w[j])
      /\ \A k \in 1..Len(c) : c[k] \in out \/ \E i \in 1..Len(w) : w[i] = c[k]
  BY <1>1, WithoutIs
<1> HIDE DEF w
<1>7. Within(w, c)
  BY <1>6 DEF Within
<1>8. Among(stack, Len(stack), w, Len(w))
  <2> SUFFICES ASSUME NEW i \in 1..Len(stack) PROVE \E k \in 1..Len(w) : w[k] = stack[i]
    BY DEF Among
  <2>1. PICK j \in 1..Len(c) : c[j] = stack[i]
    BY <1>2 DEF Within
  <2> QED BY <1>5, <1>6, <2>1
<1>9. Among(w, Len(w), stack, Len(stack))
  <2> SUFFICES ASSUME NEW k \in 1..Len(w) PROVE \E i \in 1..Len(stack) : stack[i] = w[k]
    BY DEF Among
  <2>1. PICK j \in 1..Len(c) : w[k] = c[j]
    BY <1>6
  <2> QED BY <1>4, <1>6, <2>1 DEF OnStack
<1>10. stack = w
  BY <1>1, <1>2, <1>6, <1>7, <1>8, <1>9, SameSequence
<1> QED BY <1>10 DEF w, c, out, ReadInv, Told

\* The Observatory keeps up with the game (buildContext, decode.mjs): whatever hooks do, throw
\* or call, between two calls of the game the stack it has rebuilt from the trace, but for the
\* states that failed to enter, is the engine's, and every state that was left was reported.
THEOREM ReaderKeepsUp ==
  ASSUME ~ThrowsAfterMove
  PROVE  ReadSpec => []ReaderFollows
<1>1. ReadSpec => Spec
  <2>1. ReadInit => Init
    BY DEF ReadInit
  <2>2. [Next /\ Reads]_readVars => [Next]_vars
    BY DEF readVars
  <2> QED BY <2>1, <2>2, PTL DEF ReadSpec, Spec
<1>2. TypeInv /\ StackInv /\ LeakInv /\ ReadInv /\ [Next /\ Reads]_readVars => ReadInv'
  BY ReadStep
<1>3. TypeInv /\ StackInv /\ ReadInv => ReaderFollows
  BY TypeInvSplit, ReaderIsUpToDate
<1> QED BY <1>1, <1>2, <1>3, ReadInitHolds, LeakInvariant, PTL DEF ReadSpec

-----------------------------------------------------------------------------
(* The runners: what is in the queue.                                        *)

Has(q, what, of) == \E n \in 1..Len(q) : q[n].what = what /\ q[n].of = of

Onwards == {"resume", "script"}

Continues(q, w) == Has(q, "resume", w) \/ Has(q, "script", w)

\* No two continuations of the same wait.
Once(q) ==
  \A m, n \in 1..Len(q) :
    q[m].what \in Onwards /\ q[n].what \in Onwards /\ q[m].of = q[n].of => m = n

LEMMA Enqueued ==
  ASSUME NEW q \in Seq(R!Tasks), NEW t \in R!Tasks
  PROVE  /\ Append(q, t) \in Seq(R!Tasks)
         /\ \A x, o : Has(Append(q, t), x, o) <=> Has(q, x, o) \/ (t.what = x /\ t.of = o)
         /\ Once(q) /\ (t.what \in Onwards => ~Continues(q, t.of)) => Once(Append(q, t))
<1> DEFINE p == Append(q, t)
<1>1. /\ p \in Seq(R!Tasks) /\ Len(p) = Len(q) + 1 /\ Len(q) \in Nat
      /\ \A n \in 1..Len(q) : p[n] = q[n]
      /\ p[Len(q) + 1] = t
  BY PushFacts
<1>2. \A n \in 1..Len(p) : n \in 1..Len(q) \/ n = Len(q) + 1
  BY <1>1
<1>3. \A n \in 1..Len(q) : n \in 1..Len(p)
  BY <1>1
<1>4. Len(q) + 1 \in 1..Len(p)
  BY <1>1
<1> HIDE DEF p
<1>6. ASSUME NEW x, NEW o
      PROVE  Has(p, x, o) <=> Has(q, x, o) \/ (t.what = x /\ t.of = o)
  <2>1. ASSUME Has(p, x, o)
        PROVE  Has(q, x, o) \/ (t.what = x /\ t.of = o)
    <3>1. PICK n \in 1..Len(p) : p[n].what = x /\ p[n].of = o
      BY <2>1 DEF Has
    <3>2. CASE n \in 1..Len(q)
      BY <1>1, <3>1, <3>2 DEF Has
    <3>3. CASE n = Len(q) + 1
      BY <1>1, <3>1, <3>3
    <3> QED BY <1>2, <3>1, <3>2, <3>3
  <2>2. ASSUME Has(q, x, o)
        PROVE  Has(p, x, o)
    <3>1. PICK n \in 1..Len(q) : q[n].what = x /\ q[n].of = o
      BY <2>2 DEF Has
    <3> QED BY <1>1, <1>3, <3>1 DEF Has
  <2>3. ASSUME t.what = x, t.of = o
        PROVE  Has(p, x, o)
    BY <1>1, <1>4, <2>3 DEF Has
  <2> QED BY <2>1, <2>2, <2>3
<1>7. ASSUME Once(q), t.what \in Onwards => ~Continues(q, t.of)
      PROVE  Once(p)
  <2>1. ASSUME NEW m \in 1..Len(p), NEW n \in 1..Len(p),
               p[m].what \in Onwards, p[n].what \in Onwards, p[m].of = p[n].of
        PROVE  m = n
    <3>1. ASSUME NEW k \in 1..Len(q), q[k].what \in Onwards, q[k].of = t.of,
                 t.what \in Onwards
          PROVE  FALSE
      BY <1>7, <3>1 DEF Continues, Has, Onwards
    <3>2. CASE m \in 1..Len(q) /\ n \in 1..Len(q)
      BY <1>1, <1>7, <2>1, <3>2 DEF Once
    <3>3. CASE m \in 1..Len(q) /\ n = Len(q) + 1
      BY <1>1, <2>1, <3>1, <3>3
    <3>4. CASE m = Len(q) + 1 /\ n \in 1..Len(q)
      BY <1>1, <2>1, <3>1, <3>4
    <3> QED BY <1>2, <2>1, <3>2, <3>3, <3>4
  <2> QED BY <2>1 DEF Once
<1> QED BY <1>1, <1>6, <1>7 DEF p

LEMMA Popped ==
  ASSUME NEW q \in Seq(R!Tasks), q # <<>>
  PROVE  /\ Head(q) \in R!Tasks /\ Tail(q) \in Seq(R!Tasks)
         /\ \A x, o : Has(q, x, o) <=> Has(Tail(q), x, o) \/ (Head(q).what = x /\ Head(q).of = o)
         /\ Once(q) => /\ Once(Tail(q))
                       /\ Head(q).what \in Onwards => ~Continues(Tail(q), Head(q).of)
<1> DEFINE p == Tail(q)
<1>1. /\ p \in Seq(R!Tasks) /\ Head(q) \in R!Tasks /\ Len(p) = Len(q) - 1
      /\ \A n \in 1..Len(p) : p[n] = q[n + 1]
      /\ Len(q) \in Nat \ {0} /\ Head(q) = q[1]
  BY HeadTailProperties, EmptySeq
<1>2. \A n \in 1..Len(p) : n + 1 \in 1..Len(q)
  BY <1>1
<1>3. \A n \in 1..Len(q) : n # 1 => n - 1 \in 1..Len(p) /\ n - 1 + 1 = n
  BY <1>1
<1>4. 1 \in 1..Len(q)
  BY <1>1
<1> HIDE DEF p
<1>5. ASSUME NEW x, NEW o
      PROVE  Has(q, x, o) <=> Has(p, x, o) \/ (Head(q).what = x /\ Head(q).of = o)
  <2>1. ASSUME Has(q, x, o)
        PROVE  Has(p, x, o) \/ (Head(q).what = x /\ Head(q).of = o)
    <3>1. PICK n \in 1..Len(q) : q[n].what = x /\ q[n].of = o
      BY <2>1 DEF Has
    <3>2. CASE n = 1
      BY <1>1, <3>1, <3>2
    <3>3. CASE n # 1
      <4>1. n - 1 \in 1..Len(p) /\ p[n - 1] = q[n]
        BY <1>1, <1>3, <3>3
      <4> QED BY <3>1, <4>1 DEF Has
    <3> QED BY <3>2, <3>3
  <2>2. ASSUME Has(p, x, o)
        PROVE  Has(q, x, o)
    <3>1. PICK n \in 1..Len(p) : p[n].what = x /\ p[n].of = o
      BY <2>2 DEF Has
    <3>2. n + 1 \in 1..Len(q) /\ q[n + 1] = p[n]
      BY <1>1, <1>2
    <3> QED BY <3>1, <3>2 DEF Has
  <2>3. ASSUME Head(q).what = x, Head(q).of = o
        PROVE  Has(q, x, o)
    BY <1>1, <1>4, <2>3 DEF Has
  <2> QED BY <2>1, <2>2, <2>3
<1>6. ASSUME Once(q)
      PROVE  Once(p)
  <2>1. ASSUME NEW m \in 1..Len(p), NEW n \in 1..Len(p),
               p[m].what \in Onwards, p[n].what \in Onwards, p[m].of = p[n].of
        PROVE  m = n
    <3>1. /\ m + 1 \in 1..Len(q) /\ n + 1 \in 1..Len(q)
          /\ p[m] = q[m + 1] /\ p[n] = q[n + 1]
      BY <1>1, <1>2
    <3>2. m + 1 = n + 1
      BY <1>6, <2>1, <3>1 DEF Once
    <3> QED BY <3>2
  <2> QED BY <2>1 DEF Once
<1>7. ASSUME Once(q), Head(q).what \in Onwards
      PROVE  ~Continues(p, Head(q).of)
  <2>1. ASSUME NEW n \in 1..Len(p), p[n].what \in Onwards, p[n].of = Head(q).of
        PROVE  FALSE
    <3>1. n + 1 \in 1..Len(q) /\ q[n + 1] = p[n]
      BY <1>1, <1>2
    <3>2. n + 1 = 1
      BY <1>1, <1>4, <1>7, <2>1, <3>1 DEF Once
    <3> QED BY <3>2
  <2> QED BY <2>1 DEF Continues, Has, Onwards
<1> QED BY <1>1, <1>5, <1>6, <1>7 DEF p

LEMMA Joined ==
  ASSUME NEW q \in Seq(R!Tasks), NEW s \in Seq(R!Tasks)
  PROVE  /\ q \o s \in Seq(R!Tasks)
         /\ \A x, o : Has(q \o s, x, o) <=> Has(q, x, o) \/ Has(s, x, o)
         /\ Once(q) /\ Once(s) /\ (\A o : ~(Continues(q, o) /\ Continues(s, o))) => Once(q \o s)
<1> DEFINE p == q \o s
<1>1. /\ p \in Seq(R!Tasks) /\ Len(p) = Len(q) + Len(s) /\ Len(q) \in Nat /\ Len(s) \in Nat
      /\ \A i \in 1..(Len(q) + Len(s)) : p[i] = IF i <= Len(q) THEN q[i] ELSE s[i - Len(q)]
  BY ConcatProperties, LenProperties
<1> HIDE DEF p
<1>2. \A n \in 1..Len(p) :
        \/ n \in 1..Len(q) /\ p[n] = q[n]
        \/ n - Len(q) \in 1..Len(s) /\ p[n] = s[n - Len(q)]
  BY <1>1
<1>3. /\ \A n \in 1..Len(q) : n \in 1..Len(p) /\ p[n] = q[n]
      /\ \A n \in 1..Len(s) : n + Len(q) \in 1..Len(p) /\ p[n + Len(q)] = s[n]
  <2>1. ASSUME NEW n \in 1..Len(q)
        PROVE  n \in 1..Len(p) /\ p[n] = q[n]
    BY <1>1
  <2>2. ASSUME NEW n \in 1..Len(s)
        PROVE  n + Len(q) \in 1..Len(p) /\ p[n + Len(q)] = s[n]
    <3>1. n + Len(q) \in 1..(Len(q) + Len(s)) /\ ~(n + Len(q) <= Len(q)) /\ n + Len(q) - Len(q) = n
      BY <1>1
    <3> QED BY <1>1, <3>1
  <2> QED BY <2>1, <2>2
<1>4. ASSUME NEW x, NEW o
      PROVE  Has(p, x, o) <=> Has(q, x, o) \/ Has(s, x, o)
  <2>1. ASSUME Has(p, x, o)
        PROVE  Has(q, x, o) \/ Has(s, x, o)
    BY <1>2, <2>1 DEF Has
  <2>2. ASSUME Has(q, x, o)
        PROVE  Has(p, x, o)
    BY <1>3, <2>2 DEF Has
  <2>3. ASSUME Has(s, x, o)
        PROVE  Has(p, x, o)
    BY <1>3, <2>3 DEF Has
  <2> QED BY <2>1, <2>2, <2>3
<1>5. ASSUME Once(q), Once(s), \A o : ~(Continues(q, o) /\ Continues(s, o))
      PROVE  Once(p)
  <2>1. ASSUME NEW m \in 1..Len(p), NEW n \in 1..Len(p),
               p[m].what \in Onwards, p[n].what \in Onwards, p[m].of = p[n].of
        PROVE  m = n
    <3>0. m \in Int /\ n \in Int /\ Len(q) \in Int
      BY <1>1
    <3>1. ASSUME NEW i \in 1..Len(q), NEW j \in 1..Len(s),
                 q[i].what \in Onwards, s[j].what \in Onwards, q[i].of = s[j].of
          PROVE  FALSE
      BY <1>5, <3>1 DEF Continues, Has, Onwards
    <3>2. CASE m \in 1..Len(q) /\ p[m] = q[m] /\ n \in 1..Len(q) /\ p[n] = q[n]
      BY <1>5, <2>1, <3>2 DEF Once
    <3>3. CASE /\ m - Len(q) \in 1..Len(s) /\ p[m] = s[m - Len(q)]
               /\ n - Len(q) \in 1..Len(s) /\ p[n] = s[n - Len(q)]
      <4>1. m - Len(q) = n - Len(q)
        BY <1>5, <2>1, <3>3 DEF Once
      <4> QED BY <3>0, <4>1
    <3>4. CASE m \in 1..Len(q) /\ p[m] = q[m] /\ n - Len(q) \in 1..Len(s) /\ p[n] = s[n - Len(q)]
      BY <2>1, <3>1, <3>4
    <3>5. CASE n \in 1..Len(q) /\ p[n] = q[n] /\ m - Len(q) \in 1..Len(s) /\ p[m] = s[m - Len(q)]
      BY <2>1, <3>1, <3>5
    <3> QED BY <1>2, <2>1, <3>2, <3>3, <3>4, <3>5
  <2> QED BY <2>1 DEF Once
<1> QED BY <1>1, <1>4, <1>5 DEF p

-----------------------------------------------------------------------------
(* The invariant.  A wait in flight is armed, and then a timer or a queued   *)
(* settlement will settle it, or has one continuation in the queue.          *)

Continuations ==
  /\ Once(queue)
  /\ \A w \in R!Ids \union R!Waits : Continues(queue, w) <=> w \in flight \ armed
  /\ \A w \in R!Waits : Has(queue, "script", w) => w \notin handles
  /\ armed \subseteq handles
  /\ \A w \in armed : w \in timers \/ Has(queue, "settle", w)
  /\ \A w \in flight : owner[w] \in R!Ids /\ kind[owner[w]] = "runner"

On(c, i) == \E n \in 1..Len(c) : c[n] = i

Kinds ==
  /\ \A i \in over \union cancelled : kind[i] = "runner"
  /\ \A i \in jobs : kind[i] = "job"
  /\ \A i \in R!Ids : On(code, i) => kind[i] # "none"
  /\ \A i \in R!Ids : kind[i] # "job" => promise[i] = "pending"
  /\ \A i \in R!Ids \union R!Waits : Has(queue, "finish", i) => i \in over
  /\ \A i \in R!Ids \union R!Waits :
       Has(queue, "release", i) => i \in R!Ids /\ kind[i] = "job" /\ promise[i] # "pending"

Awaits(i) == \E w \in flight : owner[w] = i

JobHeld(i) == (promise[i] = "pending" /\ i \in jobs) \/ Has(queue, "release", i)

ScriptHeld(i) == IF i \in over THEN Has(queue, "finish", i) ELSE On(code, i) \/ Awaits(i)

\* What the map holds will leave it.
Entries ==
  \A i \in running :
    \/ kind[i] = "job" /\ JobHeld(i)
    \/ kind[i] = "runner" /\ ScriptHeld(i)

RInv == R!TypeOK /\ Continuations /\ Kinds /\ Entries /\ R!RunningIsTracked

-----------------------------------------------------------------------------
(* What cancelling queues.                                                   *)

Rejected(I) == UNION {R!ArmedOf(i) : i \in I}

Resolved(I) == {i \in I : kind[i] = "job" /\ promise[i] = "pending"}

LEMMA Unwound ==
  ASSUME R!RunnerAssumption, R!TypeOK, Continuations, NEW I \in SUBSET R!Ids,
         NEW s \in R!InOrder(R!Unwinding(I))
  PROVE  /\ s \in Seq(R!Tasks) /\ Once(s)
         /\ \A x, o : Has(s, x, o) <=> \/ x = "resume" /\ o \in Rejected(I)
                                       \/ x = "release" /\ o \in Resolved(I)
<1> DEFINE T == R!Unwinding(I)
<1>1. T = {R!Task("resume", w, "error") : w \in Rejected(I)}
            \union {R!Task("release", i, "ok") : i \in Resolved(I)}
  BY DEF R!Unwinding, Rejected, Resolved
<1>2. Rejected(I) \subseteq R!Waits /\ Resolved(I) \subseteq R!Ids
  BY DEF Rejected, Resolved, R!ArmedOf, R!TypeOK
<1>3. \A t \in T : /\ t \in R!Tasks
                   /\ \/ t.what = "resume" /\ t.of \in Rejected(I)
                      \/ t.what = "release" /\ t.of \in Resolved(I)
  BY <1>1, <1>2 DEF R!Task, R!Tasks
<1>4. /\ \A w \in Rejected(I) : \E t \in T : t.what = "resume" /\ t.of = w
      /\ \A i \in Resolved(I) : \E t \in T : t.what = "release" /\ t.of = i
  <2>1. ASSUME NEW w \in Rejected(I)
        PROVE  \E t \in T : t.what = "resume" /\ t.of = w
    <3>1. R!Task("resume", w, "error") \in T
      BY <1>1
    <3> HIDE DEF T
    <3> QED BY <3>1 DEF R!Task
  <2>2. ASSUME NEW i \in Resolved(I)
        PROVE  \E t \in T : t.what = "release" /\ t.of = i
    <3>1. R!Task("release", i, "ok") \in T
      BY <1>1
    <3> HIDE DEF T
    <3> QED BY <3>1 DEF R!Task
  <2> QED BY <2>1, <2>2
<1>0. /\ s \in R!SeqOf(T, MaxIds + MaxWaits)
      /\ R!Range(s) = T
      /\ \A m, n \in DOMAIN s : m < n => R!Earlier(s[m], s[n])
  BY DEF R!InOrder
<1> HIDE DEF T
<1>5. PICK k \in 0..(MaxIds + MaxWaits) : s \in [1..k -> T]
  BY <1>0 DEF R!SeqOf
<1>6. k \in Nat /\ s \in Seq(T) /\ Len(s) = k
  BY <1>5
<1>7. s \in Seq(R!Tasks)
  BY <1>3, <1>6
<1>8. /\ \A n \in 1..Len(s) : s[n] \in T
      /\ \A t \in T : \E n \in 1..Len(s) : s[n] = t
      /\ \A m, n \in 1..Len(s) : m < n => R!Earlier(s[m], s[n])
  <2>1. DOMAIN s = 1..Len(s)
    BY <1>5, <1>6
  <2>2. \A t : t \in T <=> \E n \in 1..Len(s) : s[n] = t
    BY <1>0, <2>1 DEF R!Range
  <2> QED BY <1>0, <2>1, <2>2
<1>9. \A x, o : Has(s, x, o) <=> \/ x = "resume" /\ o \in Rejected(I)
                                 \/ x = "release" /\ o \in Resolved(I)
  BY <1>3, <1>4, <1>8 DEF Has
<1>10. Once(s)
  <2>1. ASSUME NEW m \in 1..Len(s), NEW n \in 1..Len(s), m < n,
               s[m].what \in Onwards, s[n].what \in Onwards, s[m].of = s[n].of
        PROVE  FALSE
    <3>1. s[m].what = "resume" /\ s[n].what = "resume" /\ s[m].of \in Rejected(I)
      BY <1>3, <1>8, <2>1 DEF Onwards
    <3>2. s[m].of \in Nat /\ owner[s[m].of] \in Nat
      BY <1>2, <3>1 DEF R!TypeOK, R!Waits, R!Ids
    <3>3. R!Earlier(s[m], s[n])
      BY <1>8, <2>1
    <3> QED BY <2>1, <3>1, <3>2, <3>3 DEF R!Earlier
  <2>2. \A m, n \in 1..Len(s) : m = n \/ m < n \/ n < m
    BY <1>6
  <2> QED BY <2>1, <2>2 DEF Once
<1> QED BY <1>7, <1>9, <1>10

-----------------------------------------------------------------------------
(* The call stack.                                                           *)

Code == R!Ids \union {Host}

LEMMA CodePopped ==
  ASSUME R!TypeOK, R!MayCall
  PROVE  /\ R!Front(code) \in Seq(Code)
         /\ R!Top \in Code /\ On(code, R!Top)
         /\ \A x : On(R!Front(code), x) => On(code, x)
         /\ \A x : On(code, x) => x = R!Top \/ On(R!Front(code), x)
<1>1. code \in Seq(Code) /\ code # <<>>
  BY DEF R!TypeOK, R!MayCall, Code
<1>2. R!Front(code) = Front(code) /\ R!Top = Last(code)
  BY DEF R!Front, R!Top, R!Last, Front, Last
<1>3. /\ Front(code) \in Seq(Code)
      /\ Len(Front(code)) = Len(code) - 1
      /\ Len(code) \in 1..Len(code)
      /\ Last(code) \in Code
      /\ Last(code) = code[Len(code)]
      /\ \A n \in 1..Len(Front(code)) : Front(code)[n] = code[n] /\ n \in 1..Len(code)
  BY <1>1, FrontFacts
<1>4. \A n \in 1..Len(code) : n = Len(code) \/ n \in 1..Len(Front(code))
  BY <1>3
<1>5. ASSUME NEW x, On(Front(code), x)
      PROVE  On(code, x)
  BY <1>3, <1>5 DEF On
<1>6. ASSUME NEW x, On(code, x)
      PROVE  x = Last(code) \/ On(Front(code), x)
  <2>1. PICK n \in 1..Len(code) : code[n] = x
    BY <1>6 DEF On
  <2> QED BY <1>3, <1>4, <2>1 DEF On
<1>7. On(code, Last(code))
  BY <1>3 DEF On
<1> QED BY <1>2, <1>3, <1>5, <1>6, <1>7

LEMMA CodePushed ==
  ASSUME R!TypeOK, NEW i \in Code
  PROVE  /\ Append(code, i) \in Seq(Code)
         /\ \A x : On(Append(code, i), x) <=> On(code, x) \/ x = i
<1> DEFINE c == Append(code, i)
<1>1. code \in Seq(Code)
  BY DEF R!TypeOK, Code
<1>2. /\ c \in Seq(Code) /\ Len(c) = Len(code) + 1 /\ Len(code) \in Nat
      /\ \A n \in 1..Len(code) : c[n] = code[n]
      /\ c[Len(code) + 1] = i
  BY <1>1, PushFacts
<1>3. /\ \A n \in 1..Len(c) : n \in 1..Len(code) \/ n = Len(code) + 1
      /\ \A n \in 1..Len(code) : n \in 1..Len(c)
      /\ Len(code) + 1 \in 1..Len(c)
  BY <1>2
<1> HIDE DEF c
<1>4. \A x : On(c, x) <=> On(code, x) \/ x = i
  BY <1>2, <1>3 DEF On
<1> QED BY <1>2, <1>4 DEF c

LEMMA CodeAlone ==
  ASSUME NEW i \in Code
  PROVE  /\ <<i>> \in Seq(Code)
         /\ \A x : On(<<i>>, x) <=> x = i
         /\ \A x : ~On(<<>>, x)
<1>1. <<i>> \in Seq(Code) /\ Len(<<i>>) = 1 /\ <<i>>[1] = i /\ Len(<<>>) = 0
  OBVIOUS
<1> QED BY <1>1 DEF On

-----------------------------------------------------------------------------
(* Steps that only move the call stack.                                      *)

LEMMA CodeMoves ==
  ASSUME RInv, UNCHANGED <<R!runnerVars, R!jobVars, R!waitVars, queue>>,
         code' \in Seq(Code), draining' \in BOOLEAN,
         \A i \in R!Ids : On(code', i) => On(code, i) \/ kind[i] # "none",
         \A i \in R!Ids : On(code, i) /\ kind[i] = "runner" => On(code', i) \/ Awaits(i)
  PROVE  RInv'
<1> USE DEF R!runnerVars, R!jobVars, R!waitVars
<1>1. R!TypeOK'
  BY DEF RInv, R!TypeOK, Code
<1>2. Continuations'
  BY DEF RInv, Continuations
<1>3. Kinds'
  BY DEF RInv, Kinds
<1>4. Entries'
  <2>1. running \subseteq R!Ids
    BY DEF RInv, R!TypeOK
  <2>2. \A i : Awaits(i)' <=> Awaits(i)
    BY DEF Awaits
  <2>3. \A i \in R!Ids : kind[i] = "runner" /\ ScriptHeld(i) => ScriptHeld(i)'
    BY <2>2 DEF ScriptHeld
  <2>4. \A i \in R!Ids : JobHeld(i) => JobHeld(i)'
    BY DEF JobHeld
  <2> QED BY <2>1, <2>3, <2>4 DEF RInv, Entries
<1>5. R!RunningIsTracked'
  BY DEF RInv, R!RunningIsTracked
<1> QED BY <1>1, <1>2, <1>3, <1>4, <1>5 DEF RInv

LEMMA HostCallsKeeps == ASSUME RInv, R!HostCalls PROVE RInv'
<1>1. /\ code = <<>> /\ code' = <<Host>> /\ draining' = FALSE
      /\ UNCHANGED <<R!runnerVars, R!jobVars, R!waitVars, queue>>
  BY DEF R!HostCalls, R!HostReady
<1>2. Host \notin R!Ids /\ Host \in Code
  BY StopsAssumption DEF R!RunnerAssumption, Code
<1> QED BY <1>1, <1>2, CodeAlone, CodeMoves

LEMMA HostReturnsKeeps == ASSUME RInv, R!HostReturns PROVE RInv'
<1>1. /\ R!MayCall /\ R!Top = Host /\ code' = R!Front(code) /\ UNCHANGED draining
      /\ UNCHANGED <<R!runnerVars, R!jobVars, R!waitVars, queue>>
  BY DEF R!HostReturns
<1>2. Host \notin R!Ids
  BY StopsAssumption DEF R!RunnerAssumption
<1>3. R!TypeOK /\ draining' \in BOOLEAN
  BY <1>1 DEF RInv, R!TypeOK
<1> QED BY <1>1, <1>2, <1>3, CodePopped, CodeMoves

LEMMA JobStepKeeps == ASSUME RInv, NEW i \in R!Ids, R!JobStep(i) PROVE RInv'
<1>1. /\ code = <<>> /\ i \in jobs /\ code' = <<i>> /\ draining' = FALSE
      /\ UNCHANGED <<R!runnerVars, R!jobVars, R!waitVars, queue>>
  BY DEF R!JobStep, R!HostReady
<1>2. i \in Code /\ kind[i] = "job"
  BY <1>1 DEF RInv, Kinds, Code
<1> QED BY <1>1, <1>2, CodeAlone, CodeMoves

LEMMA JobYieldsKeeps == ASSUME RInv, R!JobYields PROVE RInv'
<1>1. /\ R!MayCall /\ kind[R!Top] = "job" /\ code' = R!Front(code) /\ UNCHANGED draining
      /\ UNCHANGED <<R!runnerVars, R!jobVars, R!waitVars, queue>>
  BY DEF R!JobYields
<1>2. R!TypeOK /\ draining' \in BOOLEAN
  BY <1>1 DEF RInv, R!TypeOK
<1> QED BY <1>1, <1>2, CodePopped, CodeMoves

-----------------------------------------------------------------------------
(* Scripts and jobs start.                                                   *)

LEMMA FreshIsUnknown ==
  ASSUME RInv, NEW i \in R!Ids, R!Fresh(i)
  PROVE  /\ kind[i] = "none" /\ i \notin running \union cancelled \union over \union jobs
         /\ ~On(code, i) /\ promise[i] = "pending"
         /\ \A w \in flight : owner[w] # i
BY DEF R!Fresh, RInv, Kinds, Entries, Continuations

LEMMA FreshWaitIsUnknown ==
  ASSUME RInv, NEW w \in R!Waits, R!FreshWait(w)
  PROVE  /\ w \notin flight /\ w \notin armed /\ w \notin handles /\ ~Continues(queue, w)
         /\ ~Has(queue, "script", w)
<1>1. owner[w] \notin R!Ids
  BY DEF R!FreshWait, R!Ids
<1>2. w \notin flight
  BY <1>1 DEF RInv, Continuations
<1> QED BY <1>2 DEF RInv, Continuations, R!TypeOK, Continues

LEMMA RunKeeps == ASSUME RInv, NEW i \in R!Ids, R!Run(i) PROVE RInv'
<1> USE DEF R!jobVars, R!waitVars
<1>0. /\ R!TypeOK /\ i \in Code
      /\ kind[i] = "none" /\ i \notin running \union cancelled \union over \union jobs
      /\ promise[i] = "pending" /\ \A w \in flight : owner[w] # i
  BY FreshIsUnknown DEF R!Run, RInv, Code
<1>1. /\ kind' = [kind EXCEPT ![i] = "runner"] /\ running' = running \union {i}
      /\ code' = Append(code, i)
      /\ UNCHANGED <<cancelled, over, jobs, promise, owner, delayed, flight, handles,
                     armed, timers, queue, draining>>
  BY DEF R!Run
<1>2. code' \in Seq(Code) /\ \A x : On(code', x) <=> On(code, x) \/ x = i
  BY <1>0, <1>1, CodePushed
<1>3. /\ kind'[i] = "runner"
      /\ \A j \in R!Ids : j # i => kind'[j] = kind[j]
  BY <1>0, <1>1 DEF R!TypeOK
<1>4. R!TypeOK'
  BY <1>0, <1>1, <1>2 DEF R!TypeOK, Code
<1>5. Continuations'
  BY <1>0, <1>1, <1>3 DEF RInv, Continuations
<1>6. Kinds'
  BY <1>0, <1>1, <1>2, <1>3 DEF RInv, Kinds, R!TypeOK
<1>7. Entries'
  <2>1. ASSUME NEW j \in running
        PROVE  (kind[j] = "job" /\ JobHeld(j))' \/ (kind[j] = "runner" /\ ScriptHeld(j))'
    <3>1. j \in R!Ids /\ j # i /\ kind'[j] = kind[j]
      BY <1>0, <1>3 DEF R!TypeOK
    <3>2. JobHeld(j) => JobHeld(j)'
      BY <1>1 DEF JobHeld
    <3>3. ScriptHeld(j) => ScriptHeld(j)'
      BY <1>1, <1>2 DEF ScriptHeld, Awaits
    <3> QED BY <3>1, <3>2, <3>3 DEF RInv, Entries
  <2>2. ScriptHeld(i)'
    BY <1>0, <1>1, <1>2 DEF ScriptHeld
  <2> QED BY <1>1, <1>3, <2>1, <2>2 DEF Entries
<1>8. R!RunningIsTracked'
  BY <1>0, <1>1, <1>3 DEF RInv, R!RunningIsTracked
<1> QED BY <1>4, <1>5, <1>6, <1>7, <1>8 DEF RInv

LEMMA RunJobKeeps == ASSUME RInv, NEW i \in R!Ids, R!RunJob(i) PROVE RInv'
<1> USE DEF R!waitVars
<1>0. /\ R!TypeOK
      /\ kind[i] = "none" /\ i \notin running \union cancelled \union over \union jobs
      /\ promise[i] = "pending" /\ ~On(code, i) /\ \A w \in flight : owner[w] # i
  BY FreshIsUnknown DEF R!RunJob, RInv
<1>1. /\ kind' = [kind EXCEPT ![i] = "job"] /\ running' = running \union {i}
      /\ jobs' = jobs \union {i}
      /\ UNCHANGED <<cancelled, over, promise, owner, delayed, flight, handles,
                     armed, timers, queue, code, draining>>
  BY DEF R!RunJob
<1>3. /\ kind'[i] = "job"
      /\ \A j \in R!Ids : j # i => kind'[j] = kind[j]
  BY <1>0, <1>1 DEF R!TypeOK
<1>4. R!TypeOK'
  BY <1>0, <1>1 DEF R!TypeOK
<1>5. Continuations'
  BY <1>0, <1>1, <1>3 DEF RInv, Continuations
<1>6. Kinds'
  BY <1>0, <1>1, <1>3 DEF RInv, Kinds, R!TypeOK
<1>7. Entries'
  <2>1. ASSUME NEW j \in running
        PROVE  (kind[j] = "job" /\ JobHeld(j))' \/ (kind[j] = "runner" /\ ScriptHeld(j))'
    <3>1. j \in R!Ids /\ j # i /\ kind'[j] = kind[j]
      BY <1>0, <1>3 DEF R!TypeOK
    <3>2. JobHeld(j) => JobHeld(j)'
      BY <1>1 DEF JobHeld
    <3>3. ScriptHeld(j) => ScriptHeld(j)'
      BY <1>1 DEF ScriptHeld, Awaits
    <3> QED BY <3>1, <3>2, <3>3 DEF RInv, Entries
  <2>2. JobHeld(i)'
    BY <1>0, <1>1 DEF JobHeld
  <2> QED BY <1>1, <1>3, <2>1, <2>2 DEF Entries
<1>8. R!RunningIsTracked'
  BY <1>0, <1>1, <1>3 DEF RInv, R!RunningIsTracked
<1> QED BY <1>4, <1>5, <1>6, <1>7, <1>8 DEF RInv

LEMMA RunDelayKeeps ==
  ASSUME RInv, NEW i \in R!Ids, NEW w \in R!Waits, R!RunDelay(i, w) PROVE RInv'
<1> USE DEF R!jobVars
<1>0. /\ R!TypeOK
      /\ kind[i] = "none" /\ i \notin running \union cancelled \union over \union jobs
      /\ promise[i] = "pending" /\ \A v \in flight : owner[v] # i
      /\ w \notin flight /\ w \notin armed /\ w \notin handles /\ ~Continues(queue, w)
      /\ ~Has(queue, "script", w)
  BY FreshIsUnknown, FreshWaitIsUnknown DEF R!RunDelay, RInv
<1>1. /\ kind' = [kind EXCEPT ![i] = "runner"] /\ running' = running \union {i}
      /\ owner' = [owner EXCEPT ![w] = i]
      /\ flight' = flight \union {w} /\ handles' = handles \union {w}
      /\ armed' = armed \union {w} /\ timers' = timers \union {w}
      /\ delayed' = delayed \union {i}
      /\ UNCHANGED <<cancelled, over, jobs, promise, queue, code, draining>>
  BY DEF R!RunDelay
<1>2. /\ owner'[w] = i
      /\ \A v \in R!Waits : v # w => owner'[v] = owner[v]
  BY <1>0, <1>1 DEF R!TypeOK
<1>3. /\ kind'[i] = "runner"
      /\ \A j \in R!Ids : j # i => kind'[j] = kind[j]
  BY <1>0, <1>1 DEF R!TypeOK
<1>4. R!TypeOK'
  BY <1>0, <1>1 DEF R!TypeOK
<1>5. Continuations'
  <2>1. flight \subseteq R!Waits
    BY <1>0 DEF R!TypeOK
  <2> QED BY <1>0, <1>1, <1>2, <1>3, <2>1 DEF RInv, Continuations
<1>6. Kinds'
  BY <1>0, <1>1, <1>3 DEF RInv, Kinds, R!TypeOK
<1>7. Entries'
  <2>1. ASSUME NEW j \in running
        PROVE  (kind[j] = "job" /\ JobHeld(j))' \/ (kind[j] = "runner" /\ ScriptHeld(j))'
    <3>1. j \in R!Ids /\ j # i /\ kind'[j] = kind[j]
      BY <1>0, <1>3 DEF R!TypeOK
    <3>2. JobHeld(j) => JobHeld(j)'
      BY <1>1 DEF JobHeld
    <3>3. Awaits(j) => Awaits(j)'
      BY <1>0, <1>1, <1>2 DEF Awaits, R!TypeOK
    <3>4. ScriptHeld(j) => ScriptHeld(j)'
      BY <1>1, <3>3 DEF ScriptHeld
    <3> QED BY <3>1, <3>2, <3>4 DEF RInv, Entries
  <2>2. ScriptHeld(i)'
    BY <1>0, <1>1, <1>2 DEF ScriptHeld, Awaits
  <2> QED BY <1>1, <1>3, <2>1, <2>2 DEF Entries
<1>8. R!RunningIsTracked'
  BY <1>0, <1>1, <1>3 DEF RInv, R!RunningIsTracked
<1> QED BY <1>4, <1>5, <1>6, <1>7, <1>8 DEF RInv

-----------------------------------------------------------------------------
(* Steps that only queue something.                                          *)

LEMMA TimerSettlesKeeps ==
  ASSUME RInv, NEW w \in R!Waits, NEW how \in {"ok", "error"}, R!TimerSettles(w, how)
  PROVE  RInv'
<1> USE DEF R!runnerVars, R!jobVars
<1> DEFINE t == R!Task("settle", w, how)
<1>0. R!TypeOK /\ queue \in Seq(R!Tasks) /\ t \in R!Tasks /\ t.what = "settle" /\ t.of = w
  BY DEF RInv, R!TypeOK, R!Task, R!Tasks
<1>1. /\ queue' = Append(queue, t) /\ timers' = timers \ {w} /\ draining' = FALSE
      /\ UNCHANGED <<kind, running, cancelled, over, jobs, promise, owner, delayed, flight,
                     handles, armed, code>>
  BY DEF R!TimerSettles
<1> HIDE DEF t
<1>2. /\ queue' \in Seq(R!Tasks)
      /\ \A x, o : Has(queue', x, o) <=> Has(queue, x, o) \/ ("settle" = x /\ w = o)
      /\ Once(queue) => Once(queue')
  BY <1>0, <1>1, Enqueued DEF Onwards
<1>3. \A o : Continues(queue', o) <=> Continues(queue, o)
  BY <1>2 DEF Continues
<1>4. R!TypeOK'
  BY <1>0, <1>1, <1>2 DEF R!TypeOK
<1>5. Continuations'
  BY <1>1, <1>2, <1>3 DEF RInv, Continuations
<1>6. Kinds'
  BY <1>1, <1>2 DEF RInv, Kinds
<1>7. Entries'
  BY <1>1, <1>2 DEF RInv, Entries, JobHeld, ScriptHeld, Awaits
<1>8. R!RunningIsTracked'
  BY <1>1 DEF RInv, R!RunningIsTracked
<1> QED BY <1>4, <1>5, <1>6, <1>7, <1>8 DEF RInv

LEMMA WaitKeeps == ASSUME RInv, NEW w \in R!Waits, R!Wait(w) PROVE RInv'
<1> USE DEF R!runnerVars, R!jobVars
<1> DEFINE t == R!Task("script", w, "error")
<1>0. /\ R!TypeOK /\ queue \in Seq(R!Tasks) /\ R!MayCall /\ kind[R!Top] = "runner"
      /\ t \in R!Tasks /\ t.what = "script" /\ t.of = w
      /\ w \notin flight /\ w \notin armed /\ w \notin handles /\ ~Continues(queue, w)
      /\ ~Has(queue, "script", w) /\ R!Top # Host
  BY FreshWaitIsUnknown DEF R!Wait, RInv, R!TypeOK, R!Task, R!Tasks
<1>1. /\ owner' = [owner EXCEPT ![w] = R!Top] /\ flight' = flight \union {w}
      /\ UNCHANGED <<kind, running, cancelled, over, jobs, promise, delayed, code, draining>>
  BY DEF R!Wait
<1>2. \/ /\ queue' = Append(queue, t)
         /\ UNCHANGED <<handles, armed, timers>>
      \/ /\ handles' = handles \union {w} /\ armed' = armed \union {w}
         /\ timers' = timers \union {w} /\ UNCHANGED queue
  BY DEF R!Wait
<1> HIDE DEF t
<1>3. R!Top \in R!Ids
  BY <1>0, CodePopped DEF Code
<1>4. /\ owner'[w] = R!Top
      /\ \A v \in R!Waits : v # w => owner'[v] = owner[v]
  BY <1>0, <1>1 DEF R!TypeOK
<1>5. /\ Append(queue, t) \in Seq(R!Tasks)
      /\ \A x, o : Has(Append(queue, t), x, o) <=> Has(queue, x, o) \/ ("script" = x /\ w = o)
      /\ Once(queue) /\ ~Continues(queue, w) => Once(Append(queue, t))
  BY <1>0, Enqueued
<1>6. \A o : Continues(Append(queue, t), o) <=> Continues(queue, o) \/ o = w
  BY <1>5 DEF Continues
<1>7. R!TypeOK'
  BY <1>0, <1>1, <1>2, <1>3, <1>5 DEF R!TypeOK
<1>8. Continuations'
  <2>0. flight \subseteq R!Waits /\ \A v \in flight : v # w
    BY <1>0 DEF R!TypeOK
  <2>1. CASE queue' = Append(queue, t) /\ UNCHANGED <<handles, armed, timers>>
    <3>1. Once(queue')
      BY <1>0, <1>5, <2>1 DEF RInv, Continuations
    <3>2. \A v \in R!Ids \union R!Waits : Continues(queue', v) <=> v \in flight' \ armed'
      BY <1>0, <1>1, <1>6, <2>1 DEF RInv, Continuations
    <3>3. \A v \in R!Waits : Has(queue', "script", v) => v \notin handles'
      BY <1>0, <1>5, <2>1 DEF RInv, Continuations
    <3>4. \A v \in armed' : v \in timers' \/ Has(queue', "settle", v)
      BY <1>5, <2>1 DEF RInv, Continuations
    <3>5. \A v \in flight' : owner'[v] \in R!Ids /\ kind'[owner'[v]] = "runner"
      BY <1>0, <1>1, <1>3, <1>4, <2>0 DEF RInv, Continuations
    <3>6. armed' \subseteq handles'
      BY <2>1 DEF RInv, Continuations
    <3> QED BY <3>1, <3>2, <3>3, <3>4, <3>5, <3>6 DEF Continuations
  <2>2. CASE /\ handles' = handles \union {w} /\ armed' = armed \union {w}
             /\ timers' = timers \union {w} /\ UNCHANGED queue
    <3>1. Once(queue')
      BY <2>2 DEF RInv, Continuations
    <3>2. \A v \in R!Ids \union R!Waits : Continues(queue', v) <=> v \in flight' \ armed'
      BY <1>0, <1>1, <2>2 DEF RInv, Continuations
    <3>3. \A v \in R!Waits : Has(queue', "script", v) => v \notin handles'
      BY <1>0, <2>2 DEF RInv, Continuations
    <3>4. \A v \in armed' : v \in timers' \/ Has(queue', "settle", v)
      BY <2>2 DEF RInv, Continuations
    <3>5. \A v \in flight' : owner'[v] \in R!Ids /\ kind'[owner'[v]] = "runner"
      BY <1>0, <1>1, <1>3, <1>4, <2>0 DEF RInv, Continuations
    <3>6. armed' \subseteq handles'
      BY <2>2 DEF RInv, Continuations
    <3> QED BY <3>1, <3>2, <3>3, <3>4, <3>5, <3>6 DEF Continuations
  <2> QED BY <1>2, <2>1, <2>2
<1>9. Kinds'
  BY <1>1, <1>2, <1>5 DEF RInv, Kinds
<1>10. Entries'
  <2>1. /\ \A i : Has(queue', "finish", i) <=> Has(queue, "finish", i)
        /\ \A i : Has(queue', "release", i) <=> Has(queue, "release", i)
    <3>1. CASE queue' = Append(queue, t)
      BY <1>5, <3>1
    <3>2. CASE UNCHANGED queue
      BY <3>2
    <3> QED BY <1>2, <3>1, <3>2
  <2>2. \A i : Awaits(i) => Awaits(i)'
    BY <1>0, <1>1, <1>4 DEF Awaits, R!TypeOK
  <2> QED BY <1>1, <2>1, <2>2 DEF RInv, Entries, JobHeld, ScriptHeld
<1>11. R!RunningIsTracked'
  BY <1>1 DEF RInv, R!RunningIsTracked
<1> QED BY <1>7, <1>8, <1>9, <1>10, <1>11 DEF RInv

-----------------------------------------------------------------------------
(* Scripts and jobs end.                                                     *)

LEMMA ScriptOnTop ==
  ASSUME RInv, R!MayCall, R!Top # Host
  PROVE  /\ R!TypeOK /\ R!Top \in R!Ids /\ R!Front(code) \in Seq(Code)
         /\ \A x : On(R!Front(code), x) => On(code, x)
         /\ \A x : On(code, x) => x = R!Top \/ On(R!Front(code), x)
BY CodePopped DEF RInv, Code

\* The script i ends, with the queue q left of what was queued.
LEMMA EndsKeeps ==
  ASSUME RInv, NEW i \in R!Ids, kind[i] = "runner",
         NEW q \in Seq(R!Tasks), R!Ends(i, q), q = queue,
         UNCHANGED <<kind, running, cancelled, R!jobVars, R!waitVars, draining>>,
         code' \in Seq(Code),
         \A x : On(code', x) => On(code, x),
         \A x : On(code, x) => x = i \/ On(code', x)
  PROVE  RInv'
<1> USE DEF R!jobVars, R!waitVars
<1> DEFINE t == R!Task("finish", i, "ok")
<1>0. R!TypeOK /\ t \in R!Tasks /\ t.what = "finish" /\ t.of = i
  BY DEF RInv, R!TypeOK, R!Task, R!Tasks
<1>1. /\ over' = over \union {i}
      /\ queue' = q \o (IF i \in over THEN <<>> ELSE <<t>>)
  BY DEF R!Ends
<1> HIDE DEF t
<1>2. i \in over => queue' = queue
  <2>1. q \o <<>> = q
    OBVIOUS
  <2> QED BY <1>1, <2>1
<1>3. i \notin over => queue' = Append(queue, t)
  <2>1. q \o <<t>> = Append(q, t)
    BY <1>0
  <2> QED BY <1>1, <2>1
<1>4. /\ Append(q, t) \in Seq(R!Tasks)
      /\ \A x, o : Has(Append(q, t), x, o) <=> Has(q, x, o) \/ ("finish" = x /\ i = o)
      /\ Once(q) => Once(Append(q, t))
  BY <1>0, Enqueued DEF Onwards
<1>5. /\ queue' \in Seq(R!Tasks) /\ (Once(queue) => Once(queue'))
      /\ \A x, o : x # "finish" \/ o # i => (Has(queue', x, o) <=> Has(queue, x, o))
      /\ i \in over \/ Has(queue', "finish", i)
  <2>1. CASE i \in over
    BY <1>2, <2>1
  <2>2. CASE i \notin over
    BY <1>3, <1>4, <2>2
  <2> QED BY <2>1, <2>2
<1>6. i \in running => Has(queue', "finish", i)
  BY <1>2, <1>5 DEF RInv, Entries, ScriptHeld
<1>7. \A o : Continues(queue', o) <=> Continues(queue, o)
  BY <1>5 DEF Continues
<1>8. R!TypeOK'
  BY <1>0, <1>1, <1>5 DEF R!TypeOK, Code
<1>9. Continuations'
  BY <1>5, <1>7 DEF RInv, Continuations
<1>10. Kinds'
  BY <1>1, <1>5 DEF RInv, Kinds
<1>11. Entries'
  <2>1. ASSUME NEW j \in running
        PROVE  (kind[j] = "job" /\ JobHeld(j))' \/ (kind[j] = "runner" /\ ScriptHeld(j))'
    <3>1. JobHeld(j) => JobHeld(j)'
      BY <1>5 DEF JobHeld
    <3>2. CASE j = i
      BY <1>1, <1>6, <3>2 DEF ScriptHeld
    <3>3. CASE j # i
      <4>1. ScriptHeld(j) => ScriptHeld(j)'
        BY <1>1, <1>5, <3>3 DEF ScriptHeld, Awaits
      <4> QED BY <3>1, <4>1 DEF RInv, Entries
    <3> QED BY <3>2, <3>3
  <2> QED BY <2>1 DEF Entries
<1>12. R!RunningIsTracked'
  BY <1>1 DEF RInv, R!RunningIsTracked
<1> QED BY <1>8, <1>9, <1>10, <1>11, <1>12 DEF RInv

LEMMA ScriptThrowsKeeps == ASSUME RInv, R!ScriptThrows PROVE RInv'
<1>1. /\ R!MayCall /\ R!Top # Host /\ kind[R!Top] = "runner" /\ code' = R!Front(code)
      /\ R!Ends(R!Top, queue)
      /\ UNCHANGED <<kind, running, cancelled, R!jobVars, R!waitVars, draining>>
  BY DEF R!ScriptThrows
<1>2. queue \in Seq(R!Tasks)
  BY DEF RInv, R!TypeOK
<1> QED BY <1>1, <1>2, ScriptOnTop, EndsKeeps

LEMMA ScriptReturnsKeeps == ASSUME RInv, R!ScriptReturns PROVE RInv'
<1>1. /\ R!MayCall /\ R!Top # Host /\ kind[R!Top] = "runner" /\ code' = R!Front(code)
      /\ UNCHANGED <<kind, running, cancelled, R!jobVars, R!waitVars, draining>>
  BY DEF R!ScriptReturns
<1>2. queue \in Seq(R!Tasks) /\ draining' \in BOOLEAN
  BY <1>1 DEF RInv, R!TypeOK
<1>3. CASE Awaits(R!Top)
  <2>1. UNCHANGED <<R!runnerVars, queue>>
    BY <1>1, <1>3 DEF R!ScriptReturns, Awaits, R!runnerVars
  <2>2. \A x \in R!Ids : On(code, x) => On(code', x) \/ Awaits(x)
    BY <1>1, <1>3, ScriptOnTop
  <2> QED BY <1>1, <1>2, <2>1, <2>2, ScriptOnTop, CodeMoves
<1>4. CASE ~Awaits(R!Top)
  <2>1. R!Ends(R!Top, queue)
    BY <1>4 DEF R!ScriptReturns, Awaits
  <2> QED BY <1>1, <1>2, <2>1, ScriptOnTop, EndsKeeps
<1> QED BY <1>3, <1>4

LEMMA JobEndsKeeps ==
  ASSUME RInv, NEW how \in {"resolved", "rejected"}, R!JobEnds(how) PROVE RInv'
<1> USE DEF R!runnerVars, R!waitVars
<1> DEFINE i == R!Top
           t == R!Task("release", i, "ok")
<1>1. /\ R!MayCall /\ i # Host /\ kind[i] = "job" /\ code' = R!Front(code)
      /\ jobs' = jobs \ {i}
      /\ UNCHANGED <<kind, running, cancelled, over, owner, delayed, flight, handles, armed,
                     timers, draining>>
  BY DEF R!JobEnds
<1>2. \/ promise[i] = "pending" /\ promise' = [promise EXCEPT ![i] = how]
         /\ queue' = Append(queue, t)
      \/ promise[i] # "pending" /\ UNCHANGED <<promise, queue>>
  BY DEF R!JobEnds
<1>3. /\ R!TypeOK /\ i \in R!Ids /\ code' \in Seq(Code)
      /\ \A x : On(code', x) => On(code, x)
      /\ \A x : On(code, x) => x = i \/ On(code', x)
  BY <1>1, ScriptOnTop
<1> HIDE DEF i
<1>4. queue \in Seq(R!Tasks) /\ t \in R!Tasks /\ t.what = "release" /\ t.of = i
  BY <1>3 DEF R!TypeOK, R!Task, R!Tasks
<1> HIDE DEF t
<1>5. /\ Append(queue, t) \in Seq(R!Tasks)
      /\ \A x, o : Has(Append(queue, t), x, o) <=> Has(queue, x, o) \/ ("release" = x /\ i = o)
      /\ Once(queue) => Once(Append(queue, t))
  BY <1>4, Enqueued DEF Onwards
<1>6. /\ queue' \in Seq(R!Tasks) /\ (Once(queue) => Once(queue'))
      /\ \A x, o : x # "release" => (Has(queue', x, o) <=> Has(queue, x, o))
      /\ \A o : Has(queue, "release", o) => Has(queue', "release", o)
      /\ \A o : Has(queue', "release", o) => Has(queue, "release", o) \/ o = i
      /\ promise[i] # "pending" \/ Has(queue', "release", i)
      /\ promise' \in [R!Ids -> {"pending", "resolved", "rejected"}]
      /\ promise'[i] # "pending"
      /\ \A j \in R!Ids : j # i => promise'[j] = promise[j]
  <2>1. CASE promise[i] # "pending" /\ UNCHANGED <<promise, queue>>
    BY <1>3, <1>4, <2>1 DEF R!TypeOK
  <2>2. CASE /\ promise[i] = "pending" /\ promise' = [promise EXCEPT ![i] = how]
             /\ queue' = Append(queue, t)
    BY <1>3, <1>5, <2>2 DEF R!TypeOK
  <2> QED BY <1>2, <2>1, <2>2
<1>7. \A o : Continues(queue', o) <=> Continues(queue, o)
  BY <1>6 DEF Continues
<1>8. R!TypeOK'
  BY <1>1, <1>3, <1>6 DEF R!TypeOK, Code
<1>9. Continuations'
  BY <1>1, <1>6, <1>7 DEF RInv, Continuations
<1>10. Kinds'
  BY <1>1, <1>3, <1>6 DEF RInv, Kinds
<1>11. Entries'
  <2>1. ASSUME NEW j \in running
        PROVE  (kind[j] = "job" /\ JobHeld(j))' \/ (kind[j] = "runner" /\ ScriptHeld(j))'
    <3>1. CASE j = i
      BY <1>1, <1>6, <3>1 DEF RInv, Entries, JobHeld
    <3>2. CASE j # i
      <4>0. j \in R!Ids
        BY <1>3 DEF R!TypeOK
      <4>1. JobHeld(j) => JobHeld(j)'
        BY <1>1, <1>6, <3>2, <4>0 DEF JobHeld
      <4>2. ScriptHeld(j) => ScriptHeld(j)'
        BY <1>1, <1>3, <1>6, <3>2 DEF ScriptHeld, Awaits
      <4> QED BY <1>1, <4>1, <4>2 DEF RInv, Entries
    <3> QED BY <3>1, <3>2
  <2> QED BY <1>1, <2>1 DEF Entries
<1>12. R!RunningIsTracked'
  BY <1>1, <1>6 DEF RInv, R!RunningIsTracked
<1> QED BY <1>8, <1>9, <1>10, <1>11, <1>12 DEF RInv

-----------------------------------------------------------------------------
(* Cancellation.                                                             *)

LEMMA CancelEntriesKeeps ==
  ASSUME RInv, NEW I \in SUBSET R!Ids, R!CancelEntries(I),
         running \ I \subseteq running', running' \subseteq running,
         UNCHANGED <<kind, over, owner, delayed, flight, timers, code, draining>>
  PROVE  RInv'
<1>0. R!TypeOK /\ Continuations /\ queue \in Seq(R!Tasks)
  BY DEF RInv, R!TypeOK
<1>1. PICK s \in R!InOrder(R!Unwinding(I)) : queue' = queue \o s
  BY DEF R!CancelEntries
<1>2. /\ cancelled' = cancelled \union {i \in I : kind[i] = "runner"}
      /\ armed' = armed \ Rejected(I)
      /\ handles' = {w \in handles : owner[w] \notin I}
      /\ jobs' = jobs \ I
  BY DEF R!CancelEntries, Rejected
<1>3. /\ promise' \in [R!Ids -> {"pending", "resolved", "rejected"}]
      /\ \A i \in R!Ids : promise'[i] = IF i \in Resolved(I) THEN "resolved" ELSE promise[i]
  <2>1. promise' = [i \in R!Ids |->
          IF i \in I /\ kind[i] = "job" /\ promise[i] = "pending" THEN "resolved" ELSE promise[i]]
    BY DEF R!CancelEntries
  <2> QED BY <1>0, <2>1 DEF R!TypeOK, Resolved
<1>4. /\ s \in Seq(R!Tasks) /\ Once(s)
      /\ \A x, o : Has(s, x, o) <=> \/ x = "resume" /\ o \in Rejected(I)
                                    \/ x = "release" /\ o \in Resolved(I)
  BY <1>0, Unwound, StopsAssumption
<1>5. /\ Rejected(I) \subseteq armed /\ Rejected(I) \subseteq R!Waits
      /\ \A w \in armed \ Rejected(I) : w \in handles => owner[w] \notin I
  BY <1>0 DEF Rejected, R!ArmedOf, R!TypeOK
<1>6. /\ queue \o s \in Seq(R!Tasks)
      /\ \A x, o : Has(queue \o s, x, o) <=> Has(queue, x, o) \/ Has(s, x, o)
      /\ Once(queue) /\ Once(s) /\ (\A o : ~(Continues(queue, o) /\ Continues(s, o)))
           => Once(queue \o s)
  BY <1>0, <1>4, Joined
<1>7. /\ queue' \in Seq(R!Tasks)
      /\ \A o : Continues(queue', o) <=> Continues(queue, o) \/ o \in Rejected(I)
      /\ \A o : Has(queue', "release", o) <=> Has(queue, "release", o) \/ o \in Resolved(I)
      /\ \A o : Has(queue', "script", o) <=> Has(queue, "script", o)
      /\ \A o : Has(queue', "finish", o) <=> Has(queue, "finish", o)
      /\ \A o : Has(queue', "settle", o) <=> Has(queue, "settle", o)
  BY <1>1, <1>4, <1>6 DEF Continues
<1>8. Once(queue')
  <2>1. ASSUME NEW o, Continues(queue, o), Continues(s, o)
        PROVE  FALSE
    <3>1. o \in Rejected(I)
      BY <1>4, <2>1 DEF Continues
    <3> QED BY <1>0, <1>5, <2>1, <3>1 DEF Continuations
  <2> QED BY <1>0, <1>1, <1>4, <1>6, <2>1 DEF Continuations
<1>9. R!TypeOK'
  BY <1>0, <1>2, <1>3, <1>7 DEF R!TypeOK
<1>10. Continuations'
  <2>1. \A w \in R!Ids \union R!Waits : Continues(queue', w) <=> w \in flight' \ armed'
    BY <1>0, <1>2, <1>5, <1>7 DEF Continuations, R!TypeOK
  <2>2. armed' \subseteq handles'
    BY <1>0, <1>2, <1>5 DEF Continuations
  <2>3. /\ \A w \in R!Waits : Has(queue', "script", w) => w \notin handles'
        /\ \A w \in armed' : w \in timers' \/ Has(queue', "settle", w)
        /\ \A w \in flight' : owner'[w] \in R!Ids /\ kind'[owner'[w]] = "runner"
    BY <1>0, <1>2, <1>7 DEF Continuations
  <2> QED BY <1>8, <2>1, <2>2, <2>3 DEF Continuations
<1>11. Kinds'
  <2>1. \A i \in Resolved(I) : i \in R!Ids /\ kind[i] = "job"
    BY DEF Resolved
  <2> QED BY <1>2, <1>3, <1>7, <2>1 DEF RInv, Kinds
<1>12. Entries'
  <2>1. ASSUME NEW j \in running
        PROVE  (kind[j] = "job" /\ JobHeld(j))' \/ (kind[j] = "runner" /\ ScriptHeld(j))'
    <3>0. j \in R!Ids
      BY <1>0 DEF R!TypeOK
    <3>1. kind[j] = "job" /\ JobHeld(j) => JobHeld(j)'
      BY <1>2, <1>3, <1>7, <3>0 DEF JobHeld, Resolved
    <3>2. ScriptHeld(j) => ScriptHeld(j)'
      BY <1>7 DEF ScriptHeld, Awaits
    <3> QED BY <3>1, <3>2 DEF RInv, Entries
  <2> QED BY <2>1 DEF Entries
<1>13. R!RunningIsTracked'
  BY <1>2, <1>3 DEF RInv, R!RunningIsTracked, Resolved
<1> QED BY <1>9, <1>10, <1>11, <1>12, <1>13 DEF RInv

LEMMA CancellingKeeps ==
  ASSUME RInv, R!CancelSelf \/ R!Dispose \/ \E i \in R!Ids : R!Cancel(i)
  PROVE  RInv'
<1>0. running \subseteq R!Ids
  BY DEF RInv, R!TypeOK
<1>1. CASE R!CancelSelf
  <2>1. R!Top \in R!Ids
    BY <1>1, ScriptOnTop DEF R!CancelSelf
  <2>2. /\ R!CancelEntries({R!Top}) /\ running' = running
        /\ UNCHANGED <<kind, over, owner, delayed, flight, timers, code, draining>>
    BY <1>1 DEF R!CancelSelf
  <2> QED BY <2>1, <2>2, CancelEntriesKeeps
<1>2. CASE R!Dispose
  <2>1. /\ R!CancelEntries(running) /\ running' = {}
        /\ UNCHANGED <<kind, over, owner, delayed, flight, timers, code, draining>>
    BY <1>2 DEF R!Dispose
  <2> QED BY <1>0, <2>1, CancelEntriesKeeps
<1>3. ASSUME NEW i \in R!Ids, R!Cancel(i)
      PROVE  RInv'
  <2>1. /\ R!CancelEntries({i}) /\ running' = running \ {i}
        /\ UNCHANGED <<kind, over, owner, delayed, flight, timers, code, draining>>
    BY <1>3 DEF R!Cancel
  <2> QED BY <2>1, CancelEntriesKeeps
<1> QED BY <1>1, <1>2, <1>3

-----------------------------------------------------------------------------
(* Continuations.                                                            *)

LEMMA QueueTaken ==
  ASSUME RInv, NEW what, R!Next1(what)
  PROVE  /\ R!TypeOK /\ code = <<>> /\ draining' = TRUE
         /\ Head(queue) \in R!Tasks /\ Head(queue).what = what
         /\ Head(queue).of \in R!Ids \union R!Waits
         /\ Tail(queue) \in Seq(R!Tasks) /\ Once(Tail(queue))
         /\ Has(queue, what, Head(queue).of)
         /\ \A x, o : x # what \/ o # Head(queue).of =>
                        (Has(queue, x, o) <=> Has(Tail(queue), x, o))
         /\ \A x, o : Has(Tail(queue), x, o) => Has(queue, x, o)
         /\ what \in Onwards => ~Continues(Tail(queue), Head(queue).of)
<1>1. /\ R!TypeOK /\ code = <<>> /\ draining' = TRUE /\ queue \in Seq(R!Tasks) /\ queue # <<>>
      /\ Head(queue).what = what /\ Once(queue)
  BY DEF RInv, R!TypeOK, R!Next1, Continuations
<1>2. /\ Head(queue) \in R!Tasks /\ Tail(queue) \in Seq(R!Tasks)
      /\ \A x, o : Has(queue, x, o) <=>
                     Has(Tail(queue), x, o) \/ (Head(queue).what = x /\ Head(queue).of = o)
      /\ Once(queue) => /\ Once(Tail(queue))
                        /\ Head(queue).what \in Onwards => ~Continues(Tail(queue), Head(queue).of)
  BY <1>1, Popped
<1>3. Head(queue).of \in R!Ids \union R!Waits
  BY <1>2 DEF R!Tasks
<1> QED BY <1>1, <1>2, <1>3

LEMMA SettleKeeps == ASSUME RInv, R!Settle PROVE RInv'
<1> USE DEF R!runnerVars, R!jobVars
<1> DEFINE w == Head(queue).of
           q == Tail(queue)
           t == R!Task("resume", w, Head(queue).how)
<1>1. /\ R!TypeOK /\ code = <<>> /\ draining' = TRUE
      /\ w \in R!Ids \union R!Waits /\ q \in Seq(R!Tasks) /\ Once(q)
      /\ \A x, o : x # "settle" \/ o # w => (Has(queue, x, o) <=> Has(q, x, o))
      /\ Head(queue) \in R!Tasks
  BY QueueTaken DEF R!Settle
<1>2. /\ armed' = armed \ {w}
      /\ queue' = IF w \in armed THEN Append(q, t) ELSE q
      /\ UNCHANGED <<kind, running, cancelled, over, jobs, promise, owner, delayed, flight,
                     handles, timers, code>>
  BY DEF R!Settle
<1>3. t \in R!Tasks /\ t.what = "resume" /\ t.of = w
  BY <1>1 DEF R!Task, R!Tasks
<1> HIDE DEF w, q, t
<1>4. \A o : Continues(queue, o) <=> Continues(q, o)
  BY <1>1 DEF Continues
<1>5. /\ Append(q, t) \in Seq(R!Tasks)
      /\ \A x, o : Has(Append(q, t), x, o) <=> Has(q, x, o) \/ ("resume" = x /\ w = o)
      /\ Once(q) /\ ~Continues(q, w) => Once(Append(q, t))
  BY <1>1, <1>3, Enqueued
<1>6. w \in armed => ~Continues(q, w)
  BY <1>1, <1>4 DEF RInv, Continuations
<1>7. /\ queue' \in Seq(R!Tasks) /\ Once(queue')
      /\ \A o : Continues(queue', o) <=> Continues(queue, o) \/ (w \in armed /\ o = w)
      /\ \A x, o : x \notin {"resume", "settle"} => (Has(queue', x, o) <=> Has(queue, x, o))
      /\ \A o : o # w /\ Has(queue, "settle", o) => Has(queue', "settle", o)
  <2>1. CASE w \in armed
    BY <1>1, <1>2, <1>4, <1>5, <1>6, <2>1 DEF Continues
  <2>2. CASE w \notin armed
    BY <1>1, <1>2, <1>4, <2>2
  <2> QED BY <2>1, <2>2
<1>8. R!TypeOK'
  BY <1>1, <1>2, <1>7 DEF R!TypeOK
<1>9. Continuations'
  <2>1. \A v \in R!Ids \union R!Waits : Continues(queue', v) <=> v \in flight' \ armed'
    BY <1>1, <1>2, <1>7 DEF RInv, Continuations, R!TypeOK
  <2>2. /\ \A v \in R!Waits : Has(queue', "script", v) => v \notin handles'
        /\ armed' \subseteq handles'
        /\ \A v \in armed' : v \in timers' \/ Has(queue', "settle", v)
        /\ \A v \in flight' : owner'[v] \in R!Ids /\ kind'[owner'[v]] = "runner"
    BY <1>2, <1>7 DEF RInv, Continuations
  <2> QED BY <1>7, <2>1, <2>2 DEF Continuations
<1>10. Kinds'
  BY <1>2, <1>7 DEF RInv, Kinds
<1>11. Entries'
  BY <1>2, <1>7 DEF RInv, Entries, JobHeld, ScriptHeld, Awaits
<1>12. R!RunningIsTracked'
  BY <1>2 DEF RInv, R!RunningIsTracked
<1> QED BY <1>8, <1>9, <1>10, <1>11, <1>12 DEF RInv

LEMMA ResumeKeeps == ASSUME RInv, R!Resume PROVE RInv'
<1> USE DEF R!runnerVars, R!jobVars
<1> DEFINE w == Head(queue).of
           q == Tail(queue)
<1>1. /\ R!TypeOK /\ code = <<>> /\ draining' = TRUE
      /\ w \in R!Ids \union R!Waits /\ q \in Seq(R!Tasks) /\ Once(q)
      /\ Has(queue, "resume", w)
      /\ \A x, o : x # "resume" \/ o # w => (Has(queue, x, o) <=> Has(q, x, o))
      /\ ~Continues(q, w)
      /\ \A x, o : Has(q, x, o) => Has(queue, x, o)
  BY QueueTaken DEF R!Resume, Onwards
<1>2. PICK how \in {"ok", "error"} : queue' = Append(q, R!Task("script", w, how))
  BY DEF R!Resume
<1> DEFINE t == R!Task("script", w, how)
<1>3. /\ handles' = handles \ {w}
      /\ UNCHANGED <<kind, running, cancelled, over, jobs, promise, owner, delayed, flight,
                     armed, timers, code>>
  BY DEF R!Resume
<1>4. t \in R!Tasks /\ t.what = "script" /\ t.of = w
  BY <1>1 DEF R!Task, R!Tasks
<1> HIDE DEF w, q
<1>5. /\ queue' \in Seq(R!Tasks)
      /\ \A x, o : Has(queue', x, o) <=> Has(q, x, o) \/ ("script" = x /\ w = o)
      /\ Once(q) /\ ~Continues(q, w) => Once(queue')
  <2> HIDE DEF t
  <2> QED BY <1>1, <1>4, Enqueued, queue' = Append(q, t), <1>2 DEF t
<1> HIDE DEF t
<1>6. w \in flight \ armed
  BY <1>1 DEF RInv, Continuations, Continues
<1>7. /\ Once(queue')
      /\ \A o : Continues(queue', o) <=> Continues(queue, o)
      /\ \A x, o : x \notin Onwards => (Has(queue', x, o) <=> Has(queue, x, o))
      /\ \A o : Has(queue', "script", o) => Has(queue, "script", o) \/ o = w
  BY <1>1, <1>5 DEF Continues, Onwards
<1>8. R!TypeOK'
  BY <1>1, <1>3, <1>5 DEF R!TypeOK
<1>9. Continuations'
  BY <1>3, <1>6, <1>7 DEF RInv, Continuations, Onwards
<1>10. Kinds'
  BY <1>3, <1>7 DEF RInv, Kinds, Onwards
<1>11. Entries'
  BY <1>3, <1>7 DEF RInv, Entries, JobHeld, ScriptHeld, Awaits, Onwards
<1>12. R!RunningIsTracked'
  BY <1>3 DEF RInv, R!RunningIsTracked
<1> QED BY <1>8, <1>9, <1>10, <1>11, <1>12 DEF RInv

\* A runner or job leaves the map when nothing of it is left to run.
LEMMA LeavesKeeps ==
  ASSUME RInv, NEW what \in {"release", "finish"}, R!Next1(what),
         running' = running \ {Head(queue).of}, queue' = Tail(queue),
         UNCHANGED <<kind, cancelled, over, R!jobVars, R!waitVars, code>>
  PROVE  RInv'
<1> USE DEF R!jobVars, R!waitVars
<1> DEFINE i == Head(queue).of
<1>1. /\ R!TypeOK /\ draining' = TRUE
      /\ i \in R!Ids \union R!Waits /\ queue' \in Seq(R!Tasks) /\ Once(queue')
      /\ Has(queue, what, i)
      /\ \A x, o : x # what \/ o # i => (Has(queue, x, o) <=> Has(queue', x, o))
      /\ \A x, o : Has(queue', x, o) => Has(queue, x, o)
  BY QueueTaken
<1>2. running' = running \ {i}
  OBVIOUS
<1> HIDE DEF i
<1>3. \A o : Continues(queue', o) <=> Continues(queue, o)
  BY <1>1 DEF Continues
<1>4. \/ i \in over
      \/ i \in R!Ids /\ kind[i] = "job" /\ promise[i] # "pending"
  BY <1>1 DEF RInv, Kinds
<1>5. R!TypeOK'
  BY <1>1, <1>2 DEF R!TypeOK
<1>6. Continuations'
  BY <1>1, <1>3 DEF RInv, Continuations
<1>7. Kinds'
  BY <1>1 DEF RInv, Kinds
<1>8. Entries'
  BY <1>1, <1>2 DEF RInv, Entries, JobHeld, ScriptHeld, Awaits
<1>9. R!RunningIsTracked'
  BY <1>2, <1>4 DEF RInv, R!RunningIsTracked, Kinds
<1> QED BY <1>5, <1>6, <1>7, <1>8, <1>9 DEF RInv

\* A script comes back from the wait w.
LEMMA ScriptTaken ==
  ASSUME RInv, R!Next1("script")
  PROVE  /\ Head(queue).of \in flight \ armed
         /\ owner[Head(queue).of] \in R!Ids
         /\ kind[owner[Head(queue).of]] = "runner"
         /\ Head(queue).of \notin handles
BY QueueTaken DEF RInv, Continuations, Continues, R!TypeOK

\* What the rest of the invariant needs of the step, wherever the script goes.
LEMMA ScriptKeeps == ASSUME RInv, R!Script PROVE RInv'
<1> USE DEF R!jobVars
<1> DEFINE w == Head(queue).of
           q == Tail(queue)
           i == owner[w]
           t == R!Task("finish", i, "ok")
<1>1. /\ R!TypeOK /\ code = <<>> /\ draining' = TRUE
      /\ w \in R!Ids \union R!Waits /\ q \in Seq(R!Tasks) /\ Once(q)
      /\ \A x, o : x # "script" \/ o # w => (Has(queue, x, o) <=> Has(q, x, o))
      /\ ~Continues(q, w)
      /\ \A x, o : Has(q, x, o) => Has(queue, x, o)
  BY QueueTaken DEF R!Script, Onwards
<1>2. w \in flight \ armed /\ i \in R!Ids /\ kind[i] = "runner" /\ w \notin handles
  BY ScriptTaken DEF R!Script
<1>3. /\ flight' = flight \ {w}
      /\ delayed' = delayed \ {i}
      /\ UNCHANGED <<kind, running, cancelled, jobs, promise, owner, handles, armed, timers>>
  BY DEF R!Script
<1>4. \/ code' = <<i>> /\ queue' = q /\ UNCHANGED over
      \/ R!Ends(i, q) /\ UNCHANGED code
  BY DEF R!Script
<1>5. t \in R!Tasks /\ t.what = "finish" /\ t.of = i
  BY <1>2 DEF R!Task, R!Tasks
<1>6. R!Ends(i, q) => /\ over' = over \union {i}
                      /\ queue' = q \o (IF i \in over THEN <<>> ELSE <<t>>)
  BY DEF R!Ends
<1> HIDE DEF w, q, i, t
<1>7. /\ Append(q, t) \in Seq(R!Tasks)
      /\ \A x, o : Has(Append(q, t), x, o) <=> Has(q, x, o) \/ ("finish" = x /\ i = o)
      /\ Once(q) => Once(Append(q, t))
  BY <1>1, <1>5, Enqueued DEF Onwards
<1>8. q \o <<>> = q /\ q \o <<t>> = Append(q, t)
  BY <1>1, <1>5
<1>9. /\ queue' \in Seq(R!Tasks) /\ Once(queue')
      /\ \A x, o : x \notin {"script", "finish"} => (Has(queue', x, o) <=> Has(queue, x, o))
      /\ \A o : Has(queue', "script", o) <=> Has(q, "script", o)
      /\ \A o : Has(queue, "finish", o) => Has(queue', "finish", o)
      /\ \A o : Has(queue', "finish", o) => Has(queue, "finish", o) \/ o \in over'
      /\ over \subseteq over' /\ over' \subseteq over \union {i}
      /\ i \in over' /\ i \in running => Has(queue', "finish", i)
      /\ i \notin over' => code' = <<i>>
      /\ code' = <<>> \/ code' = <<i>>
  <2>1. CASE code' = <<i>> /\ queue' = q /\ UNCHANGED over
    <3>1. i \in over /\ i \in running => Has(queue, "finish", i)
      BY <1>2 DEF RInv, Entries, ScriptHeld
    <3> QED BY <1>1, <2>1, <3>1
  <2>2. CASE R!Ends(i, q) /\ UNCHANGED code /\ i \in over
    <3>1. i \in over /\ i \in running => Has(queue, "finish", i)
      BY <1>2 DEF RInv, Entries, ScriptHeld
    <3>2. queue' = q /\ over' = over
      BY <1>6, <1>8, <2>2
    <3> QED BY <1>1, <2>2, <3>1, <3>2
  <2>3. CASE R!Ends(i, q) /\ UNCHANGED code /\ i \notin over
    <3>1. queue' = Append(q, t) /\ over' = over \union {i}
      BY <1>6, <1>8, <2>3
    <3> QED BY <1>1, <1>7, <2>3, <3>1
  <2> QED BY <1>4, <2>1, <2>2, <2>3
<1>10. /\ i \in Code /\ code' \in Seq(Code)
       /\ \A x : On(code', x) => x = i
       /\ i \notin over' => On(code', i)
       /\ \A x : ~On(code, x)
  <2>1. i \in Code /\ <<>> \in Seq(Code)
    BY <1>2 DEF Code
  <2>2. /\ <<i>> \in Seq(Code) /\ \A x : On(<<i>>, x) <=> x = i
        /\ \A x : ~On(<<>>, x)
    BY <2>1, CodeAlone
  <2>3. CASE code' = <<i>>
    BY <1>1, <2>1, <2>2, <2>3
  <2>4. CASE code' = <<>>
    BY <1>1, <1>9, <2>1, <2>2, <2>4
  <2> QED BY <1>9, <2>3, <2>4
<1>11. \A o : Continues(queue', o) <=> Continues(q, o)
  BY <1>1, <1>9 DEF Continues
<1>12. R!TypeOK'
  BY <1>1, <1>2, <1>3, <1>9, <1>10 DEF R!TypeOK, Code
<1>13. Continuations'
  <2>1. \A o : o # w => (Continues(queue', o) <=> Continues(queue, o))
    BY <1>1, <1>11 DEF Continues
  <2>2. ~Continues(queue', w)
    BY <1>1, <1>11
  <2>3. \A o : Has(queue', "script", o) => Has(queue, "script", o)
    BY <1>1, <1>9
  <2> QED BY <1>2, <1>3, <1>9, <2>1, <2>2, <2>3 DEF RInv, Continuations
<1>14. Kinds'
  BY <1>2, <1>3, <1>9, <1>10 DEF RInv, Kinds
<1>15. Entries'
  <2>1. ASSUME NEW j \in running
        PROVE  (kind[j] = "job" /\ JobHeld(j))' \/ (kind[j] = "runner" /\ ScriptHeld(j))'
    <3>1. JobHeld(j) => JobHeld(j)'
      BY <1>3, <1>9 DEF JobHeld
    <3>2. CASE j = i
      BY <1>2, <1>3, <1>9, <1>10, <3>2 DEF ScriptHeld
    <3>3. CASE j # i
      <4>1. Awaits(j) => Awaits(j)'
        BY <1>3, <3>3 DEF Awaits, i
      <4>2. ScriptHeld(j) => ScriptHeld(j)'
        BY <1>9, <1>10, <3>3, <4>1 DEF ScriptHeld
      <4> QED BY <1>3, <3>1, <4>2 DEF RInv, Entries
    <3> QED BY <3>2, <3>3
  <2> QED BY <1>3, <2>1 DEF Entries
<1>16. R!RunningIsTracked'
  BY <1>3, <1>9 DEF RInv, R!RunningIsTracked
<1> QED BY <1>12, <1>13, <1>14, <1>15, <1>16 DEF RInv

-----------------------------------------------------------------------------
(* Every step.                                                               *)

LEMMA InitHolds == ASSUME R!Init PROVE RInv
<1>1. queue = <<>> /\ code = <<>> /\ Len(<<>>) = 0
  BY DEF R!Init
<1>2. \A x, o : ~Has(queue, x, o) /\ ~On(code, o)
  BY <1>1 DEF Has, On
<1>3. Once(queue)
  BY <1>1 DEF Once
<1>4. R!TypeOK
  <2>1. queue \in Seq(R!Tasks) /\ code \in Seq(R!Ids \union {Host})
    BY <1>1
  <2> QED BY <2>1 DEF R!Init, R!TypeOK
<1>5. Continuations /\ Kinds /\ Entries
  BY <1>2, <1>3 DEF R!Init, Continuations, Continues, Kinds, Entries
<1>6. R!RunningIsTracked
  BY DEF R!Init, R!RunningIsTracked
<1> QED BY <1>4, <1>5, <1>6 DEF RInv

LEMMA NextKeeps == ASSUME RInv, R!Next PROVE RInv'
<1>1. CASE R!HostCalls
  BY <1>1, HostCallsKeeps
<1>2. CASE R!TurnEnds
  BY <1>2, HostReturnsKeeps, ScriptReturnsKeeps, ScriptThrowsKeeps, JobYieldsKeeps, JobEndsKeeps
     DEF R!TurnEnds
<1>3. CASE R!Microtask
  <2>1. CASE R!Release \/ R!Finish
    <3>1. /\ R!Next1("release") \/ R!Next1("finish")
          /\ running' = running \ {Head(queue).of} /\ queue' = Tail(queue)
          /\ UNCHANGED <<kind, cancelled, over, R!jobVars, R!waitVars, code>>
      BY <2>1 DEF R!Release, R!Finish
    <3> QED BY <3>1, LeavesKeeps
  <2> QED BY <1>3, <2>1, SettleKeeps, ResumeKeeps, ScriptKeeps DEF R!Microtask
<1>4. CASE R!CancelSelf \/ R!Dispose
  BY <1>4, CancellingKeeps
<1>5. CASE \E w \in R!Waits : R!Wait(w) \/ \E how \in {"ok", "error"} : R!TimerSettles(w, how)
  BY <1>5, WaitKeeps, TimerSettlesKeeps
<1>6. CASE \E i \in R!Ids : R!Run(i) \/ R!RunJob(i) \/ R!JobStep(i) \/ R!Cancel(i)
  BY <1>6, RunKeeps, RunJobKeeps, JobStepKeeps, CancellingKeeps
<1>7. CASE \E i \in R!Ids, w \in R!Waits : R!RunDelay(i, w)
  BY <1>7, RunDelayKeeps
<1> QED BY <1>1, <1>2, <1>3, <1>4, <1>5, <1>6, <1>7 DEF R!Next

LEMMA StutterKeeps == ASSUME RInv, UNCHANGED runnerVars PROVE RInv'
BY DEF RInv, runnerVars, R!TypeOK, Continuations, Kinds, Entries, JobHeld, ScriptHeld, Awaits,
       R!RunningIsTracked

RunnersHold == subject = "runners" => RInv

LEMMA RunnersHoldAlways ==
  AnyInit /\ [][AnyNext]_allVars => []RunnersHold
<1>1. AnyInit => RunnersHold
  BY InitHolds DEF AnyInit, RunnersHold
<1>2. RunnersHold /\ [AnyNext]_allVars => RunnersHold'
  <2> SUFFICES ASSUME RunnersHold, [AnyNext]_allVars, subject' = "runners"
               PROVE  RInv'
    BY DEF RunnersHold
  <2>1. CASE subject = "engine" /\ UNCHANGED ButEngine
    BY <2>1 DEF ButEngine
  <2>2. CASE subject = "runners" /\ R!Next
    BY <2>2, NextKeeps DEF RunnersHold
  <2>3. CASE UNCHANGED allVars
    BY <2>3, StutterKeeps DEF allVars, RunnersHold
  <2> QED BY <2>1, <2>2, <2>3 DEF AnyNext
<1> QED BY <1>1, <1>2, PTL

-----------------------------------------------------------------------------
(* What follows.                                                             *)

LEMMA OneContinuationHolds ==
  ASSUME RInv
  PROVE  R!OneContinuation
<1> SUFFICES ASSUME NEW w \in R!Waits
             PROVE  LET N == {n \in 1..Len(queue) :
                                queue[n].what \in {"resume", "script"} /\ queue[n].of = w}
                    IN IF w \in flight \ armed THEN \E n \in N : N = {n} ELSE N = {}
  BY DEF R!OneContinuation
<1> DEFINE N == {n \in 1..Len(queue) :
                   queue[n].what \in {"resume", "script"} /\ queue[n].of = w}
<1>1. w \in flight \ armed <=> Continues(queue, w)
  BY DEF RInv, Continuations
<1>2. CASE Continues(queue, w)
  <2>1. PICK n \in N : TRUE
    BY <1>2 DEF Continues, Has
  <2>2. \A m \in N : m = n
    BY <2>1 DEF RInv, Continuations, Once, Onwards
  <2>3. N = {n}
    BY <2>1, <2>2
  <2> QED BY <1>1, <1>2, <2>3
<1>3. CASE ~Continues(queue, w)
  <2>1. N = {}
    BY <1>3 DEF Continues, Has
  <2> QED BY <1>1, <1>3, <2>1
<1> QED BY <1>2, <1>3

LEMMA TrackedIsRunningHolds ==
  ASSUME RInv
  PROVE  R!TrackedIsRunning
<1> SUFFICES ASSUME code = <<>>, queue = <<>>, NEW i \in running
             PROVE  i \in jobs \/ \E w \in timers \intersect flight : owner[w] = i
  BY DEF R!TrackedIsRunning
<1>1. \A x, o : ~Has(queue, x, o) /\ ~On(code, o)
  <2>1. Len(queue) = 0 /\ Len(code) = 0
    OBVIOUS
  <2> QED BY <2>1 DEF Has, On
<1>2. \A w \in flight : w \in timers
  BY <1>1 DEF RInv, Continuations, Continues, R!TypeOK
<1>3. i \in jobs \/ Awaits(i)
  BY <1>1 DEF RInv, Entries, JobHeld, ScriptHeld
<1> QED BY <1>2, <1>3 DEF Awaits

\* The manager's map is what runs, and a script comes back once from every wait.
THEOREM RunnersAreTracked == Stops => []TracksWhatRuns
<1>1. RunnersHold => TracksWhatRuns
  BY OneContinuationHolds, TrackedIsRunningHolds
     DEF RunnersHold, RInv, TracksWhatRuns, R!TracksWhatRuns
<1> QED BY <1>1, RunnersHoldAlways, PTL DEF Stops

\* What a script that has not ended waits for will come, and at once when it was cancelled.
Pending ==
  /\ \A w \in armed : owner[w] \notin cancelled
  /\ \A i \in R!Ids : kind[i] = "runner" /\ i \notin over => On(code, i) \/ Awaits(i)

LEMMA WaitsPendOn ==
  ASSUME Pending, UNCHANGED <<kind, owner>>, flight \subseteq flight', over \subseteq over',
         armed' \subseteq armed, cancelled' = cancelled,
         \A i \in R!Ids : On(code, i) /\ kind[i] = "runner" =>
                           On(code', i) \/ Awaits(i) \/ i \in over'
  PROVE  Pending'
<1>1. \A i : Awaits(i) => Awaits(i)'
  BY DEF Awaits
<1>2. \A w \in armed' : owner'[w] \notin cancelled'
  BY DEF Pending
<1>3. ASSUME NEW i \in R!Ids, kind'[i] = "runner", i \notin over'
      PROVE  On(code', i) \/ Awaits(i)'
  <2>1. On(code, i) \/ Awaits(i)
    BY <1>3 DEF Pending
  <2>2. CASE On(code, i)
    BY <1>1, <1>3, <2>2
  <2>3. CASE Awaits(i)
    BY <1>1, <2>3
  <2> QED BY <2>1, <2>2, <2>3
<1> QED BY <1>2, <1>3 DEF Pending

LEMMA PendingStays ==
  ASSUME Pending, UNCHANGED <<kind, owner, flight, cancelled, over>>, armed' \subseteq armed,
         \A x : On(code, x) => On(code', x)
  PROVE  Pending'
<1>1. flight \subseteq flight' /\ over \subseteq over'
  OBVIOUS
<1> QED BY <1>1, WaitsPendOn

LEMMA StartsPending ==
  ASSUME RInv, Pending, NEW i \in R!Ids,
         R!Run(i) \/ R!RunJob(i) \/ \E w \in R!Waits : R!RunDelay(i, w)
  PROVE  Pending'
<1>0. /\ R!TypeOK /\ R!Fresh(i) /\ kind[i] = "none" /\ i \notin cancelled /\ i \in Code
  BY FreshIsUnknown DEF RInv, R!Run, R!RunJob, R!RunDelay, Code
<1>1. CASE R!Run(i)
  <2>1. /\ kind' = [kind EXCEPT ![i] = "runner"] /\ code' = Append(code, i)
        /\ UNCHANGED <<cancelled, over, armed, flight, owner>>
    BY <1>1 DEF R!Run, R!waitVars
  <2>2. \A x : On(code', x) <=> On(code, x) \/ x = i
    BY <1>0, <2>1, CodePushed
  <2> QED BY <1>0, <2>1, <2>2 DEF Pending, Awaits, R!TypeOK
<1>2. CASE R!RunJob(i)
  <2>1. /\ kind' = [kind EXCEPT ![i] = "job"]
        /\ UNCHANGED <<cancelled, over, armed, flight, owner, code>>
    BY <1>2 DEF R!RunJob, R!waitVars
  <2> QED BY <1>0, <2>1 DEF Pending, Awaits, R!TypeOK
<1>3. ASSUME NEW w \in R!Waits, R!RunDelay(i, w)
      PROVE  Pending'
  <2>1. /\ kind' = [kind EXCEPT ![i] = "runner"] /\ owner' = [owner EXCEPT ![w] = i]
        /\ flight' = flight \union {w} /\ armed' = armed \union {w}
        /\ UNCHANGED <<cancelled, over, code>>
    BY <1>3 DEF R!RunDelay
  <2>2. w \notin flight /\ w \notin armed
    BY <1>3, FreshWaitIsUnknown DEF R!RunDelay
  <2>3. owner'[w] = i /\ \A v \in R!Waits : v # w => owner'[v] = owner[v]
    BY <1>0, <2>1 DEF R!TypeOK
  <2>4. \A v \in armed' : owner'[v] \notin cancelled'
    BY <1>0, <2>1, <2>2, <2>3 DEF Pending, R!TypeOK
  <2>5. \A j \in R!Ids : Awaits(j) \/ j = i => Awaits(j)'
    BY <1>0, <2>1, <2>2, <2>3 DEF Awaits, R!TypeOK
  <2>6. \A j \in R!Ids : j # i => kind'[j] = kind[j]
    BY <1>0, <2>1 DEF R!TypeOK
  <2> QED BY <2>1, <2>4, <2>5, <2>6 DEF Pending
<1> QED BY <1>1, <1>2, <1>3

LEMMA WaitPending ==
  ASSUME RInv, Pending, NEW w \in R!Waits, R!Wait(w)
  PROVE  Pending'
<1>1. /\ owner' = [owner EXCEPT ![w] = R!Top] /\ flight' = flight \union {w}
      /\ armed' = armed \/ (armed' = armed \union {w} /\ R!Top \notin cancelled)
      /\ UNCHANGED <<kind, cancelled, over, code>>
  BY DEF R!Wait, R!runnerVars
<1>2. R!TypeOK /\ w \notin flight /\ w \notin armed
  BY FreshWaitIsUnknown DEF RInv, R!Wait
<1>3. owner'[w] = R!Top /\ \A v \in R!Waits : v # w => owner'[v] = owner[v]
  BY <1>1, <1>2 DEF R!TypeOK
<1>4. \A v \in armed' : owner'[v] \notin cancelled'
  BY <1>1, <1>2, <1>3 DEF Pending, R!TypeOK
<1>5. \A j \in R!Ids : Awaits(j) => Awaits(j)'
  BY <1>1, <1>2, <1>3 DEF Awaits, R!TypeOK
<1> QED BY <1>1, <1>4, <1>5 DEF Pending

LEMMA CancellingPending ==
  ASSUME RInv, Pending, R!CancelSelf \/ R!Dispose \/ \E i \in R!Ids : R!Cancel(i)
  PROVE  Pending'
<1>1. ASSUME NEW I \in SUBSET R!Ids, R!CancelEntries(I),
             UNCHANGED <<kind, over, owner, flight, code>>
      PROVE  Pending'
  <2>1. /\ cancelled' \subseteq cancelled \union I
        /\ armed' = armed \ UNION {R!ArmedOf(i) : i \in I}
    BY <1>1 DEF R!CancelEntries
  <2>2. ASSUME NEW w \in armed'
        PROVE  owner[w] \notin I
    <3>1. w \in armed /\ w \in handles
      BY <2>1, <2>2 DEF RInv, Continuations
    <3> QED BY <2>1, <2>2, <3>1 DEF R!ArmedOf
  <2>3. \A w \in armed' : w \in armed /\ owner'[w] = owner[w]
    BY <1>1, <2>1
  <2>4. \A w \in armed' : owner'[w] \notin cancelled'
    BY <2>1, <2>2, <2>3 DEF Pending
  <2> QED BY <1>1, <2>4 DEF Pending, Awaits
<1>2. CASE R!CancelSelf
  <2>1. {R!Top} \in SUBSET R!Ids
    BY <1>2, ScriptOnTop DEF R!CancelSelf
  <2> QED BY <1>1, <1>2, <2>1 DEF R!CancelSelf
<1>3. CASE R!Dispose
  BY <1>1, <1>3 DEF R!Dispose, RInv, R!TypeOK
<1>4. ASSUME NEW i \in R!Ids, R!Cancel(i)
      PROVE  Pending'
  <2>1. {i} \in SUBSET R!Ids
    OBVIOUS
  <2> QED BY <1>1, <1>4, <2>1 DEF R!Cancel
<1> QED BY <1>2, <1>3, <1>4

LEMMA TurnPending ==
  ASSUME RInv, Pending, R!TurnEnds
  PROVE  Pending'
<1> USE DEF R!runnerVars, R!jobVars, R!waitVars
<1>1. /\ R!MayCall /\ code' = R!Front(code)
      /\ UNCHANGED <<kind, owner, flight, armed, cancelled>> /\ over \subseteq over'
  BY DEF R!TurnEnds, R!HostReturns, R!ScriptReturns, R!ScriptThrows, R!JobYields, R!JobEnds,
         R!Ends
<1>2. \A x : On(code, x) => x = R!Top \/ On(code', x)
  BY <1>1, CodePopped DEF RInv
<1>3. R!Top \in R!Ids /\ kind[R!Top] = "runner" => Awaits(R!Top) \/ R!Top \in over'
  <2>1. R!ScriptReturns => Awaits(R!Top) \/ R!Top \in over'
    BY DEF R!ScriptReturns, R!Ends, Awaits
  <2>2. R!ScriptThrows => R!Top \in over'
    BY DEF R!ScriptThrows, R!Ends
  <2>3. Host \notin R!Ids
    BY StopsAssumption DEF R!RunnerAssumption
  <2>4. R!JobYields \/ (\E how \in {"resolved", "rejected"} : R!JobEnds(how))
          => kind[R!Top] = "job"
    BY DEF R!JobYields, R!JobEnds
  <2>5. R!HostReturns => R!Top = Host
    BY DEF R!HostReturns
  <2> QED BY <2>1, <2>2, <2>3, <2>4, <2>5 DEF R!TurnEnds
<1> QED BY <1>1, <1>2, <1>3, WaitsPendOn

LEMMA MicrotaskPending ==
  ASSUME RInv, Pending, R!Microtask
  PROVE  Pending'
<1> USE DEF R!runnerVars, R!jobVars, R!waitVars
<1>1. CASE R!Settle \/ R!Resume \/ R!Release \/ R!Finish
  <2>1. /\ UNCHANGED <<kind, owner, flight, cancelled, over, code>> /\ armed' \subseteq armed
    BY <1>1 DEF R!Settle, R!Resume, R!Release, R!Finish
  <2>2. \A x : On(code, x) => On(code', x)
    BY <2>1
  <2> QED BY <2>1, <2>2, PendingStays
<1>2. CASE R!Script
  <2> DEFINE w == Head(queue).of
             i == owner[w]
  <2>1. /\ UNCHANGED <<kind, owner, armed, cancelled>> /\ flight' = flight \ {w} /\ code = <<>>
        /\ (code' = <<i>> /\ over' = over) \/ (over' = over \union {i} /\ code' = code)
    BY <1>2 DEF R!Script, R!Ends, R!Next1
  <2>2. i \in Code
    BY <1>2, ScriptTaken DEF R!Script, Code
  <2> HIDE DEF w
  <2>3. (\A x : ~On(code, x)) /\ (code' = <<i>> => On(code', i))
    BY <2>1, <2>2, CodeAlone
  <2>4. \A j \in R!Ids : j # i /\ Awaits(j) => Awaits(j)'
    BY <2>1 DEF Awaits
  <2> QED BY <2>1, <2>3, <2>4 DEF Pending
<1> QED BY <1>1, <1>2 DEF R!Microtask

LEMMA NextPending ==
  ASSUME RInv, Pending, R!Next
  PROVE  Pending'
<1> USE DEF R!runnerVars, R!jobVars, R!waitVars
<1>1. CASE R!HostCalls \/ \E i \in R!Ids : R!JobStep(i)
  <2>1. /\ UNCHANGED <<kind, owner, flight, cancelled, over, armed>> /\ code = <<>>
    BY <1>1 DEF R!HostCalls, R!JobStep, R!HostReady
  <2>2. Host \in Code /\ \A x : ~On(<<>>, x)
    BY CodeAlone DEF Code
  <2>3. \A x : On(code, x) => On(code', x)
    BY <2>1, <2>2
  <2> QED BY <2>1, <2>3, PendingStays
<1>2. CASE \E w \in R!Waits : \E how \in {"ok", "error"} : R!TimerSettles(w, how)
  <2>1. UNCHANGED <<kind, owner, flight, cancelled, over, armed, code>>
    BY <1>2 DEF R!TimerSettles
  <2>2. \A x : On(code, x) => On(code', x)
    BY <2>1
  <2> QED BY <2>1, <2>2, PendingStays
<1>3. CASE R!TurnEnds
  BY <1>3, TurnPending
<1>4. CASE R!Microtask
  BY <1>4, MicrotaskPending
<1>5. CASE R!CancelSelf \/ R!Dispose \/ \E i \in R!Ids : R!Cancel(i)
  BY <1>5, CancellingPending
<1>6. CASE \E w \in R!Waits : R!Wait(w)
  BY <1>6, WaitPending
<1>7. CASE \E i \in R!Ids : R!Run(i) \/ R!RunJob(i) \/ \E w \in R!Waits : R!RunDelay(i, w)
  BY <1>7, StartsPending
<1> QED BY <1>1, <1>2, <1>3, <1>4, <1>5, <1>6, <1>7 DEF R!Next

RunnersPend == subject = "runners" => Pending

LEMMA RunnersPendAlways ==
  AnyInit /\ [][AnyNext]_allVars => []RunnersPend
<1>1. AnyInit => RunnersPend
  BY DEF AnyInit, RunnersPend, R!Init, Pending
<1>2. RunnersHold /\ RunnersPend /\ [AnyNext]_allVars => RunnersPend'
  <2> SUFFICES ASSUME RunnersHold, RunnersPend, [AnyNext]_allVars, subject' = "runners"
               PROVE  Pending'
    BY DEF RunnersPend
  <2>1. CASE subject = "runners" /\ R!Next
    BY <2>1, NextPending DEF RunnersHold, RunnersPend
  <2>2. CASE (subject = "engine" /\ UNCHANGED ButEngine) \/ UNCHANGED allVars
    <3>1. subject = "runners" /\ UNCHANGED runnerVars
      BY <2>2 DEF allVars, ButEngine
    <3> QED BY <3>1 DEF RunnersPend, Pending, Awaits, On, runnerVars
  <2> QED BY <2>1, <2>2 DEF AnyNext
<1> QED BY <1>1, <1>2, RunnersHoldAlways, PTL

\* Nothing of a cancelled script is left when the host gets its turn again: it has ended,
\* it has left the manager's map, and none of its waits is in flight.
THEOREM CancelledRunnersAreOver == Stops => []CancelledIsOver
<1>1. RunnersHold /\ RunnersPend => CancelledIsOver
  <2> SUFFICES ASSUME RInv, Pending, code = <<>>, queue = <<>>, NEW i \in cancelled
               PROVE  /\ i \in over \ running
                      /\ \A w \in flight : owner[w] # i
    BY DEF RunnersHold, RunnersPend, CancelledIsOver, R!CancelledIsOver
  <2>1. \A x, o : ~Has(queue, x, o) /\ ~On(code, o)
    <3>1. Len(queue) = 0 /\ Len(code) = 0
      OBVIOUS
    <3> QED BY <3>1 DEF Has, On
  <2>2. i \in R!Ids /\ kind[i] = "runner" /\ flight \subseteq R!Waits
    BY DEF RInv, R!TypeOK, Kinds
  <2>3. \A w \in flight : w \in armed
    BY <2>1, <2>2 DEF RInv, Continuations, Continues
  <2>4. \A w \in flight : owner[w] # i
    BY <2>3 DEF Pending
  <2>5. i \in over
    BY <2>1, <2>2, <2>4 DEF Pending, Awaits
  <2>6. i \notin running
    BY <2>1, <2>2, <2>5 DEF RInv, Entries, ScriptHeld
  <2> QED BY <2>4, <2>5, <2>6
<1> QED BY <1>1, RunnersHoldAlways, RunnersPendAlways, PTL DEF Stops
=============================================================================
