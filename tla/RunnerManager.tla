---------------------------- MODULE RunnerManager ----------------------------
(***************************************************************************)
(* RunnerManager and ScriptRunner (Runner/): the asynchronous scripts and   *)
(* the jobs a game state runs, and their cancellation.                      *)
(*                                                                          *)
(* JavaScript runs one piece of code at a time.  `code` is its call stack:  *)
(* a callback of the host (Minecraft), the script of a runner from one      *)
(* await to the next, or a step of a job.  Promise continuations wait in    *)
(* `queue`, in order; the host calls nothing while the queue is draining.   *)
(*                                                                          *)
(* A call of wait() has a handle, which the timer of the host fulfils and   *)
(* cancel() rejects; settling it queues the rest of wait() ("resume"),      *)
(* which queues the script that awaits it ("script").  A script may have    *)
(* several waits in flight.  What else a script may await is not modelled.  *)
(***************************************************************************)
EXTENDS Naturals, Sequences, SequencesExt

CONSTANTS
  MaxIds,     \* bound: runners and jobs started
  MaxWaits,   \* bound: calls of wait()
  Host,
  Catches     \* scripts may catch the error a wait throws, and go on

Ids == 1..MaxIds
Waits == 1..MaxWaits

RunnerAssumption ==
  /\ MaxIds \in Nat /\ MaxWaits \in Nat
  /\ Host \notin Ids
  /\ Catches \in BOOLEAN

VARIABLES
  kind,       \* what each id was given to
  runners,    \* the keys of RunnerManager.runners
  cancelled,  \* ScriptRunner.cancelled
  over,       \* runners whose script has ended, by return or by throw
  jobs,       \* generators that system.runJob() still steps
  promise,    \* the promise of each job
  owner,      \* the runner that called each wait
  delayed,    \* runners of runDelay() whose function has not been called
  flight,     \* waits the script has not come back from
  handles,    \* ScriptRunner.waitHandles
  armed,      \* handles that are not settled
  timers,     \* pending timers of system.waitTicks()
  queue,      \* promise continuations
  code,       \* the call stack, innermost last
  draining    \* the continuations are being run

runnerVars == <<kind, runners, cancelled, over>>
jobVars == <<jobs, promise>>
waitVars == <<owner, delayed, flight, handles, armed, timers>>
vars == <<runnerVars, jobVars, waitVars, queue, code, draining>>

Task(what, of, how) == [what |-> what, of |-> of, how |-> how]

Tasks == [what : {"settle", "resume", "script", "finish", "release"},
          of : Ids \union Waits,
          how : {"ok", "error"}]

Top == Last(code)

MayCall == code # <<>>

HostReady == code = <<>> /\ (draining => queue = <<>>)

Fresh(i) == kind[i] = "none" /\ \A j \in 1..(i - 1) : kind[j] # "none"

FreshWait(w) == owner[w] = 0 /\ \A v \in 1..(w - 1) : owner[v] # 0

-----------------------------------------------------------------------------
(* The host *)

HostCalls ==
  /\ HostReady
  /\ code' = <<Host>>
  /\ draining' = FALSE
  /\ UNCHANGED <<runnerVars, jobVars, waitVars, queue>>

HostReturns ==
  /\ MayCall /\ Top = Host
  /\ code' = Front(code)
  /\ UNCHANGED <<runnerVars, jobVars, waitVars, queue, draining>>

\* The timer of a wait elapses, or is refused: it cannot be cancelled.
TimerSettles(w, how) ==
  /\ HostReady
  /\ w \in timers
  /\ timers' = timers \ {w}
  /\ queue' = Append(queue, Task("settle", w, how))
  /\ draining' = FALSE
  /\ UNCHANGED <<runnerVars, jobVars, owner, delayed, flight, handles, armed, code>>

-----------------------------------------------------------------------------
(* Runners *)

\* run(): the script begins at once, inside the call.
Run(i) ==
  /\ MayCall /\ Fresh(i)
  /\ kind' = [kind EXCEPT ![i] = "runner"]
  /\ runners' = runners \union {i}
  /\ code' = Append(code, i)
  /\ UNCHANGED <<cancelled, over, jobVars, waitVars, queue, draining>>

\* Mutant: wait() does not ask whether the runner was cancelled.
WaitUnchecked(w) ==
  /\ MayCall /\ Top # Host /\ kind[Top] = "runner"
  /\ FreshWait(w)
  /\ owner' = [owner EXCEPT ![w] = Top]
  /\ flight' = flight \union {w}
  /\ handles' = handles \union {w}
  /\ armed' = armed \union {w}
  /\ timers' = timers \union {w}
  /\ UNCHANGED <<delayed, runnerVars, jobVars, queue, code, draining>>

\* wait(): a cancelled runner gets the error at once.
Wait(w) ==
  /\ MayCall /\ Top # Host /\ kind[Top] = "runner"
  /\ FreshWait(w)
  /\ owner' = [owner EXCEPT ![w] = Top]
  /\ flight' = flight \union {w}
  /\ \/ /\ Top \in cancelled
        /\ queue' = Append(queue, Task("script", w, "error"))
        /\ UNCHANGED <<handles, armed, timers>>
     \/ /\ Top \notin cancelled
        /\ handles' = handles \union {w}
        /\ armed' = armed \union {w}
        /\ timers' = timers \union {w}
        /\ UNCHANGED queue
  /\ UNCHANGED <<delayed, runnerVars, jobVars, code, draining>>

\* runDelay(): its own wait comes first; the function given to it is called afterwards.
RunDelay(i, w) ==
  /\ MayCall /\ Fresh(i) /\ FreshWait(w)
  /\ kind' = [kind EXCEPT ![i] = "runner"]
  /\ runners' = runners \union {i}
  /\ owner' = [owner EXCEPT ![w] = i]
  /\ flight' = flight \union {w}
  /\ handles' = handles \union {w}
  /\ armed' = armed \union {w}
  /\ timers' = timers \union {w}
  /\ delayed' = delayed \union {i}
  /\ UNCHANGED <<cancelled, over, jobVars, queue, code, draining>>

\* The script of runner i ends unless it has ended before; run() then goes on.
Ends(i, tasks) ==
  /\ over' = over \union {i}
  /\ queue' = tasks \o (IF i \in over THEN <<>> ELSE <<Task("finish", i, "ok")>>)

\* A script comes to an await, or, when it waits for nothing, to its end.
ScriptReturns ==
  /\ MayCall /\ Top # Host /\ kind[Top] = "runner"
  /\ code' = Front(code)
  /\ IF \E w \in flight : owner[w] = Top
     THEN UNCHANGED <<over, queue>>
     ELSE Ends(Top, queue)
  /\ UNCHANGED <<kind, runners, cancelled, jobVars, waitVars, draining>>

\* A script throws, though other waits of it may be in flight.
ScriptThrows ==
  /\ MayCall /\ Top # Host /\ kind[Top] = "runner"
  /\ code' = Front(code)
  /\ Ends(Top, queue)
  /\ UNCHANGED <<kind, runners, cancelled, jobVars, waitVars, draining>>

-----------------------------------------------------------------------------
(* Jobs *)

RunJob(i) ==
  /\ MayCall /\ Fresh(i)
  /\ kind' = [kind EXCEPT ![i] = "job"]
  /\ runners' = runners \union {i}
  /\ jobs' = jobs \union {i}
  /\ UNCHANGED <<cancelled, over, promise, waitVars, queue, code, draining>>

JobStep(i) ==
  /\ HostReady
  /\ i \in jobs
  /\ code' = <<i>>
  /\ draining' = FALSE
  /\ UNCHANGED <<runnerVars, jobVars, waitVars, queue>>

JobYields ==
  /\ MayCall /\ Top # Host /\ kind[Top] = "job"
  /\ code' = Front(code)
  /\ UNCHANGED <<runnerVars, jobVars, waitVars, queue, draining>>

\* The generator returns or throws; it may have cancelled itself before.
JobEnds(how) ==
  /\ MayCall /\ Top # Host /\ kind[Top] = "job"
  /\ code' = Front(code)
  /\ jobs' = jobs \ {Top}
  /\ \/ /\ promise[Top] = "pending"
        /\ promise' = [promise EXCEPT ![Top] = how]
        /\ queue' = Append(queue, Task("release", Top, "ok"))
     \/ /\ promise[Top] # "pending"
        /\ UNCHANGED <<promise, queue>>
  /\ UNCHANGED <<runnerVars, waitVars, draining>>

-----------------------------------------------------------------------------
(* Cancellation *)

ArmedOf(i) == {w \in handles \intersect armed : owner[w] = i}

\* What cancelling the entries in I queues: waits reject, promises resolve.
Unwinding(I) ==
  {Task("resume", w, "error") : w \in UNION {ArmedOf(i) : i \in I}}
    \union {Task("release", i, "ok") : i \in {j \in I : kind[j] = "job" /\ promise[j] = "pending"}}

\* Entries are cancelled in the order they were started, the waits of one likewise.
Earlier(t, u) ==
  LET entry(task) == IF task.what = "release" THEN task.of ELSE owner[task.of]
  IN \/ entry(t) < entry(u)
     \/ entry(t) = entry(u) /\ t.of < u.of

InOrder(T) ==
  {s \in SeqOf(T, MaxIds + MaxWaits) :
     Range(s) = T /\ \A m, n \in DOMAIN s : m < n => Earlier(s[m], s[n])}

\* Mutant: the handles are dropped before they are rejected.
CancelEntriesDropping(I) ==
  /\ cancelled' = cancelled \union {i \in I : kind[i] = "runner"}
  /\ handles' = {w \in handles : owner[w] \notin I}
  /\ jobs' = jobs \ I
  /\ promise' = [i \in Ids |->
       IF i \in I /\ kind[i] = "job" /\ promise[i] = "pending" THEN "resolved" ELSE promise[i]]
  /\ UNCHANGED <<armed, queue>>

\* ScriptRunner.cancel() of the runners in I; clearJob() and settle() of the jobs.
CancelEntries(I) ==
  /\ cancelled' = cancelled \union {i \in I : kind[i] = "runner"}
  /\ armed' = armed \ UNION {ArmedOf(i) : i \in I}
  /\ handles' = {w \in handles : owner[w] \notin I}
  /\ jobs' = jobs \ I
  /\ promise' = [i \in Ids |->
       IF i \in I /\ kind[i] = "job" /\ promise[i] = "pending" THEN "resolved" ELSE promise[i]]
  /\ \E s \in InOrder(Unwinding(I)) : queue' = queue \o s

Cancel(i) ==
  /\ MayCall
  /\ i \in runners
  /\ CancelEntries({i})
  /\ runners' = runners \ {i}
  /\ UNCHANGED <<kind, over, owner, delayed, flight, timers, code, draining>>

\* A script cancels its own ScriptRunner; the manager does not know.
CancelSelf ==
  /\ MayCall /\ Top # Host /\ kind[Top] = "runner"
  /\ Top \notin cancelled
  /\ CancelEntries({Top})
  /\ UNCHANGED <<kind, runners, over, owner, delayed, flight, timers, code, draining>>

Dispose ==
  /\ MayCall
  /\ CancelEntries(runners)
  /\ runners' = {}
  /\ UNCHANGED <<kind, over, owner, delayed, flight, timers, code, draining>>

-----------------------------------------------------------------------------
(* Continuations *)

Next1(what) ==
  /\ code = <<>> /\ queue # <<>>
  /\ Head(queue).what = what
  /\ draining' = TRUE

\* WaitHandle.fulfil(), fail(): nothing, when cancel() came first.
Settle ==
  /\ Next1("settle")
  /\ LET w == Head(queue).of IN
       /\ armed' = armed \ {w}
       /\ queue' = IF w \in armed
                   THEN Append(Tail(queue), Task("resume", w, Head(queue).how))
                   ELSE Tail(queue)
  /\ UNCHANGED <<runnerVars, jobVars, owner, delayed, flight, handles, timers, code>>

\* The rest of wait(): cancellation may have raced a successful wait.
Resume ==
  /\ Next1("resume")
  /\ LET w == Head(queue).of
         ok == Head(queue).how = "ok" /\ owner[w] \notin cancelled
     IN /\ handles' = handles \ {w}
        /\ queue' = Append(Tail(queue), Task("script", w, IF ok THEN "ok" ELSE "error"))
  /\ UNCHANGED <<runnerVars, jobVars, owner, delayed, flight, armed, timers, code>>

Waited == Head(queue).how = "ok"

\* runDelay() itself neither catches the error nor looks at the cancellation again; a
\* script may do both, the latter by do() or doDelay().
MayCatch(i) == Catches /\ i \notin delayed
MayCheck(i) == i \in cancelled \ delayed

\* The script comes back from a wait: it runs on, or ends with the error.  runDelay()
\* calls its function, or ends without having called it.
Script ==
  /\ Next1("script")
  /\ LET w == Head(queue).of IN
       /\ flight' = flight \ {w}
       /\ delayed' = delayed \ {owner[w]}
       /\ \/ /\ Waited \/ MayCatch(owner[w])
             /\ code' = <<owner[w]>>
             /\ queue' = Tail(queue)
             /\ UNCHANGED over
          \/ /\ ~Waited \/ MayCheck(owner[w])
             /\ Ends(owner[w], Tail(queue))
             /\ UNCHANGED code
  /\ UNCHANGED <<kind, runners, cancelled, jobVars, owner, handles, armed, timers>>

\* Mutant: the entry of a job stays.
ReleaseNothing ==
  /\ Next1("release")
  /\ queue' = Tail(queue)
  /\ UNCHANGED <<runnerVars, jobVars, waitVars, code>>

\* The finally of runJob().
Release ==
  /\ Next1("release")
  /\ runners' = runners \ {Head(queue).of}
  /\ queue' = Tail(queue)
  /\ UNCHANGED <<kind, cancelled, over, jobVars, waitVars, code>>

\* The finally of run(): onFinish.
Finish ==
  /\ Next1("finish")
  /\ runners' = runners \ {Head(queue).of}
  /\ queue' = Tail(queue)
  /\ UNCHANGED <<kind, cancelled, over, jobVars, waitVars, code>>

-----------------------------------------------------------------------------
Init ==
  /\ kind = [i \in Ids |-> "none"]
  /\ runners = {} /\ cancelled = {} /\ over = {}
  /\ jobs = {} /\ promise = [i \in Ids |-> "pending"]
  /\ owner = [w \in Waits |-> 0]
  /\ delayed = {}
  /\ flight = {} /\ handles = {} /\ armed = {} /\ timers = {}
  /\ queue = <<>> /\ code = <<>> /\ draining = FALSE

TurnEnds ==
  \/ HostReturns \/ ScriptReturns \/ ScriptThrows \/ JobYields
  \/ \E how \in {"resolved", "rejected"} : JobEnds(how)

Microtask == Settle \/ Resume \/ Script \/ Release \/ Finish

Next ==
  \/ HostCalls \/ TurnEnds \/ Microtask \/ CancelSelf \/ Dispose
  \/ \E w \in Waits : Wait(w) \/ \E how \in {"ok", "error"} : TimerSettles(w, how)
  \/ \E i \in Ids : Run(i) \/ RunJob(i) \/ JobStep(i) \/ Cancel(i)
  \/ \E i \in Ids, w \in Waits : RunDelay(i, w)

Spec == Init /\ [][Next]_vars

\* Code comes to its next await, and the queue is drained again and again, between the
\* callbacks of each tick and the next.  Nothing makes a timer elapse.
FairSpec == Spec /\ WF_vars(TurnEnds) /\ SF_vars(Microtask)

-----------------------------------------------------------------------------
TypeOK ==
  /\ kind \in [Ids -> {"none", "runner", "job"}]
  /\ runners \subseteq Ids /\ cancelled \subseteq Ids /\ over \subseteq Ids
  /\ jobs \subseteq Ids
  /\ promise \in [Ids -> {"pending", "resolved", "rejected"}]
  /\ owner \in [Waits -> Ids \union {0}]
  /\ delayed \subseteq Ids
  /\ armed \subseteq flight /\ flight \subseteq Waits /\ handles \subseteq flight
  /\ timers \subseteq Waits
  /\ queue \in Seq(Tasks)
  /\ code \in Seq(Ids \union {Host})
  /\ draining \in BOOLEAN

\* dispose() reaches all that runs: a runner whose script has not ended and a job
\* whose promise is pending are in the map, unless they were cancelled.
RunningIsTracked ==
  \A i \in Ids :
    /\ kind[i] = "runner" /\ i \notin over \union cancelled => i \in runners
    /\ kind[i] = "job" /\ promise[i] = "pending" => i \in runners

\* The map holds nothing that will never leave it: when no code is running, what is
\* in it is a job the host steps or a script that waits for a timer.
TrackedIsRunning ==
  code = <<>> /\ queue = <<>> =>
    \A i \in runners :
      \/ i \in jobs
      \/ \E w \in timers \intersect flight : owner[w] = i

\* The script comes back once from every wait, however timer and cancellation race:
\* a wait in flight has a handle to settle or one continuation, never both.
OneContinuation ==
  \A w \in Waits :
    LET N == {n \in 1..Len(queue) :
                queue[n].what \in {"resume", "script"} /\ queue[n].of = w}
    IN IF w \in flight \ armed THEN \E n \in N : N = {n} ELSE N = {}

\* The map is what runs.
TracksWhatRuns == TypeOK /\ RunningIsTracked /\ TrackedIsRunning

\* Cancelling is done when the host gets its turn again: nothing of a cancelled script is
\* left, neither a wait nor its entry, however timers, cancellations and scripts that catch
\* the error and wait again, or throw with waits in flight, come together.
CancelledIsOver ==
  code = <<>> /\ queue = <<>> =>
    \A i \in cancelled :
      /\ i \in over \ runners
      /\ \A w \in flight : owner[w] # i

\* A cancelled script ends, whatever its timers do.
CancelUnwinds == \A i \in Ids : i \in cancelled ~> i \in over \ runners

=============================================================================
