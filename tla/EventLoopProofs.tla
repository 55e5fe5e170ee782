-------------------------- MODULE EventLoopProofs ---------------------------
(***************************************************************************)
(* Proofs about EventLoop, for every number of timers and fetches, every    *)
(* capacity of the two channels and every budget: the composition only     *)
(* takes steps of Timers and of Fetches, so that what is proved of each    *)
(* manager holds of the runtime, and the loop ends only when nothing can    *)
(* happen any more.                                                         *)
(***************************************************************************)
EXTENDS EventLoop, TLAPS

\* The theorems of the two managers, at the variables of this composition.
TP == INSTANCE TimersProofs WITH gor <- tgor, pending <- tpending, done <- tdone, pc <- tpc
FP == INSTANCE FetchesProofs WITH gor <- fgor, pending <- fpending, done <- fdone, pc <- fpc

-----------------------------------------------------------------------------
(* The managers.                                                           *)

\* What TimersProofs says of TimerManager, it says of the one of EventLoop:
\* the invariant is the same formula of the same variables.
LEMMA TimersInvariant == (T!IInv <=> TP!IInv) /\ (T!IInv' <=> TP!IInv')
  BY DEF T!IInv, TP!IInv, T!TypeOK, TP!TypeOK, T!MainThread, TP!MainThread,
         T!IdsInOrder, TP!IdsInOrder, T!CurrentEntry, TP!CurrentEntry,
         T!TimeoutPath, TP!TimeoutPath, T!RefBalance, TP!RefBalance,
         T!IntervalOutlived, TP!IntervalOutlived,
         T!Alive, TP!Alive, T!Ids, TP!Ids, T!Kinds, TP!Kinds

\* And so are the initial states and the steps.
LEMMA TimersSteps ==
  /\ T!Init <=> TP!Init
  /\ T!vars = TP!vars /\ T!vars' = TP!vars'
  /\ T!Next <=> TP!Next
<1>1. T!Init <=> TP!Init
  BY DEF T!Init, TP!Init, T!Ids, TP!Ids
<1>2. T!vars = TP!vars /\ T!vars' = TP!vars'
  BY DEF T!vars, TP!vars, T!data, TP!data
<1>3. T!Next <=> TP!Next
  BY DEF T!Next, TP!Next, T!vars, TP!vars, T!data, TP!data, T!Ids, TP!Ids,
         T!SetTimeout, TP!SetTimeout, T!SetInterval, TP!SetInterval,
         T!NewEntry, TP!NewEntry, T!ClearTimeout, TP!ClearTimeout,
         T!ClearInterval, TP!ClearInterval, T!ClearEntry, TP!ClearEntry,
         T!Stopped, TP!Stopped, T!JSRunning, TP!JSRunning, T!Fire, TP!Fire,
         T!Goroutine, TP!Goroutine, T!Send, TP!Send, T!Quit, TP!Quit,
         T!Tick, TP!Tick, T!CheckClosed, TP!CheckClosed,
         T!CheckExists, TP!CheckExists, T!Proceed, TP!Proceed,
         T!ProcessPending, TP!ProcessPending, T!Receive, TP!Receive,
         T!Callable, TP!Callable, T!Unmap, TP!Unmap,
         T!CallReturns, TP!CallReturns,
         T!ProcessPendingReturns, TP!ProcessPendingReturns,
         T!CloseStore, TP!CloseStore, T!Closing, TP!Closing,
         T!CloseDone, TP!CloseDone, T!CloseWait, TP!CloseWait,
         T!CloseDrain, TP!CloseDrain, T!CloseFree, TP!CloseFree,
         T!CloseReturns, TP!CloseReturns, T!Terminated, TP!Terminated
<1> QED
  BY <1>1, <1>2, <1>3

\* The same for FetchManager and FetchesProofs.
LEMMA FetchesInvariant == (F!IInv <=> FP!IInv) /\ (F!IInv' <=> FP!IInv')
  BY DEF F!IInv, FP!IInv, F!TypeOK, FP!TypeOK, F!Results, FP!Results,
         F!PollLists, FP!PollLists, F!RequestPending, FP!RequestPending,
         F!TrackedOnce, FP!TrackedOnce, F!HandlesBalance, FP!HandlesBalance,
         F!SignalToCome, FP!SignalToCome, F!Tracked, FP!Tracked,
         F!Listed, FP!Listed, F!Once, FP!Once

LEMMA FetchesSteps ==
  /\ F!Init <=> FP!Init
  /\ F!vars = FP!vars /\ F!vars' = FP!vars'
  /\ F!Next <=> FP!Next
<1>1. F!Init <=> FP!Init
  BY DEF F!Init, FP!Init
<1>2. F!vars = FP!vars /\ F!vars' = FP!vars'
  BY DEF F!vars, FP!vars, F!lists, FP!lists
<1>3. F!Next <=> FP!Next
  BY DEF F!Next, FP!Next, F!vars, FP!vars, F!lists, FP!lists,
         F!JSRunning, FP!JSRunning, F!CallFetch, FP!CallFetch,
         F!Results, FP!Results, F!Complete, FP!Complete, F!Notify, FP!Notify,
         F!Wake, FP!Wake, F!ProcessPending, FP!ProcessPending,
         F!Keep, FP!Keep, F!Collect, FP!Collect, F!Settle, FP!Settle,
         F!ProcessPendingReturns, FP!ProcessPendingReturns,
         F!Listed, FP!Listed, F!Close, FP!Close, F!Terminated, FP!Terminated
<1> QED
  BY <1>1, <1>2, <1>3

\* The invariants of the managers, as their own steps keep them.
LEMMA ManagersKeep ==
  /\ T!Init => T!IInv
  /\ T!IInv /\ [T!Next]_(T!vars) => T!IInv'
  /\ F!Init => F!IInv
  /\ F!IInv /\ [F!Next]_(F!vars) => F!IInv'
<1>1. T!Init => T!IInv
  BY TP!InitEstablishes, TimersInvariant, TimersSteps, EventLoopAssumption
<1>2. T!IInv /\ [T!Next]_(T!vars) => T!IInv'
  BY TP!StepPreserves, TimersInvariant, TimersSteps, EventLoopAssumption
<1>3. F!Init => F!IInv
  BY FP!InitEstablishes, FetchesInvariant, FetchesSteps, EventLoopAssumption
<1>4. F!IInv /\ [F!Next]_(F!vars) => F!IInv'
  BY FP!StepPreserves, FetchesInvariant, FetchesSteps, EventLoopAssumption
<1> QED
  BY <1>1, <1>2, <1>3, <1>4
-----------------------------------------------------------------------------
(* Every step of the composition is one of each manager, or none.          *)

LEMMA StepOfTimers == [Next]_vars => [T!Next]_(T!vars)
<1> SUFFICES ASSUME [Next]_vars PROVE T!Next \/ UNCHANGED T!vars
  OBVIOUS
<1>1. UNCHANGED tvars => UNCHANGED T!vars
  BY DEF tvars, T!vars, T!data
<1>2. CASE StartTimer
  BY <1>2 DEF StartTimer, T!Next
<1>3. CASE ClearTimer
  BY <1>3 DEF ClearTimer, T!Next
<1>4. ASSUME NEW id \in T!Ids, TimerGoroutines(id) PROVE T!Next
  BY <1>4 DEF TimerGoroutines, T!Next
<1>5. CASE PollTimers
  BY <1>5 DEF PollTimers, T!Next
<1>6. CASE CloseTimers
  BY <1>6 DEF CloseTimers, T!Next
<1>7. CASE StartFetch \/ WakeUnasked \/ CloseFetches \/ Terminated \/ UNCHANGED vars
  BY <1>7, <1>1 DEF StartFetch, WakeUnasked, CloseFetches, Terminated, vars
<1>8. ASSUME NEW f \in Fetch, FetchGoroutine(f) PROVE UNCHANGED T!vars
  BY <1>8, <1>1 DEF FetchGoroutine
<1>9. CASE ScriptEnds \/ PollFetches \/ JobStarts \/ JobEnds \/ NoJobs \/ Check \/ Wake
  BY <1>9, <1>1 DEF ScriptEnds, PollFetches, JobStarts, JobEnds, NoJobs, Check, Wake
<1> QED
  BY <1>2, <1>3, <1>4, <1>5, <1>6, <1>7, <1>8, <1>9 DEF Next, Loop

LEMMA StepOfFetches == [Next]_vars => [F!Next]_(F!vars)
<1> SUFFICES ASSUME [Next]_vars PROVE F!Next \/ UNCHANGED F!vars
  OBVIOUS
<1>1. UNCHANGED fvars => UNCHANGED F!vars
  BY DEF fvars, F!vars, F!lists
<1>2. CASE StartFetch
  <2> DEFINE f == CHOOSE f \in Fetch : promise[f] = "unset"
  <2>1. f \in Fetch /\ F!CallFetch(f)
    BY <1>2 DEF StartFetch
  <2> QED
    BY <2>1 DEF F!Next
<1>3. ASSUME NEW f \in Fetch, FetchGoroutine(f) PROVE F!Next
  BY <1>3 DEF FetchGoroutine, F!Next
<1>4. CASE PollFetches
  BY <1>4 DEF PollFetches, F!Next
<1>5. CASE Wake
  BY <1>5, <1>1 DEF Wake, F!Next
<1>6. CASE CloseFetches
  BY <1>6 DEF CloseFetches, F!Next
<1>7. CASE StartTimer \/ ClearTimer \/ WakeUnasked \/ CloseTimers \/ Terminated \/ UNCHANGED vars
  BY <1>7, <1>1 DEF StartTimer, ClearTimer, WakeUnasked, CloseTimers, Terminated, vars
<1>8. ASSUME NEW id \in T!Ids, TimerGoroutines(id) PROVE UNCHANGED F!vars
  BY <1>8, <1>1 DEF TimerGoroutines
<1>9. CASE ScriptEnds \/ PollTimers \/ JobStarts \/ JobEnds \/ NoJobs \/ Check
  BY <1>9, <1>1 DEF ScriptEnds, PollTimers, JobStarts, JobEnds, NoJobs, Check
<1> QED
  BY <1>2, <1>3, <1>4, <1>5, <1>6, <1>7, <1>8, <1>9 DEF Next, Loop

\* A runtime with both managers behaves, as far as its timers go, like
\* TimerManager alone (timer.go): whatever Timers promises holds here.
THEOREM ImplementsTimers == Spec => T!Spec
<1>1. Init => T!Init
  BY DEF Init
<1> QED
  BY <1>1, StepOfTimers, PTL DEF Spec, T!Spec

\* And like FetchManager alone as far as its fetches go (fetch.go).
THEOREM ImplementsFetches == Spec => F!Spec
<1>1. Init => F!Init
  BY DEF Init
<1> QED
  BY <1>1, StepOfFetches, PTL DEF Spec, F!Spec
-----------------------------------------------------------------------------
(* The invariant.                                                          *)

\* When a manager says that nothing is pending, nothing of it is left: the
\* invariants of the managers know more than their HasPending says.
LEMMA QuietTimers ==
  ASSUME T!IInv, tpc = "host", ~T!HasPending, NEW id \in T!Ids
  PROVE  clock[id] # "armed" /\ ~T!Alive(id)
  BY DEF T!IInv, T!TypeOK, T!MainThread, T!IdsInOrder, T!TimeoutPath,
         T!IntervalOutlived, T!HasPending, T!Alive, T!Kinds

LEMMA QuietFetches ==
  ASSUME F!IInv, fpc = "idle", ~F!HasPending, NEW f \in Fetch
  PROVE  promise[f] # "unset" => Settled(f)
  BY DEF F!IInv, F!TypeOK, F!PollLists, F!TrackedOnce, F!Tracked, F!Listed,
         F!HasPending, Settled

\* A job's end takes the oldest job, and only that one, from the list.
LEMMA FirstJob ==
  ASSUME NEW q \in Seq(Fetch), q # <<>>, F!Once(q)
  PROVE  /\ Head(q) \in Fetch /\ Tail(q) \in Seq(Fetch)
         /\ F!Once(Tail(q))
         /\ \A f : F!Listed(f, q) <=> (f = Head(q) \/ F!Listed(f, Tail(q)))
         /\ ~F!Listed(Head(q), Tail(q))
<1>1. /\ Head(q) \in Fetch /\ Tail(q) \in Seq(Fetch)
      /\ Head(q) = q[1] /\ 1 \in DOMAIN q
      /\ DOMAIN q = 1..Len(q) /\ DOMAIN Tail(q) = 1..(Len(q) - 1) /\ Len(q) \in Nat
      /\ \A i \in DOMAIN Tail(q) : Tail(q)[i] = q[i + 1]
  OBVIOUS
<1>2. F!Once(Tail(q)) /\ ~F!Listed(Head(q), Tail(q))
  BY <1>1 DEF F!Once, F!Listed
<1>3. ASSUME NEW f PROVE F!Listed(f, q) <=> (f = Head(q) \/ F!Listed(f, Tail(q)))
  <2>1. ASSUME NEW i \in DOMAIN q, q[i] = f PROVE f = Head(q) \/ F!Listed(f, Tail(q))
    <3>1. CASE i = 1
      BY <1>1, <2>1, <3>1
    <3>2. CASE i # 1
      <4>1. i - 1 \in DOMAIN Tail(q) /\ Tail(q)[i - 1] = f
        BY <1>1, <2>1, <3>2
      <4> QED
        BY <4>1 DEF F!Listed
    <3> QED
      BY <3>1, <3>2
  <2>2. ASSUME NEW i \in DOMAIN Tail(q), Tail(q)[i] = f PROVE F!Listed(f, q)
    <3>1. i + 1 \in DOMAIN q /\ q[i + 1] = f
      BY <1>1, <2>2
    <3> QED
      BY <3>1 DEF F!Listed
  <2>3. f = Head(q) => F!Listed(f, q)
    BY <1>1 DEF F!Listed
  <2> QED
    BY <2>1, <2>2, <2>3 DEF F!Listed
<1> QED
  BY <1>1, <1>2, <1>3

\* Settling a promise puts its reaction behind the jobs there are.
LEMMA NewJob ==
  ASSUME NEW q \in Seq(Fetch), NEW g \in Fetch, F!Once(q), ~F!Listed(g, q)
  PROVE  /\ Append(q, g) \in Seq(Fetch)
         /\ F!Once(Append(q, g))
         /\ \A f : F!Listed(f, Append(q, g)) <=> (f = g \/ F!Listed(f, q))
  BY DEF F!Once, F!Listed

LEMMA InitEstablishes == Init => IInv
<1> SUFFICES ASSUME Init PROVE IInv
  OBVIOUS
<1>1. T!IInv /\ F!IInv
  BY ManagersKeep DEF Init
<1>2. tpc = "host" /\ fpc = "idle" /\ promise = [f \in Fetch |-> "unset"]
  BY DEF Init, T!Init, F!Init
<1>3. TypeOK /\ OneMainThread /\ LoopIdle
  BY <1>2, EventLoopAssumption DEF Init, TypeOK, OneMainThread, LoopIdle
<1>4. ReactionsOnce
  BY <1>2 DEF Init, ReactionsOnce, Settled, F!Listed, F!Once
<1> QED
  BY <1>1, <1>3, <1>4 DEF IInv

LEMMA ReactionsKept ==
  ASSUME ReactionsOnce, UNCHANGED <<promise, jobs, reacted>>
  PROVE  ReactionsOnce'
  BY DEF ReactionsOnce, Settled, F!Listed, F!Once

\* No script runs once the loop is over.
LEMMA NoScriptWhenOver ==
  ASSUME OneMainThread, JSRunning
  PROVE  at # "over"
  BY DEF OneMainThread, JSRunning

LEMMA StepPreserves == IInv /\ [Next]_vars => IInv'
<1> SUFFICES ASSUME IInv, [Next]_vars PROVE IInv'
  OBVIOUS
<1> USE DEF tvars, fvars
<1>0. T!IInv' /\ F!IInv'
  BY ManagersKeep, StepOfTimers, StepOfFetches DEF IInv
<1> DEFINE Host == TypeOK /\ OneMainThread /\ ReactionsOnce /\ LoopIdle
<1>h. Host
  BY DEF IInv
<1>s. SUFFICES Host'
  BY <1>0 DEF IInv
<1>1. CASE StartTimer
  <2>1. UNCHANGED <<tpc, fpc, promise, at, jobs, reacted>>
    BY <1>1 DEF StartTimer, T!SetTimeout, T!SetInterval
  <2>2. at # "over" /\ TypeOK'
    BY <1>h, <1>1, <2>1, NoScriptWhenOver DEF StartTimer, TypeOK
  <2> QED
    BY <1>h, <2>1, <2>2, ReactionsKept DEF OneMainThread, LoopIdle
<1>2. CASE ClearTimer
  <2>1. UNCHANGED <<tpc, fpc, promise, at, jobs, reacted, budget>>
    BY <1>2 DEF ClearTimer, T!ClearTimeout, T!ClearInterval, T!ClearEntry, hvars
  <2>2. at # "over" /\ TypeOK'
    BY <1>h, <1>2, <2>1, NoScriptWhenOver DEF ClearTimer, TypeOK
  <2> QED
    BY <1>h, <2>1, <2>2, ReactionsKept DEF OneMainThread, LoopIdle
<1>3. CASE StartFetch
  <2> DEFINE f == CHOOSE f \in Fetch : promise[f] = "unset"
  <2>1. f \in Fetch /\ promise[f] = "unset" /\ promise' = [promise EXCEPT ![f] = "pending"]
    BY <1>3 DEF StartFetch, F!CallFetch
  <2>2. UNCHANGED <<tpc, fpc, at, jobs, reacted>>
    BY <1>3 DEF StartFetch, F!CallFetch
  <2>3. at # "over" /\ TypeOK'
    BY <1>h, <1>3, <2>2, NoScriptWhenOver DEF StartFetch, TypeOK
  <2>4. \A g \in Fetch : Settled(g)' <=> Settled(g)
    BY <2>1 DEF IInv, F!IInv, F!TypeOK, Settled
  <2>5. ReactionsOnce'
    BY <1>h, <2>2, <2>4 DEF ReactionsOnce, F!Listed, F!Once
  <2> QED
    BY <1>h, <2>2, <2>3, <2>5 DEF OneMainThread, LoopIdle
<1>4. ASSUME NEW id \in T!Ids, TimerGoroutines(id) PROVE Host'
  <2>1. UNCHANGED <<tpc, timers, fpc, fpending, promise, at, jobs, reacted, budget>>
    BY <1>4 DEF TimerGoroutines, T!Fire, T!Goroutine, T!Send, T!Quit, T!Tick,
                T!CheckClosed, T!CheckExists, T!Proceed, T!data, hvars
  <2>2. at = "over" => UNCHANGED tpending
    <3>1. at = "over" => ~T!Alive(id) /\ clock[id] # "armed"
      BY <1>h, QuietTimers DEF IInv, OneMainThread, LoopIdle
    <3>2. TimerGoroutines(id) /\ ~T!Alive(id) => UNCHANGED tpending
      BY DEF TimerGoroutines, T!Fire, T!Goroutine, T!Send, T!Quit, T!Tick, T!Alive,
             T!CheckClosed, T!CheckExists, T!Proceed
    <3> QED
      BY <1>4, <3>1, <3>2
  <2> QED
    BY <1>h, <2>1, <2>2, ReactionsKept
       DEF TypeOK, OneMainThread, LoopIdle, T!HasPending, F!HasPending
<1>5. ASSUME NEW f \in Fetch, FetchGoroutine(f) PROVE Host'
  <2>1. UNCHANGED <<tvars, fpc, fpending, promise, at, jobs, reacted, budget>>
    BY <1>5 DEF FetchGoroutine, F!Complete, F!Notify, F!lists, hvars
  <2> QED
    BY <1>h, <2>1, ReactionsKept
       DEF TypeOK, OneMainThread, LoopIdle, T!HasPending, F!HasPending
<1>6. CASE PollFetches
  <2>1. UNCHANGED <<tpc, reacted, budget>> /\ at = "fetches" /\ tpc = "host" /\ fpc # "closed"
    BY <1>h, <1>6 DEF PollFetches, OneMainThread
  <2>2. at' \in {"fetches", "timers"} /\ fpc' # "closed" /\ (at' = "timers" => fpc' = "idle")
    BY <2>1, <1>6 DEF PollFetches, F!ProcessPending, F!Keep, F!Collect, F!Settle,
                F!ProcessPendingReturns
  <2>3. LoopIdle' /\ OneMainThread'
    BY <2>1, <2>2 DEF LoopIdle, OneMainThread
  <2>4. CASE F!Settle /\ jobs' = Append(jobs, Head(snapshot))
    <3> DEFINE g == Head(snapshot)
    <3>1. g \in Fetch /\ promise[g] = "pending"
      BY <2>4 DEF IInv, F!IInv, F!TypeOK, F!PollLists, F!TrackedOnce, F!Tracked, F!Listed,
                  F!Settle
    <3>2. ~F!Listed(g, jobs) /\ g \notin reacted
      BY <1>h, <3>1 DEF ReactionsOnce, Settled
    <3>3. \A f \in Fetch : Settled(f)' <=> (f = g \/ Settled(f))
      BY <3>1, <2>4 DEF IInv, F!IInv, F!TypeOK, F!Settle, Settled
    <3>4. /\ jobs' \in Seq(Fetch)
          /\ F!Once(jobs)'
          /\ \A f : F!Listed(f, jobs)' <=> (f = g \/ F!Listed(f, jobs))
      BY <1>h, <2>4, <3>1, <3>2, NewJob DEF TypeOK, ReactionsOnce
    <3> QED
      BY <1>h, <2>1, <2>2, <2>3, <3>1, <3>2, <3>3, <3>4 DEF TypeOK, ReactionsOnce
  <2>5. CASE UNCHANGED <<promise, jobs>>
    BY <1>h, <2>1, <2>2, <2>3, <2>5, ReactionsKept DEF TypeOK
  <2> QED
    BY <1>6, <2>4, <2>5 DEF PollFetches, F!ProcessPending, F!Keep, F!Collect,
                F!ProcessPendingReturns, F!lists
<1>7. CASE PollTimers
  <2>1. UNCHANGED <<fpc, promise, jobs, reacted, budget>> /\ at = "timers"
    BY <1>7 DEF PollTimers
  <2>2. \/ at' = "timers" /\ tpc' \in {"loop", "call"}
        \/ at' = "jobs" /\ tpc' = "host"
    BY <1>7 DEF PollTimers, T!ProcessPending, T!Receive, T!CallReturns, T!ProcessPendingReturns
  <2> QED
    BY <1>h, <2>1, <2>2, ReactionsKept DEF TypeOK, OneMainThread, LoopIdle
<1>8. CASE JobEnds
  <2>1. UNCHANGED <<tpc, fpc, promise, budget>> /\ at = "job" /\ at' = "jobs"
    BY <1>8 DEF JobEnds, Goto
  <2>2. jobs \in Seq(Fetch) /\ jobs # <<>> /\ F!Once(jobs)
    BY <1>h, <2>1 DEF TypeOK, LoopIdle, ReactionsOnce
  <2>3. jobs' = Tail(jobs) /\ reacted' = reacted \cup {Head(jobs)}
    BY <1>8 DEF JobEnds
  <2>4. TypeOK' /\ OneMainThread' /\ LoopIdle'
    BY <1>h, <2>1, <2>2, <2>3, FirstJob DEF TypeOK, OneMainThread, LoopIdle
  <2>5. ReactionsOnce'
    <3>1. \A f \in Fetch : Settled(f)' <=> Settled(f)
      BY <2>1 DEF Settled
    <3>2. \A f : F!Listed(f, jobs) <=> (f = Head(jobs) \/ F!Listed(f, jobs)')
      BY <2>2, <2>3, FirstJob
    <3>3. F!Once(jobs)' /\ ~F!Listed(Head(jobs), jobs')
      BY <2>2, <2>3, FirstJob
    <3> QED
      BY <1>h, <2>3, <3>1, <3>2, <3>3 DEF ReactionsOnce
  <2> QED
    BY <2>4, <2>5
<1>9. CASE Check
  <2>1. UNCHANGED <<tvars, fvars, jobs, reacted, budget>> /\ at = "check"
    BY <1>9 DEF Check, Goto
  <2>2. at' = "wait" \/ (at' = "over" /\ ~T!HasPending /\ ~F!HasPending)
    BY <1>9 DEF Check, Goto
  <2> QED
    BY <1>h, <2>1, <2>2, ReactionsKept
       DEF TypeOK, OneMainThread, LoopIdle, T!HasPending, F!HasPending
<1>10. CASE ScriptEnds \/ JobStarts \/ NoJobs
  <2>1. UNCHANGED <<tpc, fpc, promise, jobs, reacted, budget>>
    BY <1>10 DEF ScriptEnds, JobStarts, NoJobs
  <2>2. \/ at = "script" /\ at' = "jobs"
        \/ at = "jobs" /\ at' = "job" /\ jobs # <<>>
        \/ at = "jobs" /\ at' = "check" /\ jobs = <<>>
    BY <1>10 DEF ScriptEnds, JobStarts, NoJobs, Goto
  <2> QED
    BY <1>h, <2>1, <2>2, ReactionsKept DEF TypeOK, OneMainThread, LoopIdle
<1>11. CASE Wake \/ WakeUnasked
  <2>1. UNCHANGED <<tpc, promise, jobs, reacted, budget>> /\ at = "wait" /\ at' = "fetches"
    BY <1>11 DEF Wake, WakeUnasked, Goto, F!Wake
  <2>2. fpc' \in {fpc, "woken"}
    BY <1>11 DEF Wake, WakeUnasked, F!Wake
  <2> QED
    BY <1>h, <2>1, <2>2, ReactionsKept DEF TypeOK, OneMainThread, LoopIdle
<1>12. CASE CloseFetches
  <2>1. UNCHANGED <<tpc, promise, jobs, reacted, budget>> /\ at \in {"wait", "over"} /\ at' = "closing"
    BY <1>12 DEF CloseFetches, F!Close
  <2>2. fpc' = "closed"
    BY <1>12 DEF CloseFetches, F!Close
  <2> QED
    BY <1>h, <2>1, <2>2, ReactionsKept DEF TypeOK, OneMainThread, LoopIdle
<1>13. CASE CloseTimers
  <2>1. UNCHANGED <<fpc, promise, jobs, reacted, budget>> /\ at = "closing"
    BY <1>13 DEF CloseTimers
  <2>2. at' = IF tpc' = "closed" THEN "closed" ELSE "closing"
    BY <1>13 DEF CloseTimers
  <2> QED
    BY <1>h, <2>1, <2>2, ReactionsKept DEF TypeOK, OneMainThread, LoopIdle
<1>14. CASE UNCHANGED vars
  BY <1>h, <1>14, ReactionsKept DEF vars, hvars, TypeOK, OneMainThread, LoopIdle,
                                    T!HasPending, F!HasPending
<1> QED
  BY <1>1, <1>2, <1>3, <1>4, <1>5, <1>6, <1>7, <1>8, <1>9, <1>10, <1>11, <1>12, <1>13, <1>14
     DEF Next, Loop, Terminated

\* Every reachable state of the runtime satisfies IInv.
THEOREM Invariance == Spec => []IInv
  BY InitEstablishes, StepPreserves, PTL DEF Spec

\* The loop ends by itself only when nothing can happen any more, neither in
\* one manager nor in the other (timer.go:219-223, fetch.go:127-131).
THEOREM LoopEndsOnlyWhenDone == Spec => []LoopEndsDone
<1>1. IInv => LoopEndsDone
  <2> SUFFICES ASSUME IInv, at = "over"
               PROVE  /\ \A id \in T!Ids : clock[id] # "armed" /\ ~T!Alive(id)
                      /\ \A f \in Fetch : promise[f] # "unset" => f \in reacted
                      /\ jobs = <<>>
    BY DEF LoopEndsDone
  <2>1. tpc = "host" /\ fpc = "idle" /\ ~T!HasPending /\ ~F!HasPending /\ jobs = <<>>
    BY DEF IInv, OneMainThread, LoopIdle
  <2>2. \A f \in Fetch : promise[f] # "unset" => Settled(f)
    BY <2>1, QuietFetches DEF IInv
  <2>3. \A f \in Fetch : Settled(f) => f \in reacted
    BY <2>1 DEF IInv, ReactionsOnce, F!Listed
  <2> QED
    BY <2>1, <2>2, <2>3, QuietTimers DEF IInv
<1> QED
  BY <1>1, Invariance, PTL

\* In a runtime with both managers each still gives back every reference it
\* took, loses no fetch and sleeps on no result (timer.go:250-260,
\* fetch.go:65-121).
THEOREM ManagersStaySafe ==
  Spec => [](T!RefBalance /\ F!TrackedOnce /\ F!HandlesBalance /\ F!NoLostWakeup)
<1>1. IInv => T!RefBalance /\ F!TrackedOnce /\ F!HandlesBalance /\ F!NoLostWakeup
  BY DEF IInv, T!IInv, F!IInv, F!PollLists, F!SignalToCome, F!NoLostWakeup, F!Listed
<1> QED
  BY <1>1, Invariance, PTL

\* In a runtime with both managers the timers keep the contract of their four
\* functions, whatever fetches do meanwhile (timer.go).
THEOREM KeepsTimerContract == Spec => T!ContractSpec
<1>1. Init => TP!Init
  BY TimersSteps DEF Init
<1>2. [Next]_vars => [TP!Next]_(TP!vars)
  BY StepOfTimers, TimersSteps
<1>3. Spec => TP!Spec
  BY <1>1, <1>2, PTL DEF Spec, TP!Spec
<1>4. TP!Spec => TP!ContractSpec
  BY TP!ImplementsContract, EventLoopAssumption
<1>5. /\ T!Contract!Init <=> TP!Contract!Init
      /\ [T!Contract!Next]_(T!Contract!vars) <=> [TP!Contract!Next]_(TP!Contract!vars)
  BY DEF T!Contract!Init, TP!Contract!Init, T!Contract!Next, TP!Contract!Next,
         T!Contract!vars, TP!Contract!vars, T!Contract!Ids, TP!Contract!Ids,
         T!Contract!Kinds, TP!Contract!Kinds, T!Contract!Set, TP!Contract!Set,
         T!Contract!Clear, TP!Contract!Clear, T!Contract!Fire, TP!Contract!Fire,
         T!Contract!Return, TP!Contract!Return, T!Contract!Close, TP!Contract!Close,
         T!Contract!Discard, TP!Contract!Discard, T!StatusOf, TP!StatusOf, T!Ids, TP!Ids
<1>6. TP!ContractSpec => T!ContractSpec
  BY <1>5, PTL DEF T!ContractSpec, TP!ContractSpec, T!Contract!Spec, TP!Contract!Spec
<1> QED
  BY <1>3, <1>4, <1>6
=============================================================================
