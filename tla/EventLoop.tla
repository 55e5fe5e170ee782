----------------------------- MODULE EventLoop ------------------------------
(***************************************************************************)
(* One runtime with the managers of polyfill.go: the main thread, which    *)
(* runs every script, polls TimerManager and FetchManager in turn and runs *)
(* the pending jobs, until nothing is left or the host closes both with    *)
(* PolyfillManagers.Close.  The loop is the host program's (cmd/goqjs) and *)
(* is as weak as the managers' comments allow: it waits for a signal of    *)
(* NotifyChan or for some time, and it ends when neither manager has       *)
(* anything pending.                                                       *)
(***************************************************************************)
EXTENDS Integers, Sequences

CONSTANTS
  Fetch, NotifyCap,     \* as in Fetches
  MaxTimers, Capacity,  \* as in Timers
  Budgets               \* the timers and fetches a run's scripts may start

ASSUME EventLoopAssumption ==
  /\ MaxTimers \in Nat
  /\ Capacity \in Nat \ {0}
  /\ NotifyCap \in Nat \ {0}
  /\ Budgets \subseteq [timers : Nat, fetches : Nat]

VARIABLES
  counter, timers, kind, canceled, refs, clock, tgor, wg, tpending, closed, tdone, tpc, cur,
  promise, held, fgor, fdone, signals, fpending, snapshot, still, got, fpc,
  at,      \* what the host's main loop is doing
  jobs,    \* the jobs of the runtime: for a fetch, the reaction to its promise
  reacted, \* the fetches whose reaction has run
  budget   \* what scripts may still start

T == INSTANCE Timers WITH gor <- tgor, pending <- tpending, done <- tdone, pc <- tpc
F == INSTANCE Fetches WITH gor <- fgor, pending <- fpending, done <- fdone, pc <- fpc

tvars == <<counter, timers, kind, canceled, refs, clock, tgor, wg, tpending, closed, tdone, tpc, cur>>
fvars == <<promise, held, fgor, fdone, signals, fpending, snapshot, still, got, fpc>>
hvars == <<at, jobs, reacted, budget>>
vars == <<tvars, fvars, hvars>>

Init ==
  /\ T!Init
  /\ F!Init
  /\ at = "script"
  /\ jobs = <<>>
  /\ reacted = {}
  /\ budget \in Budgets

-----------------------------------------------------------------------------
(* Scripts run in the first evaluation, in jobs, in the callbacks of timers *)
(* and in accessors that settling a fetch comes upon.                       *)

JSRunning == at \in {"script", "job"} \/ tpc = "call" \/ (fpc = "settle" /\ got = "ok")

StartTimer ==
  /\ JSRunning
  /\ budget.timers > 0
  /\ T!SetTimeout \/ T!SetInterval
  /\ budget' = [budget EXCEPT !.timers = @ - 1]
  /\ UNCHANGED <<fvars, at, jobs, reacted>>

ClearTimer ==
  /\ JSRunning
  /\ \E id \in T!Ids : T!ClearTimeout(id) \/ T!ClearInterval(id)
  /\ UNCHANGED <<fvars, hvars>>

StartFetch ==
  /\ JSRunning
  /\ budget.fetches > 0
  /\ \E f \in Fetch : promise[f] = "unset"
  /\ F!CallFetch(CHOOSE f \in Fetch : promise[f] = "unset")
  /\ budget' = [budget EXCEPT !.fetches = @ - 1]
  /\ UNCHANGED <<tvars, at, jobs, reacted>>

TimerGoroutines(id) == (T!Fire(id) \/ T!Goroutine(id)) /\ UNCHANGED <<fvars, hvars>>
FetchGoroutine(f) == ((\E r \in F!Results : F!Complete(f, r)) \/ F!Notify(f)) /\ UNCHANGED <<tvars, hvars>>

-----------------------------------------------------------------------------
(* The host's loop.                                                         *)

Goto(from, to) == at = from /\ at' = to

ScriptEnds ==
  /\ Goto("script", "jobs")
  /\ UNCHANGED <<tvars, fvars, jobs, reacted, budget>>

(* FetchManager.ProcessPending, every step of it; settling a promise makes  *)
(* the job of its reaction.                                                 *)
PollFetches ==
  /\ at = "fetches"
  /\ \/ F!ProcessPending /\ at' = (IF fpc' = "idle" THEN "timers" ELSE at) /\ UNCHANGED jobs
     \/ (F!Keep \/ F!Collect) /\ UNCHANGED <<at, jobs>>
     \/ F!Settle /\ jobs' = Append(jobs, Head(snapshot)) /\ UNCHANGED at
     \/ F!ProcessPendingReturns /\ at' = "timers" /\ UNCHANGED jobs
  /\ UNCHANGED <<tvars, reacted, budget>>

(* TimerManager.ProcessPending, every step of it.                           *)
PollTimers ==
  /\ at = "timers"
  /\ \/ (T!ProcessPending \/ T!Receive \/ T!CallReturns) /\ UNCHANGED at
     \/ T!ProcessPendingReturns /\ at' = "jobs"
  /\ UNCHANGED <<fvars, jobs, reacted, budget>>

(* Runtime.ExecutePendingJob until there is none.                           *)
JobStarts ==
  /\ jobs # <<>>
  /\ Goto("jobs", "job")
  /\ UNCHANGED <<tvars, fvars, jobs, reacted, budget>>

JobEnds ==
  /\ Goto("job", "jobs")
  /\ reacted' = reacted \cup {Head(jobs)}
  /\ jobs' = Tail(jobs)
  /\ UNCHANGED <<tvars, fvars, budget>>

NoJobs ==
  /\ jobs = <<>>
  /\ Goto("jobs", "check")
  /\ UNCHANGED <<tvars, fvars, jobs, reacted, budget>>

(* The loop ends when both managers say that nothing is pending.            *)
Check ==
  /\ IF T!HasPending \/ F!HasPending THEN Goto("check", "wait") ELSE Goto("check", "over")
  /\ UNCHANGED <<tvars, fvars, jobs, reacted, budget>>

(* The host wakes for a signal and, while timers are pending, from time to  *)
(* time; it may also poll unasked, but nothing may depend on that.          *)
Wake ==
  /\ Goto("wait", "fetches")
  /\ F!Wake \/ (T!HasPending /\ UNCHANGED fvars)
  /\ UNCHANGED <<tvars, jobs, reacted, budget>>

WakeUnasked ==
  /\ Goto("wait", "fetches")
  /\ UNCHANGED <<tvars, fvars, jobs, reacted, budget>>

Loop == ScriptEnds \/ PollFetches \/ PollTimers \/ JobStarts \/ JobEnds \/ NoJobs \/ Check \/ Wake

-----------------------------------------------------------------------------
(* PolyfillManagers.Close, when the loop is over or the host gives up.      *)

CloseFetches ==
  /\ at \in {"wait", "over"}
  /\ F!Close
  /\ at' = "closing"
  /\ UNCHANGED <<tvars, jobs, reacted, budget>>

CloseTimers ==
  /\ at = "closing"
  /\ T!CloseStore \/ T!Closing
  /\ at' = IF tpc' = "closed" THEN "closed" ELSE at
  /\ UNCHANGED <<fvars, jobs, reacted, budget>>

Terminated ==
  /\ at = "closed"
  /\ UNCHANGED vars

Next ==
  \/ StartTimer
  \/ ClearTimer
  \/ StartFetch
  \/ \E id \in T!Ids : TimerGoroutines(id)
  \/ \E f \in Fetch : FetchGoroutine(f)
  \/ Loop
  \/ WakeUnasked
  \/ CloseFetches
  \/ CloseTimers
  \/ Terminated

(***************************************************************************)
(* Fairness.  The Go runtime runs every goroutine that can proceed, and a  *)
(* channel serves its blocked senders first come, first served (SF); every *)
(* request ends, because the client has a timeout; scripts return; the     *)
(* host goes on with its loop, receives the signals there are, and goes on *)
(* with a Close it has begun.  Nothing makes a script start or clear       *)
(* anything, and nothing makes the host close.                             *)
(***************************************************************************)
Fairness ==
  /\ \A id \in T!Ids :
       WF_vars(TimerGoroutines(id)) /\ SF_vars(T!Send(id) /\ UNCHANGED <<fvars, hvars>>)
  /\ \A f \in Fetch :
       /\ WF_vars(FetchGoroutine(f))
       /\ SF_vars(F!Notify(f) /\ UNCHANGED <<tvars, hvars>>)
  /\ WF_vars(Loop)
  /\ WF_vars(CloseTimers)

Spec == Init /\ [][Next]_vars /\ Fairness

-----------------------------------------------------------------------------
(* The loop ends by itself only when nothing can happen any more: no timer  *)
(* is armed, no goroutine of a timer is alive, every promise of fetch is    *)
(* settled and its reaction has run.  Neither manager alone knows: a        *)
(* callback of one starts what the other one tracks                         *)
(* (timer.go:219-223, fetch.go:127-131).                                    *)
LoopEndsDone ==
  at = "over" =>
    /\ \A id \in T!Ids : clock[id] # "armed" /\ ~T!Alive(id)
    /\ \A f \in Fetch : promise[f] # "unset" => f \in reacted
    /\ jobs = <<>>

-----------------------------------------------------------------------------
(* The inductive invariant of EventLoopProofs, beside those of Timers and   *)
(* of Fetches.                                                              *)

TypeOK ==
  /\ at \in {"script", "fetches", "timers", "jobs", "job", "check", "wait", "over", "closing", "closed"}
  /\ jobs \in Seq(Fetch)
  /\ reacted \subseteq Fetch
  /\ budget \in [timers : Nat, fetches : Nat]

(* The managers' view of the one main thread agrees with the host's.        *)
OneMainThread ==
  /\ at = "timers" => tpc \in {"host", "loop", "call"}
  /\ at \notin {"timers", "closing", "closed"} => tpc = "host"
  /\ at = "closed" => tpc = "closed"
  /\ at \in {"closing", "closed"} => fpc = "closed"
  /\ at = "fetches" => fpc # "closed"
  /\ at \notin {"fetches", "closing", "closed"} => fpc = "idle"

(* A fetch has reacted, or its reaction is a job, once, if and only if its  *)
(* promise is settled.                                                      *)
Settled(f) == promise[f] \in {"fulfilled", "rejected"}

ReactionsOnce ==
  /\ \A f \in Fetch : Settled(f) <=> (f \in reacted \/ F!Listed(f, jobs))
  /\ \A f \in reacted : ~F!Listed(f, jobs)
  /\ F!Once(jobs)

(* The loop checks and waits when no job is left, and is over when neither  *)
(* manager has anything pending.                                            *)
LoopIdle ==
  /\ at = "job" => jobs # <<>>
  /\ at \in {"check", "wait", "over"} => jobs = <<>>
  /\ at = "over" => ~T!HasPending /\ ~F!HasPending

IInv ==
  /\ T!IInv
  /\ F!IInv
  /\ TypeOK
  /\ OneMainThread
  /\ ReactionsOnce
  /\ LoopIdle

-----------------------------------------------------------------------------
(* Close returns, whatever the goroutines of both managers are doing: those *)
(* of fetches that block on the signal are not waited for (polyfill.go:14). *)
CloseTerminates == (at = "closing") ~> (at = "closed")

(* After Close every goroutine of a timer ends (timer.go:72-91).            *)
GoroutinesEnd == closed ~> (\A id \in T!Ids : ~T!Alive(id))

(* A timeout that nobody clears runs, unless the managers are closed first: *)
(* its closure is never dropped because the channel is full, and polling    *)
(* fetches does not keep the loop from it (timer.go:72-91).                 *)
TimeoutRuns ==
  \A id \in T!Ids : (T!StatusOf(id) = "timeout") ~> (T!StatusOf(id) # "timeout" \/ at = "closed")

(* An interval that nobody clears runs again and again (timer.go:143-174).  *)
IntervalRuns ==
  \A id \in T!Ids : (kind[id] = "interval") ~> (cur = id \/ canceled[id] \/ at = "closed")

(* Every fetch is answered: its promise is settled and the reaction runs,   *)
(* unless the managers are closed first, if polls of the timers return.     *)
(* They do unless intervals refill the channel as fast as it is drained:    *)
(* the drain loop has no bound (timer.go:205).                              *)
PollsReturn == []<>(tpc # "loop" /\ tpc # "call")
EveryFetchAnswered ==
  PollsReturn =>
    \A f \in Fetch : (promise[f] = "pending") ~> (f \in reacted \/ at = "closed")

=============================================================================
