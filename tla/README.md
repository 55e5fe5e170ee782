# A TLA+ model of goqjs

goqjs embeds the QuickJS engine in Go and gives its scripts timers, `fetch` and
other Web APIs written in Go. This directory models the parts of it where
goroutines, channels, callbacks, jobs and reference counts meet: the managers
written in Go, the registries between Go and C, the prelude in JavaScript, and in
the engine itself the promise machinery and the garbage collector. TLC checks the
models, and TLAPS proves every safety property of them for all values of the constants.

## The system

| component | state it keeps | operations | hard behaviour | correct when |
|---|---|---|---|---|
| **TimerManager** `polyfill/timer.go` | map of timers, counter, channel of 256 closures, `closed`, `done`, wait group; per timer a clock, a goroutine, a `canceled` flag and a reference to the callback | the four script functions; `ProcessPending`, `HasPending`, `Close` by the event loop; the timer goroutines | goroutines race with clears and with `Close`; a full channel; callbacks that set and clear timers while a closure runs | each reference freed once; nothing runs after a clear or a close; a timeout runs once; `Close` returns; no timer is forgotten |
| **FetchManager** `polyfill/fetch.go` | list of in-flight fetches, each with two function handles and a one-place result channel; a signal channel of 64 places | `fetch`; `ProcessPending`, `HasPending`, `NotifyChan`, `Close`; one goroutine per request | results and signals are two steps; scripts run inside a poll; `Close` with requests in flight | no fetch lost or doubled; handles freed once; the loop never sleeps on a result |
| **PolyfillManagers, host loop** `polyfill/polyfill.go`, `qjs/runtime.go` | the two managers, the queue of jobs | `InjectAll`, `Close`, `ExecutePendingJob` | a callback of one manager starts what the other tracks; order of closing; starvation of one manager by the other | the loop ends only when nothing is left; both managers get their turn; `Close` returns |
| **Go function registry** `qjs/function.go`, `bridge.go`, `context.go`, `runtime.go` | global maps id → Go function and C context → Go context; per context its ids | create a function, call it from C, close a context | address reuse after a context is freed; calls after close; growth | a call reaches the function and the context it was made for |
| **Value handles** `qjs/value.go` | references to JavaScript values held by Go | `Dup`, `Free`, `Get`, `Set`, `Call`, conversions | ownership passes to the callee in some calls only; a failed conversion leaves an exception pending | every reference given back once |
| **C bridge** `qjs/bridge.c` | the runtime's stack top | `eval`, `call` on a fresh 64 MB thread | nesting through Go callbacks; goroutines that change threads | the overflow check measures the running stack |
| **lx prelude** `js/lx_prelude.js` | event handlers, sources, `aborted` flags | `request`, `send`, `on`, `_dispatch` | thenables, throwing callbacks, cancelling | one answer per dispatch, at most one callback per request |
| **QuickJS heap** `qjs/quickjs.c` | a count, a mark and a list for every object; weak records; finalization entries and jobs | `JS_FreeValue`, `free_zero_refcount`, `JS_RunGC`, `WeakRef`, `WeakMap`, `FinalizationRegistry`, `JS_FreeRuntime` | a collector that subtracts and restores counts; objects dying in the middle of it; records linked from three sides | counts exact, nothing dangles, what can be reached is kept, what cannot is freed, finalizers told once |
| **QuickJS promises** `qjs/quickjs.c` | per promise a state, a result, reactions and pairs of resolving functions; the queue of jobs; suspended frames; the request queue of an async generator | resolving functions, `then`, `finally`, static methods, combinators, `await`, generators, `JS_ExecutePendingJob` | resolving functions called late, twice or by several owners; thenables; scripts called in the middle of native loops | a promise settles once; callbacks run once and in order; suspended code is continued exactly once |
| **QuickJS, the rest** `qjs/` | the engine | parser, interpreter, other built-ins, regular expressions, Unicode, numbers | | |
| codecs: encoding, Buffer, URL, crypto, zlib, console | none | conversions | invalid input | decoding inverts encoding |

How they interact: one thread, *main*, runs every script and makes every call
into QuickJS. A script calls Go functions (`goInvokeFunction`), which start
goroutines; a goroutine never touches a JavaScript value, it only sends on a
channel; the event loop of the host program (`cmd/goqjs`, which is not part of
the repository) polls `TimerManager.ProcessPending`,
`FetchManager.ProcessPending` and `Runtime.ExecutePendingJob`, which run scripts
again. The engine queues a job for every reaction of a settled promise, for every
thenable a promise is resolved with and for every finalization; Go values and
scripts share its reference counts. At the end the managers are closed, then the
context, then the runtime.

## Modules

**`Timers`** models all of `timer.go`. A timer is its id. `timers`, `canceled`,
`pending`, `closed`, `done`, `wg` and `counter` are the fields of the same names;
`kind` is `entry.interval`, `clock` is `entry.timer` or `entry.ticker`, `refs` counts
the references to `entry.fn` that the manager owns, `gor` and `pc` are the program
counters of the goroutines and of main. The critical sections of `tm.mu` contain
no blocking operation, so each is one step; everything between two of them is a
step of its own: the interval goroutine's two checks and its send, the five
stages of `Close`, the receipt of a closure up to the callback (`Receive`), and its
end (`CallReturns`). While a callback runs (`pc = "call"`) the script may set and
clear timers. Time is abstracted: an armed clock may go off at any moment. The
calls that do nothing (no argument, an unknown id) are stuttering steps.

**`TimerContract`** is what a script is promised, without goroutines: a timer is
set once, runs only while set, uncleared and open, a timeout runs at most once,
callbacks do not overlap. `Timers!ContractSpec` is the refinement mapping.

**`Fetches`** models the asynchronous part of `fetch.go`. `promise` is the state of
the promise returned, `held` counts the resolve/reject pairs the manager owns,
`done` is the result channel, `signals` the length of `fm.notify`; `snapshot` and
`still` are `ProcessPending`'s local lists. `Complete` stands for the whole request:
a response whose body was read, or one of the three errors. Scripts run between
polls and also inside one (`JSRunning`): building a Response and resolving with it
looks up properties that a script may have replaced by accessors, and that script
may call `fetch`. The host is modelled by the weakest loop `NotifyChan`'s comment
asks for: it receives a signal and then polls (`Wake`), and it may poll unasked.

**`Registry`** models the two global tables through which JavaScript calls Go.
`fnCounter`, `fnRegistry`, `ctxRegistry` and `fns` are the code's; `memory` is the C
allocator's view (which JSContext is at an address), `address`, `owner` and `state`
describe each Context, `jobs` are pending jobs that will call a Go function. Every
runtime has a thread (`pc`, `caller`, `settler`, `callee`, `goCtx`): the locks are held for one
access, so creating a context, each iteration and each stage of `Context.Close`,
and the two look-ups of `goInvokeFunction` are steps that interleave with the
threads of other runtimes. A JSContext that was closed stays in memory while a
script function of it runs or is the handler of a job (`Needed`): a function's bytecode has a
reference to its realm. After that it may go (`Reclaim`) and its address be given to
another. A job itself has no reference: `JS_EnqueueJob` stores the address of the
context with which the promise was settled (`Settles`, `QueueJob`). A script function that is its handler
switches to its own realm; a Go function that is its handler keeps that address for its caller
(`Calling`), and so `FindContext` looks up whatever context is there by then, of this
runtime or of another. Freed memory may also make the call fail (`Return`) or crash the
process, which needs no action, for the specification lets everything stop at any time;
while it is not used again it still names its old runtime (`RuntimeAt`). The registration of
a function is one step, because its id is known to nobody else before. The host uses
contexts that are open, and does not close one from inside a Go function.

**`LxPrelude`** models the asynchronous half of `lx_prelude.js` over the engine's queue
of promise jobs. `aborted` is the flag of the same name; `fetch`, `chain` and `handler`
are the outcomes of the promise of `fetch`, of the request's chain and of what a
handler returned; `calls` and `replies` record what the callback and `__goqjs_send`
were given. A job of a request is one of five: the first `then` (`Respond`), the inner
one (`Body`, which starts the callback), the two by which the outer promise follows the
inner (`Adopt`, `Adopted`) and the `catch`. Scripts run between jobs and as callbacks.

**`EventLoop`** composes `Timers` and `Fetches` (both by `INSTANCE`) with the queue of
jobs, `PolyfillManagers.Close` and the host's loop. `at` is the host's program
counter, `jobs` holds the reactions of settled fetches, and `budget` bounds the timers
and fetches that scripts start. Scripts run in the first evaluation, in jobs, in the
callbacks of timers and in accessors met by a poll. The loop, which is not in the
repository, is as weak as the comments of the managers allow: it polls, runs the
jobs, asks both `HasPending`, and waits for a signal or, while timers are pending, for
some time. The reaction of a fetch is one job that settles nothing else.

**`Heap`** models reference counts and their collector. An object is the block it
lives in, so addresses are used again. `rc`, `mark` and `list` are the fields of
`JSGCObjectHeader`; `slot` holds a plain object's properties, a closure's captured
variable, the value of a captured variable (`JSVarRef`) or a registry's callback;
`records` are the records of weak maps (whose values belong to the keys in this
engine), `target` and `entry` the data of `WeakRef` and of registrations. `handles` are
the references of Go values and of running scripts; the actions of `Mutate` say
which calls duplicate, take over or free one (`Set` takes over also when it fails).
`FreeObject` is `free_object` with `reset_weak_ref` and the finalizers, and one step;
`free_zero_refcount` and the loops of `JS_RunGC` are steps per object, in any order:
gc_decref (`RunGC`), gc_scan (`Scan`, `Restore`), gc_free_cycles (`FreeCycle`, `EndGC`). The
collector may run whenever C code may call it. `FreeRuntime` starts `JS_FreeRuntime`.

**`Promises`**, **`Combinators`**, **`Coroutines`** and **`Async`** model the asynchronous half
of `quickjs.c`. The engine is one record, `eng`: each promise's state, result and
reactions, how many pairs of resolving functions were made for it (`pairs`), which of
them are used (`resolved`, the shared `already_resolved`), and the job queue. Each C
operation is an operator from engine to engine (`ResolvingCall`, `Then`, `Wrap`,
`Settle`), so that its callers compose them as the C functions call each other.
`stack` holds the calls of script functions by native code, innermost first; while
one runs, the script may do anything it still has in `script.left`, with the promises
and functions it holds (`held`). `Combinators` has the loop over the iterable with the
script's iterator and own `then` methods (`Hook`) in the middle of it; `Coroutines` has
async functions (`act` is `JSAsyncFunctionData`) and one async generator (`gen` is
`JSAsyncGeneratorData`), whose `resume_next` loop is a step per round because the body
may make requests to its own generator. `Async` puts them together over one queue and
states the inductive invariant. `MaxItems` bounds the items of one iterable.
A promise is one with the intrinsic constructor; errors are one value; two promises of the engine differ by name only.

**`MCFetches`**, **`MCRegistry`**, **`MCEventLoop`**, **`MCHeap`** and **`MCAsync`** give TLC the
instances, with their symmetry. **`TimersProofs`**, **`FetchesProofs`**,
**`EventLoopProofs`**, **`RegistryProofs`**, **`LxPreludeProofs`**, **`HeapProofs`**,
**`AsyncProofs`** and **`ReactionProofs`** hold the proofs.

Definitions marked *mutant* are the code with a likely slip; the specification
uses none of them. Each stands for the mistake that one of the properties is
there to notice (`PROJECT.json`, "mutants").

## Runs

| run | bounds | shows |
|---|---|---|
| `timers_safety` | 3 timers, channel of 2 | the inductive invariant, `RefBalance`, `IntervalOutlived`, `HasPendingComplete`, and that `Timers` implements `TimerContract` |
| `timers_haspending` | 2 timers, channel of 1 | *violation*: a timer cleared before it fired keeps `HasPending` true until `Close` (the comment at `timer.go:218`) |
| `timers_closewaits` | 2 timers, channel of 1 | *violation*: `Close` returns while a timeout's goroutine is still in its select (the comment at `timer.go:225`) |
| `fetches_safety` | 4 requests, 2 signals | the inductive invariant, `TrackedOnce`, `HandlesBalance`, `HasPendingExact`, `NoLostWakeup` |
| `fetches_notify` | 3 requests, 1 signal | *violation*: a goroutine blocks on a full `notify` (the comment at `fetch.go:55`) |
| `event_loop` | 1 timer beside 2 fetches, or 2 timers; channels of 1 | `LoopEndsDone`; under fairness `CloseTerminates`, `GoroutinesEnd`, `TimeoutRuns`, `IntervalRuns`, `EveryFetchAnswered` |
| `registry_safety` | 2 runtimes, 3 contexts, 2 addresses, 2 functions, 2 pending jobs | the inductive invariant, `ContextsListed`, `CallsOpenContext`, `FunctionsTracked` |
| `heap` | 5 heaps of 3 to 5 objects, 2 handles to an object, 1 registration | `CountsExact` (with the types), `NothingDangles`, `ReachableKept`, `GarbageCollected`, `FinalizationDelivered` |
| `async` | 5 promises, 11 scripts | the inductive invariant, `OneResolver`, `SettledOnce`, `CallbacksInOrder`, `OutcomesFollow`, `NothingForgotten`, `CombinatorSound`, `OneContinuation`, `GeneratorServes` |
| `async_generator` | the same | *violation*: of two requests to a generator that has ended one is answered (ES2023, promised at `README.md:7`) |
| `lx_prelude` | 2 requests, 1 dispatch | the inductive invariant, `CallbackDiscipline`, `AnswersFit`, `CancelledIsSilent`, `EveryRequestCalls`, `EveryPromiseAnswered` |
| `lx_one_answer` | 1 request, 1 dispatch | *violation*: two answers for a thenable whose `then` returns nothing (the comment at `lx_prelude.js:203`, `README.md:110`) |

Why the bounds are enough. Three timers give two that compete for the channel
and one that a callback sets or clears meanwhile; a channel smaller than the
number of timers is full in many states, which the code's 256 reaches only under
load. With four requests one may be in each of the lists while a script starts
another, and the signal channel overflows. In the loop, two fetches compete for one
signal while a timer's callback starts either of them, and two timers compete for
one place of the channel while `Close` waits for an interval.
With fewer addresses than contexts an address is used again while jobs of its first
context may be pending, by the same or by the other runtime; two functions let a context
lose them one by one, or be called through another's, and two jobs let one be queued by
a job whose own settler was freed. Dispatches share nothing but the queue, so one
beside two requests shows every order of their jobs.
The heaps are the graphs of three plain objects (chains, cycles, a cycle with a tail),
two closures that share a variable beside two objects it may refer to, and each weak
construct with two objects that may be its target, its key or value, and refer to
each other and to it: what one free_object does to the records of another needs no
more. Two references from outside tell "one is left" from "none".
The eleven scripts of `async` each exercise a part of the engine: chains of
`then` and `finally`, resolving functions called twice and with promises, thenables
and values whose `then` throws, each combinator over up to two items (`MaxItems`), two async
functions with two awaits, and a generator with up to four requests, each operation
in every order and from every place where a script runs. Five promises are one for
each end of the chains these scripts build; an operation that would need a sixth is
not taken. The safety results listed under Proofs hold for every bound.

Deadlock is checked in every run but the two of `Async`, whose scripts run out of
operations: the only states without a step of their own are those where a manager
is closed and its goroutines have ended (or, for `Fetches`, wait for ever on `notify`),
those where every runtime has been closed or freed, and those where the loop has
no job left.

## Fairness

`EventLoop`: a clock goes off and a goroutine that can proceed does (weak fairness:
the Go scheduler); a sender that finds room again and again gets through
(strong fairness: a Go channel serves its blocked senders in turn); every request
ends (the default client has a timeout of 30 s); the host goes on with its loop,
callbacks return, the signals there are get received, and a `Close` that has begun
goes on. Nothing forces a script to set or clear a timer, the host to poll unasked
or to close. `EveryFetchAnswered` assumes in addition that polls of the timers return
(`PollsReturn`): the loop of `TimerManager.ProcessPending` has no bound, and intervals
that refill the channel as fast as their callbacks run keep it, and every fetch,
waiting for ever. `LxPrelude`: the loop runs the jobs there are, every fetch settles
(`EveryFetchAnswered`) and every callback comes to an end. The other modules have no
liveness property: `NothingForgotten` and `CombinatorSound` say for the engine what
has happened when no job is left, and `GarbageCollected` what a collection has done
when it ends.

## Proofs

Assumptions: `TimersAssumption` (a natural number of timers, a positive capacity),
`FetchesAssumption` (a positive capacity), `EventLoopAssumption` (both), `RegistryAssumption`
(a natural number of functions, and a `None` that is nothing else), `HeapAssumption`
(the classes of objects are disjoint, `None` is no object and a registration neither an
object nor a property; the properties, the registrations and the objects of a program
are finitely many; a reference can be held), `PromisesAssumption` (a value is a promise, a
plain value, a thenable or one whose `then` throws, and only one of them; `None` is neither a
promise nor a pair; scripts begin with values that are not promises), `CombinatorsAssumption`
(`Hook` is no other value, the array a combinator resolves with has no `then`, the bound on
items is a natural number) and `AsyncAssumption` (`None` is not an outcome). Each
`Invariance` (`FullInvariance` in `ReactionProofs`) is `Spec => []IInv`, and the other
theorems of its module follow from it; that of `AsyncProofs` is `Spec => []Base`, of the first
part of that invariant.

*Timers.* `IInv` is inductive (`InitEstablishes`, `StepPreserves`). `RefBalance`
alone is not: that a closure freed its function once depends on the callback
being run having left the map (`CurrentEntry`), on ids not yet handed out leaving
no trace (`IdsInOrder`), and on main's program counter (`MainThread`).
`IntervalOutlived` needs the wait group to count exactly the goroutines alive.
`HasPendingComplete` needs `TimeoutPath`: a timeout is in its clock, its goroutine
or the channel, never in two of them, and its entry stays until it is received.
From `IInv`: `TypeCorrect`, `ReferencesBalance`, `IntervalsAreOutlived`,
`CloseLeaksNothing`, `HasPendingIsComplete`; and `ImplementsContract`, by mapping
each step to a step of `TimerContract` or a stutter (`StepRefines`).

*Fetches.* The lists are handled by four lemmas on membership and repetition
(`ListAppend`, `ListTail`, `ListJoin`, `ListEmpty`). `TrackedOnce` is preserved with
`PollLists` and `RequestPending`. `NoLostWakeup` is strengthened to `SignalToCome`:
during a poll, a result that the poll will not see any more has its signal still
to come; no count of signals is needed, because none is received during a poll.

*EventLoop.* What was proved of the two managers is not proved again. A step of the
composition is one of `Timers` or leaves its variables alone, and the same for `Fetches`
(`ImplementsTimers`, `ImplementsFetches`); `TimersProofs` and `FetchesProofs` are then instantiated
at the composition's variables (`TP`, `FP`), so their theorems hold in it
(`ManagersStaySafe`, `KeepsTimerContract`). `LoopEndsDone` needs both invariants, since "nothing
pending" means "no goroutine, closure or result on its way" only through them, and
three facts of the loop itself: where main is in each manager (`OneMainThread`), that a
settled fetch has reacted or has one job (`ReactionsOnce`), and that no job was queued
since the loop last ran them (`LoopIdle`).

*Registry.* The induction rests on who may take what away: a thread works on a
context of its own runtime whose JSContext exists (`ThreadsInPlace`), only that
thread closes it (`ContextsInPlace`), its entry goes before its memory
(`EntriesInPlace`), and a function is tracked by its maker alone (`IdsInOrder`). So
between the two look-ups of a call nothing changes for it (`CallsInPlace`), whatever
the other threads do. `JobsInPlace` keeps the JSContext of a job's script function in
memory, and says nothing of its settler's. `CallsInPlace` therefore has two cases: the
Context found is the open one of the caller, or the call is a job's own and its settler
is gone, which nothing can undo, for a context is never made twice.

`CallsOpenContext` states that exception because the code has it: when one context settles a
promise of another whose handler is a Go function, and is closed and freed before the job
runs, `goInvokeFunction` hands that function whichever Context has the address, and TLC
reaches states where it is another runtime's. No document of the repository says that
this cannot happen, so there is no finding; one context for each runtime, which is what the
command-line program has, or running the jobs before `Context.Close`, avoids it.

*LxPrelude.* The proof sees the queue as the set of its members and the order
between them that matters: an inner `then` comes before the adoption it precedes
(`JobsInOrder`). Lemmas turn each step's operation on the sequence into one on the
set (`QueueAppend`, `QueueTail`, and `NextNone`, `NextOne`, `NextTwo` for a job that
queues none, one or two). `RequestInPlace` says which jobs of a request can be queued
together and what has been called by then: `CallbackDiscipline` alone allows a
second `Body` or a `Catch` beside one. `DispatchInPlace` does the same for `AnswersFit`.
`LxPrelude` has no constants but its two sets, of which nothing is assumed.

*Heap.* `CountsExact` says what a count is while it says nothing of who may change it, so
it is not inductive: a freed object's references would be subtracted again if it kept
them (`Emptied`), one that the weak tables still name would be found again (`Weak`), a
block used again would start with somebody's references (`Unreferred`), and a captured
variable, which has no handle, must go exactly with its last closure (`Captured`). The
collector needs one part for each loop: which list an object is on, what its mark and its
count then mean, and that nothing but garbage refers to garbage (`Running`, `Zeroing`,
`Scanning`, `Cycling`); `Queue` ties registrations to their jobs. Counts are cardinalities,
so the proof adds and subtracts sets: lemmas say what a set of references loses and gains
when a field is written or a record, a registration or a job comes or goes (`CountMinus`,
`CountChange`, `SlotWritten`, `RecordRemoved`, `EntryAdded`, `JobTaken`, `PendingTail`), and each
action of the script is one that takes a reference over, writes it or gives it back
(`TakingKeeps`, `WritingKeeps`, `GivingBackKeeps`). `free_object` is the hard step: `DyingCounts`
shows that the references removed in it, from properties, records, entries and jobs at
once, are exactly those it subtracts, and `DyingStructure` that what is left is consistent.
From `IInv`: `CountsAreExact`, `NothingEverDangles`.

`Reachable` is the value of a recursive function, about which the library's induction
theorems cannot speak. `Intervals` replaces them: a set of numbers that has 0, and with n
also n + 1, has all up to N, shown by counting. With it the function exists (`ChainExists`), its
last value is closed under references (`ReachClosed`: a chain of sets that grows at every step
outgrows the universe) and in every closed set that has the roots (`ReachLeast`). `ReachableIsKept`
then says that an object about to be freed is not in the least closed set: its count is zero,
or it is garbage, which only garbage refers to. `GarbageIsCollected` needs a second invariant,
`Tracing`: while gc_scan runs, what is back on gc_obj_list is reachable, and a runtime being
freed has no roots left. `FinalizationIsDelivered` is proved as it is checked, with the exception the
code makes: when the runtime is being freed, reset_weak_ref queues nothing.

*Promises, combinators, coroutines.* The first half of `AsyncProofs` says of each engine
operation what it preserves, whatever the handlers and values of the program that uses it.
The other half composes these lemmas over every action for the first three parts of the
invariant, and `ReactionProofs` for the reactions of scripts and of combinators. The bounds on
the promises and the items and the choice of scripts do not matter: the theorems hold for
any. The invariant has six parts, which were found, and are proved, in this order.

- `Base`. `OneResolver` alone is not inductive: that a call of an old pair does nothing
  depends on all pairs but the last being used, and that a used last pair leaves the
  promise settled or with one thenable job depends on that job being unique (`Once`).
  With the types, and with reactions and jobs referring only to pairs that were made,
  this is `Good`; `Grows` (outcomes and pairs stay) gives `SettledOnce`. For suspended code,
  `Keeps` says that an operation which does not mention a handler leaves it where it was:
  on one reaction, on both sides, or in one job (`Alone`), with the outcome it was
  registered for (`CalledFor`). `Referred` keeps the pairs in frames, activations and
  requests made; `Stacked` says that a generator's body stands on the loop that entered
  it and that each loop and each activation has one frame, which needs `EnterLoop`'s
  check; `Activated` and `Generating` tie the state of an activation and of the generator
  to what will continue them.
- `Owning`. The resolving functions of a call whose body has not ended, and of a request
  in the queue, are unused, different from each other, and referred to by nobody else:
  no script, job, reaction, frame or combinator. Without this a script could settle the
  promise of an async function before its body ends, and `OneContinuation` fails.
- `GeneratorServes`, with `Iterating`: until it has ended a generator has only been iterated,
  so what is answered afterwards can be told from the order of the answers.
- `Reacting`. Every reaction a script registered keeps its place. `Tied` says that only this
  reaction, or the job made of it, refers to the pair of the promise that `then` returned;
  `Due` that it is on its promise while that is pending and in the queue afterwards.
  `Straight` says the same of a promise that was resolved with another one and follows it
  (`Chained`); `Sequenced` that reactions, jobs and callbacks that have run are in the order
  of registration and carry the outcome of their promise; `Apart` that no one but the
  callback that serves the registration holds such a pair (`Kept`); `Distinct` that no two
  registrations share one; `Derived` where a registration stands between being made and its
  promise being resolved, and for `finally` that the outcome will be restored (`Restores`).
- `Combining`. `CombinatorSound` says what the result is when it has one, and nothing of how far
  the combinator has come. `Counting` relates the count, the loop, the flags and the values:
  the count is that of the items that have not reported, and one more until the loop has
  ended. `Gathering` names the promise each item was made (`Becomes`), whose reaction is `Due`, or
  has reported its outcome, or comes too late; and says that these are the only reactions
  and jobs that call the element functions or those of the result (`Gathers`), so no item
  can report twice and nothing else can resolve it. `Secluded` adds that no script and no
  frame refers to the result's functions, but for the `then` methods they were given to, and
  `Decided` that what native code resolves the result with settles it at once.

A step that calls or registers none of the kept pairs preserves `Reacting` by one
lemma for all (`Tending`: an engine that changes elsewhere). What is left are the steps that do:
a callback or a `finally` function ends, a reaction without a handler passes its outcome
on, a job calls a settler, a thunk or a `then`, a reaction is registered.

A step outside a combinator preserves `Combining` if it neither mentions its functions nor
pops one of its jobs (`Calm`, `CombiningStays`); the steps inside it are a round of the loop, its
three ends, and a call of an element function or of a function of the result, from a job
or from a script's `then` method (`ElementCalled`, `ResultCalled`).

From `Base`: `TypeCorrect`, `OneResolverAtATime`, `SettledForGood` and `ContinuedOnce`. From
`IInv`: `SuspendedOnce` (`OneContinuation`), `RequestsServedInOrder` (`GeneratorServes`),
`CallbacksRunInOrder` (`CallbacksInOrder`), `OutcomesAreFollowed` (`OutcomesFollow`),
`NothingIsForgotten` (`NothingForgotten`: when the queue and the stack are empty nothing can be
`Due`, so a settled promise has run its callbacks and resolved what depends on it) and
`CombinatorsAreSound` (`CombinatorSound`: by `Gathering` and the same argument every item has then
reported, so the count is zero, and the result was resolved).

Only model-checked: the liveness properties of `EventLoop` and `LxPrelude`, for fairness is out
of the prover's reach. Every invariant and every action property that a run checks is also
a theorem.

## Plan

1. `Timers`, `TimerContract`, `Fetches`, `Registry`, `LxPrelude` with their proofs (done).
2. `EventLoop`: the managers, the jobs and the host's loop (done).
3. `Heap`: the reference counts Go shares with the engine, and the collector (done).
4. `Promises`, `Combinators`, `Coroutines`, `Async`, their invariant and its proof (done).
5. `EventLoop` from the theorems of the managers; that resolving functions of activations
   and requests are private; the order and the fate of reactions (done).
6. `Heap`: its counts, with lemmas on the cardinality of the set of references, and what is
   reachable, with induction by counting (done).
7. `CombinatorSound`, with the element functions and the count of a combinator as a sixth
   part of the invariant (done).

## Not modelled

*The rest of the engine*: parser, interpreter, other built-ins, regular expressions,
Unicode and number formatting are vendored, sequential transformations of data.
They are most of the repository's lines.

*In the heap*: classes of objects other than those named (a class adds children to
mark, and the loops treat all children alike), shapes, strings and atoms, the
iteration and `clear` of `Map` and `Set`, `unregister`. Two things that the model has and
that may surprise: the value of a weak map's record belongs to its key, so when the
map is garbage and the key lives the value waits for the next collection; and a
finalization job is dropped when its callback or held value dies in the same
collection.

*In the registries*: what a Go function does with the Context of another runtime that a
stale address gave it, and what the job that called it queues there: it is a race with that
runtime's thread. `ExecutePendingJob` looks a job's address up once more to report an
exception (`runtime.go:82-88`); that look-up changes neither table.

*In the promises*: subclasses and promises of other realms, `yield*`, scripts run by a
getter of `then` or `constructor` in the middle of a resolve, and running out of memory. The rejection tracker and promise hooks are not set by goqjs. `CombinatorSound`
leaves out a `then` method of the script that calls both its functions: `allSettled` makes
two of them with flags of their own, and counts the item twice. An `await` of a promise
whose `constructor` getter throws ends the async function at once, past its handlers:
`AwaitFails` models that and no property judges it.

*The C bridge*: a nested call restores the stack top to its own frame and not to its
caller's; what then goes wrong depends on the addresses of two stacks, which a model
would have to invent. *Values*: conversions, and the exception that a failed one leaves
pending for a later call to report. *Jobs*: `ExecutePendingJob` returns false when a job
throws, like an empty queue; the loop of the model runs jobs until there is none.

*Conversions* (encoding, Buffer, URL, crypto, zlib, console) keep no state and call
libraries for most of what they do.

Delays are abstracted, so nothing is said about the order of timers by due time, or
about the timeout that a script of the prelude asks for. A second `Close`, or a `Close`
from another goroutine than main's, is outside the model: the first panics, the second
is a data race on the engine. The host makes functions only in contexts that are open.
