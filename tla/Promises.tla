------------------------------ MODULE Promises ------------------------------
(***************************************************************************)
(* Promises and the queue of jobs of the engine (quickjs.c): resolving     *)
(* functions, reactions, thenables, then, finally and the static methods   *)
(* of Promise that make one promise.                                       *)
(*                                                                         *)
(* The engine is the record eng; every operation of the C code is a        *)
(* function from engine to engine, so that the callers of an operation     *)
(* (scripts, jobs, await, the combinators, generators) compose them.  The  *)
(* stack holds the script functions that native code has called, innermost *)
(* first: a script may do anything while one of its functions runs.        *)
(***************************************************************************)
EXTENDS Integers, Sequences

CONSTANTS
  Promise,   \* the promises a run may create: the bound on their number
  Plain,     \* values without a then method
  Thenable,  \* objects whose then method is a function of the script
  Poisoned,  \* objects whose then getter throws
  Error,     \* what the engine throws
  None,      \* no value, no resolving functions
  Scripts    \* the scripts TLC explores: how often they perform each operation,
             \* and with which values

(* A pair of resolving functions: the n-th made for a promise.  The two     *)
(* functions share already_resolved, so a pair is resolved as a whole.      *)
Pair == [of : Promise, n : Nat \ {0}]
Cap(p) == [of |-> p, n |-> 1]

Value == Plain \cup Promise \cup Thenable \cup Poisoned \cup {Error}
How == {"fulfilled", "rejected"}

ASSUME PromisesAssumption ==
  /\ Promise \cap (Plain \cup Thenable \cup Poisoned \cup {Error}) = {}
  /\ Plain \cap (Thenable \cup Poisoned) = {} /\ Thenable \cap Poisoned = {}
  /\ None \notin Promise \cup Pair
  /\ \A s \in Scripts : /\ DOMAIN s = {"left", "values"}
                        /\ s.values \subseteq Plain \cup Thenable \cup Poisoned

VARIABLES
  eng,    \* the promises and the jobs
  stack,  \* the calls in progress, the innermost first
  held,   \* the promises and resolving functions that scripts refer to
  log,    \* history: reactions registered, callbacks run, finally callbacks that failed
  script  \* what the scripts still may do

pvars == <<eng, stack, held, log, script>>

-----------------------------------------------------------------------------
(* Functions from engine to engine.                                         *)

Fresh(e) == {p \in Promise : e.pairs[p] = 0}
New(e) == CHOOSE p \in Fresh(e) : TRUE
NewPair(e, p) == [of |-> p, n |-> e.pairs[p] + 1]
CreateResolvingFunctions(e, p) == [e EXCEPT !.pairs[p] = @ + 1]
Create(e) == CreateResolvingFunctions(e, New(e))

Settled(e, p) == e.promise[p].state # "pending"
Outcome(e, p) == <<e.promise[p].state, e.promise[p].result>>

ReactionJob(reaction, how, v) ==
  [kind |-> "reaction", handler |-> reaction.on[how], cap |-> reaction.cap, how |-> how, arg |-> v]
ThenableJob(p, v) == [kind |-> "thenable", promise |-> p, thenable |-> v]

Enqueue(e, job) == [e EXCEPT !.jobs = Append(@, job)]

\* Mutant: the reactions are queued last to first, as a list built with list_add would.
SettleBackwards(e, p, how, v) ==
  IF Settled(e, p) THEN e
  ELSE LET r == e.promise[p].reactions IN
       [e EXCEPT !.promise[p] = [state |-> how, result |-> v, reactions |-> <<>>],
                 !.jobs = @ \o [i \in DOMAIN r |-> ReactionJob(r[Len(r) + 1 - i], how, v)]]

Settle(e, p, how, v) ==
  IF Settled(e, p) THEN e
  ELSE LET r == e.promise[p].reactions IN
       [e EXCEPT !.promise[p] = [state |-> how, result |-> v, reactions |-> <<>>],
                 !.jobs = @ \o [i \in DOMAIN r |-> ReactionJob(r[i], how, v)]]

\* Mutant: already_resolved is set only when the promise settles at once.
MarkUnlessObject(e, pair, how, v) ==
  IF how = "fulfilled" /\ v \in Promise \cup Thenable THEN e
  ELSE [e EXCEPT !.resolved = @ \cup {pair}]

Mark(e, pair, how, v) == [e EXCEPT !.resolved = @ \cup {pair}]

(* A call of one of the two resolving functions.                            *)
ResolvingCall(e, pair, how, v) ==
  IF pair \in e.resolved THEN e
  ELSE LET d == Mark(e, pair, how, v) IN
       CASE how = "rejected" -> Settle(d, pair.of, "rejected", v)
         [] how = "fulfilled" /\ (v = pair.of \/ v \in Poisoned) -> Settle(d, pair.of, "rejected", Error)
         [] how = "fulfilled" /\ v # pair.of /\ v \in Promise \cup Thenable ->
              [Enqueue(d, ThenableJob(pair.of, v)) EXCEPT
                 !.follows[pair.of] = IF v \in Promise THEN v ELSE None]
         [] OTHER -> Settle(d, pair.of, "fulfilled", v)

(* What becomes of the result of a handler: undefined functions (await)     *)
(* are not called.                                                          *)
Finish(e, cap, how, v) == IF cap = None THEN e ELSE ResolvingCall(e, cap, how, v)

\* Mutant: a promise that is already settled drops the reaction it is given.
ThenIfPending(e, p, on, cap) ==
  IF Settled(e, p) THEN e ELSE [e EXCEPT !.promise[p].reactions = Append(@, [on |-> on, cap |-> cap])]

\* Mutant: then does not look at the state of the promise.
ThenAlwaysWaits(e, p, on, cap) ==
  [e EXCEPT !.promise[p].reactions = Append(@, [on |-> on, cap |-> cap])]

Then(e, p, on, cap) ==
  LET reaction == [on |-> on, cap |-> cap] IN
  IF Settled(e, p)
  THEN Enqueue(e, ReactionJob(reaction, e.promise[p].state, e.promise[p].result))
  ELSE [e EXCEPT !.promise[p].reactions = Append(@, reaction)]

(* Promise.resolve as native code uses it: a promise stands for itself.     *)
Wrapped(e, v) == IF v \in Promise THEN v ELSE New(e)
Wrap(e, v) == IF v \in Promise THEN e ELSE ResolvingCall(Create(e), Cap(New(e)), "fulfilled", v)

(* Functions that can be a handler.                                         *)
Undefined == [fn |-> "undefined"]
Settler(pair, how) == [fn |-> "settle", pair |-> pair, how |-> how]
Callback(fn, id) == [fn |-> fn, id |-> id]
Thunk(how, v) == [fn |-> "thunk", how |-> how, arg |-> v]

-----------------------------------------------------------------------------
(* Scripts.                                                                 *)

ScriptFrames == {"callback", "settler", "finally", "hook", "async", "generator"}
ScriptRuns == stack = <<>> \/ (stack # <<>> /\ Head(stack).kind \in ScriptFrames)
Top(kind) == stack # <<>> /\ Head(stack).kind = kind
HeldValue == script.values \cup (held \cap Promise)
Does(op) ==
  /\ ScriptRuns
  /\ op \in DOMAIN script.left
  /\ script.left[op] > 0
  /\ script' = [script EXCEPT !.left[op] = @ - 1]

(* new Promise(executor): the executor runs at once with the two functions. *)
Construct ==
  /\ Does("construct")
  /\ Fresh(eng) # {}
  /\ eng' = Create(eng)
  /\ held' = held \cup {New(eng), Cap(New(eng))}
  /\ stack' = <<[kind |-> "settler", pair |-> Cap(New(eng))]>> \o stack
  /\ UNCHANGED log

(* Promise.withResolvers().                                                 *)
WithResolvers ==
  /\ Does("withResolvers")
  /\ Fresh(eng) # {}
  /\ eng' = Create(eng)
  /\ held' = held \cup {New(eng), Cap(New(eng))}
  /\ UNCHANGED <<stack, log>>

(* Promise.try(f): f runs at once and its completion resolves the promise.  *)
Try ==
  /\ Does("try")
  /\ Fresh(eng) # {}
  /\ eng' = Create(eng)
  /\ held' = held \cup {New(eng)}
  /\ stack' = <<[kind |-> "callback", cap |-> Cap(New(eng))]>> \o stack
  /\ UNCHANGED log

(* Promise.resolve(v), which returns v itself when it is a promise, and     *)
(* Promise.reject(v).                                                       *)
MakeSettled(how, v) ==
  /\ Does("resolve")
  /\ Fresh(eng) # {}
  /\ how = "fulfilled" => v \notin Promise
  /\ eng' = ResolvingCall(Create(eng), Cap(New(eng)), how, v)
  /\ held' = held \cup {New(eng)}
  /\ UNCHANGED <<stack, log>>

(* A script calls a resolving function, perhaps not for the first time.     *)
CallResolving(pair, how, v) ==
  /\ Does("call")
  /\ pair \in held
  /\ eng' = ResolvingCall(eng, pair, how, v)
  /\ UNCHANGED <<stack, held, log>>

(* p.then(f, g) with a function for each side in sides, p.catch(g) and      *)
(* p.finally(f).  The promise that is returned is New(eng).                 *)
Register(p, sides, fn) ==
  /\ Does(fn)
  /\ Fresh(eng) # {}
  /\ eng' = Then(Create(eng), p,
                 [how \in How |-> IF how \in sides THEN Callback(fn, Len(log.registered) + 1) ELSE Undefined],
                 Cap(New(eng)))
  /\ held' = held \cup {New(eng)}
  /\ log' = [log EXCEPT !.registered =
               Append(@, [on |-> p, sides |-> sides, derived |-> New(eng), fn |-> fn])]
  /\ UNCHANGED stack

CallThen(p, sides) == Register(p, sides, "callback")
CallFinally(p) == Register(p, How, "finally")

Script ==
  \/ Construct
  \/ WithResolvers
  \/ Try
  \/ \E how \in How, v \in HeldValue : MakeSettled(how, v)
  \/ \E pair \in held \ Promise, how \in How, v \in HeldValue : CallResolving(pair, how, v)
  \/ \E p \in held \cap Promise : \/ \E sides \in SUBSET How : CallThen(p, sides)
                                  \/ CallFinally(p)

-----------------------------------------------------------------------------
(* A script function returns v, or throws v, to the native code that called *)
(* it.                                                                      *)

Pop == stack' = Tail(stack)
Odd(id) == [log EXCEPT !.odd = @ \cup {id}]

(* A handler, or the function given to Promise.try.                         *)
CallbackEnds(how, v) ==
  /\ Top("callback")
  /\ eng' = Finish(eng, Head(stack).cap, how, v)
  /\ Pop
  /\ UNCHANGED <<held, log, script>>

(* An executor, or the then method of a thenable: only a throw matters.     *)
SettlerEnds(how, v) ==
  /\ Top("settler")
  /\ eng' = IF how = "rejected" THEN ResolvingCall(eng, Head(stack).pair, "rejected", v) ELSE eng
  /\ Pop
  /\ UNCHANGED <<held, log, script>>

\* Mutant: finally resolves with what its callback returned, not with a promise that restores the outcome.
AfterFinallyPlain(e, frame, v) == Finish(e, frame.cap, "fulfilled", v)

(* js_promise_then_finally_func: the promise of what the callback returned, *)
(* then a thunk that restores the outcome.                                  *)
AfterFinally(e, frame, v) ==
  LET d == Wrap(e, v)
  IN Finish(Then(Create(d), Wrapped(e, v),
                 [how \in How |-> IF how = "fulfilled" THEN Thunk(frame.how, frame.arg) ELSE Undefined],
                 Cap(New(d))),
            frame.cap, "fulfilled", New(d))

FinallyReturns(v) ==
  /\ Top("finally")
  /\ v \notin Promise => Fresh(eng) # {}
  /\ Fresh(Wrap(eng, v)) # {}
  /\ eng' = AfterFinally(eng, Head(stack), v)
  /\ log' = IF v \in Plain THEN log ELSE Odd(Head(stack).id)
  /\ Pop
  /\ UNCHANGED <<held, script>>

FinallyThrows(v) ==
  /\ Top("finally")
  /\ eng' = Finish(eng, Head(stack).cap, "rejected", v)
  /\ log' = Odd(Head(stack).id)
  /\ Pop
  /\ UNCHANGED <<held, script>>

ScriptEnds ==
  \E v \in HeldValue :
    \/ \E how \in How : CallbackEnds(how, v) \/ SettlerEnds(how, v)
    \/ FinallyReturns(v)
    \/ FinallyThrows(v)

-----------------------------------------------------------------------------
(* Jobs: JS_ExecutePendingJob, called when no script runs.                  *)

Job == Head(eng.jobs)
Popped == [eng EXCEPT !.jobs = Tail(@)]
JobRuns(kind) == stack = <<>> /\ eng.jobs # <<>> /\ Job.kind = kind
Reacts(fn) == JobRuns("reaction") /\ Job.handler.fn = fn

(* A reaction without a handler passes the outcome on.                      *)
PassOn ==
  /\ Reacts("undefined")
  /\ eng' = Finish(Popped, Job.cap, Job.how, Job.arg)
  /\ UNCHANGED <<stack, held, log, script>>

(* The handler is a resolving function: a promise follows another, or a     *)
(* race has a winner.  It returns undefined.                                *)
RunSettler ==
  /\ Reacts("settle")
  /\ eng' = ResolvingCall(Popped, Job.handler.pair, Job.handler.how, Job.arg)
  /\ UNCHANGED <<stack, held, log, script>>

RunThunk ==
  /\ Reacts("thunk")
  /\ eng' = Finish(Popped, Job.cap, Job.handler.how, Job.handler.arg)
  /\ UNCHANGED <<stack, held, log, script>>

(* The handler is a function of the script.                                 *)
RunCallback ==
  /\ Reacts("callback") \/ Reacts("finally")
  /\ eng' = Popped
  /\ stack' = <<[kind |-> Job.handler.fn, id |-> Job.handler.id, cap |-> Job.cap,
                 how |-> Job.how, arg |-> Job.arg]>>
  /\ log' = [log EXCEPT !.ran = Append(@, [id |-> Job.handler.id, how |-> Job.how, arg |-> Job.arg])]
  /\ UNCHANGED <<held, script>>

(* js_promise_resolve_thenable_job: the then method is called with a new    *)
(* pair of functions.  What the native then returns is not used.            *)
RunThenable ==
  /\ JobRuns("thenable")
  /\ LET pair == NewPair(eng, Job.promise)
         e == CreateResolvingFunctions(Popped, Job.promise)
     IN IF Job.thenable \in Promise
        THEN /\ eng' = Then(e, Job.thenable, [how \in How |-> Settler(pair, how)], None)
             /\ UNCHANGED <<stack, held>>
        ELSE /\ eng' = e
             /\ held' = held \cup {pair}
             /\ stack' = <<[kind |-> "settler", pair |-> pair]>>
  /\ UNCHANGED <<log, script>>

RunJob == PassOn \/ RunSettler \/ RunThunk \/ RunCallback \/ RunThenable

-----------------------------------------------------------------------------
PromisesInit ==
  /\ eng = [promise |-> [p \in Promise |-> [state |-> "pending", result |-> None, reactions |-> <<>>]],
            pairs |-> [p \in Promise |-> 0],
            resolved |-> {},
            jobs |-> <<>>,
            follows |-> [p \in Promise |-> None]]
  /\ stack = <<>>
  /\ held = {}
  /\ log = [registered |-> <<>>, ran |-> <<>>, odd |-> {}]
  /\ script \in Scripts

PromisesNext == Script \/ ScriptEnds \/ RunJob

-----------------------------------------------------------------------------
(* What every engine a program can reach is like, if its handlers are in H  *)
(* and its values in V.                                                     *)

Capability == Pair \cup {None}
PromiseState(H, V) ==
  [state : {"pending"} \cup How, result : V, reactions : Seq([on : [How -> H], cap : Capability])]
ReactionJobs(H, V) == [kind : {"reaction"}, handler : H, cap : Capability, how : How, arg : V]
ThenableJobs == [kind : {"thenable"}, promise : Promise, thenable : Promise \cup Thenable]
Engine(H, V) ==
  [promise : [Promise -> PromiseState(H, V)],
   pairs : [Promise -> Nat],
   resolved : SUBSET Pair,
   jobs : Seq(ReactionJobs(H, V) \cup ThenableJobs),
   follows : [Promise -> Promise \cup {None}]]

(* The pairs that were made, and the pairs that reactions and jobs refer to. *)
Made(e) == {pair \in Pair : pair.n <= e.pairs[pair.of]}
CapIn(cap, S) == cap # None => cap \in S
HandlerIn(h, S) == h.fn = "settle" => h.pair \in S
ReactionIn(r, S) == CapIn(r.cap, S) /\ \A how \in How : HandlerIn(r.on[how], S)
JobIn(job, S) == job.kind = "reaction" => CapIn(job.cap, S) /\ HandlerIn(job.handler, S)
PairsIn(e, S) ==
  /\ \A p \in Promise : \A i \in DOMAIN e.promise[p].reactions : ReactionIn(e.promise[p].reactions[i], S)
  /\ \A i \in DOMAIN e.jobs : JobIn(e.jobs[i], S)

(* The functions that can still settle a promise, and the jobs that will     *)
(* make more of them.                                                       *)
Last(e, p) == [of |-> p, n |-> e.pairs[p]]
Adopts(job, p) == job.kind = "thenable" /\ job.promise = p
Waits(e, p) == \E i \in DOMAIN e.jobs : Adopts(e.jobs[i], p)
Once(e, p) == \A i, j \in DOMAIN e.jobs : Adopts(e.jobs[i], p) /\ Adopts(e.jobs[j], p) => i = j
Resolver(e, p) ==
  /\ \A n \in 1 .. e.pairs[p] - 1 : [of |-> p, n |-> n] \in e.resolved
  /\ IF Last(e, p) \in e.resolved THEN Settled(e, p) <=> ~Waits(e, p) ELSE ~Settled(e, p) /\ ~Waits(e, p)
  /\ Once(e, p)

(* What a good engine is, but for what depends on which pairs are resolved; *)
(* then all of it.                                                          *)
Sound(e) ==
  /\ e.resolved \subseteq Made(e) /\ PairsIn(e, Made(e))
  /\ \A p \in Promise : Settled(e, p) => e.promise[p].reactions = <<>>
  /\ \A p \in Promise : Once(e, p)
Good(e, H, V) == e \in Engine(H, V) /\ Sound(e) /\ \A p \in Promise : Resolver(e, p)

(* The reactions and the jobs that will call a handler.  It is alone if     *)
(* there is at most one, which calls it whatever the outcome, and it is     *)
(* called for o if what it is given is the outcome of o.                    *)
Calls(r, h) == \E how \in How : r.on[how] = h
Runs(job, h) == job.kind = "reaction" /\ job.handler = h
Registered(e, h) == \E p \in Promise : \E i \in DOMAIN e.promise[p].reactions : Calls(e.promise[p].reactions[i], h)
Queued(e, h) == \E i \in DOMAIN e.jobs : Runs(e.jobs[i], h)
Expects(e, h) == Registered(e, h) \/ Queued(e, h)
Alone(e, h) ==
  /\ \A p, o \in Promise : \A i \in DOMAIN e.promise[p].reactions, j \in DOMAIN e.promise[o].reactions :
       Calls(e.promise[p].reactions[i], h) /\ Calls(e.promise[o].reactions[j], h) =>
         p = o /\ i = j /\ \A how \in How : e.promise[p].reactions[i].on[how] = h
  /\ \A i, j \in DOMAIN e.jobs : Runs(e.jobs[i], h) /\ Runs(e.jobs[j], h) => i = j
  /\ ~(Registered(e, h) /\ Queued(e, h))
CalledFor(e, h, o) ==
  /\ \A p \in Promise : \A i \in DOMAIN e.promise[p].reactions : Calls(e.promise[p].reactions[i], h) => p = o
  /\ \A i \in DOMAIN e.jobs :
       Runs(e.jobs[i], h) => Settled(e, o) /\ <<e.jobs[i].how, e.jobs[i].arg>> = Outcome(e, o)

(* A pair is tied to a reaction r on o if no other reaction refers to it,   *)
(* and no job but the one r becomes; r is due until that job is popped.     *)
JobOf(e, r, o) == ReactionJob(r, e.promise[o].state, e.promise[o].result)
Tied(e, y, o, r) ==
  /\ \A p \in Promise : \A i \in DOMAIN e.promise[p].reactions :
       ReactionIn(e.promise[p].reactions[i], Pair \ {y}) \/ (p = o /\ e.promise[p].reactions[i] = r)
  /\ \A i \in DOMAIN e.jobs : JobIn(e.jobs[i], Pair \ {y}) \/ (Settled(e, o) /\ e.jobs[i] = JobOf(e, r, o))
Due(e, o, r) ==
  IF Settled(e, o) THEN \E i \in DOMAIN e.jobs : e.jobs[i] = JobOf(e, r, o)
  ELSE \E i \in DOMAIN e.promise[o].reactions : e.promise[o].reactions[i] = r

(* The reactions and the jobs that call an element function of a combinator *)
(* or the functions y of its result.  P has all of them if each is one of   *)
(* its reactions, on its promise, or the job of one.                        *)
Tells(h, y) == h.fn = "element" \/ (h.fn = "settle" /\ h.pair = y)
Reports(r, y) == r.cap = y \/ \E how \in How : Tells(r.on[how], y)
JobReports(job, y) == job.kind = "reaction" /\ (job.cap = y \/ Tells(job.handler, y))
Gathers(e, y, P) ==
  /\ \A p \in Promise : \A i \in DOMAIN e.promise[p].reactions :
       Reports(e.promise[p].reactions[i], y) => <<p, e.promise[p].reactions[i]>> \in P
  /\ \A i \in DOMAIN e.jobs : JobReports(e.jobs[i], y) =>
       \E x \in P : Settled(e, x[1]) /\ e.jobs[i] = JobOf(e, x[2], x[1])

(* A promise that was resolved with q waits for the job that will register  *)
(* its last pair on q, or for q, or has ended like q.                       *)
Adoption(y) == [on |-> [how \in How |-> Settler(y, how)], cap |-> None]
Follower(e, p) == e.follows[p] # None /\ Last(e, p) \notin e.resolved
Chained(e) == {Last(e, p) : p \in {q \in Promise : Follower(e, q)}}
Straight(e) ==
  /\ \A p \in Promise : e.promise[p].state = "fulfilled" => e.promise[p].result \notin Promise \cup Thenable \cup Poisoned
  /\ \A i \in DOMAIN e.jobs : \A p \in Promise : Adopts(e.jobs[i], p) =>
       e.follows[p] = IF e.jobs[i].thenable \in Promise THEN e.jobs[i].thenable ELSE None
  /\ \A p \in Promise : e.follows[p] # None => Cap(p) \in e.resolved
  /\ \A p \in Promise : e.follows[p] # None /\ Settled(e, p) => Outcome(e, p) = Outcome(e, e.follows[p])
  /\ \A p \in Promise : Follower(e, p) =>
       /\ Tied(e, Last(e, p), e.follows[p], Adoption(Last(e, p)))
       /\ Due(e, e.follows[p], Adoption(Last(e, p)))

(* The reactions of scripts: each is tied to what then returned, and the    *)
(* callbacks of a promise are kept, queued and run in the order in which    *)
(* they were registered.                                                    *)
IsCallback(h) == h.fn \in {"callback", "finally"}
Reaction(g, k) ==
  [on |-> [how \in How |-> IF how \in g.sides THEN Callback(g.fn, k) ELSE Undefined], cap |-> Cap(g.derived)]
Derives(reg, h, cap) == IsCallback(h) => h.id \in DOMAIN reg /\ cap = Cap(reg[h.id].derived)
Before(reg, k, l) == reg[k].on = reg[l].on => k < l
CallsBack(job) == job.kind = "reaction" /\ IsCallback(job.handler)
Sequenced(e, reg, ran) ==
  /\ \A k \in DOMAIN reg : Tied(e, Cap(reg[k].derived), reg[k].on, Reaction(reg[k], k))
  /\ \A p \in Promise : \A i \in DOMAIN e.promise[p].reactions : \A how \in How :
       Derives(reg, e.promise[p].reactions[i].on[how], e.promise[p].reactions[i].cap)
  /\ \A i \in DOMAIN e.jobs : CallsBack(e.jobs[i]) => Derives(reg, e.jobs[i].handler, e.jobs[i].cap)
  /\ \A p \in Promise : \A i, j \in DOMAIN e.promise[p].reactions : \A how \in How :
       i < j /\ IsCallback(e.promise[p].reactions[i].on[how]) /\ IsCallback(e.promise[p].reactions[j].on[how]) =>
         e.promise[p].reactions[i].on[how].id < e.promise[p].reactions[j].on[how].id
  /\ \A i, j \in DOMAIN e.jobs : i < j /\ CallsBack(e.jobs[i]) /\ CallsBack(e.jobs[j]) =>
       Before(reg, e.jobs[i].handler.id, e.jobs[j].handler.id)
  /\ \A i \in DOMAIN ran : ran[i].id \in DOMAIN reg /\ ran[i].how \in reg[ran[i].id].sides
  /\ \A i \in DOMAIN ran : <<ran[i].how, ran[i].arg>> = Outcome(e, reg[ran[i].id].on)
  /\ \A i \in DOMAIN ran, j \in DOMAIN e.jobs : CallsBack(e.jobs[j]) => Before(reg, ran[i].id, e.jobs[j].handler.id)
  /\ \A i, j \in DOMAIN ran : i < j => Before(reg, ran[i].id, ran[j].id)

(* The promise that then returned is resolved after its reaction: like the  *)
(* promise it reacted to if there was no handler for the outcome, or, by a  *)
(* thunk, after a finally callback that neither threw nor returned a        *)
(* thenable.                                                                *)
Restoration(x, o) ==
  [on |-> [how \in How |-> IF how = "fulfilled" THEN Thunk(eng.promise[o].state, eng.promise[o].result) ELSE Undefined],
   cap |-> Cap(x)]
Restores(x, o) ==
  /\ x \in Promise /\ Cap(x) \in Made(eng)
  /\ \E w \in Promise : eng.promise[w].state = "fulfilled" /\ Tied(eng, Cap(x), w, Restoration(x, o))
  /\ Cap(x) \in eng.resolved => Outcome(eng, x) = Outcome(eng, o)
Quiet(k) == log.registered[k].fn = "finally" /\ k \notin log.odd /\ Cap(log.registered[k].derived) \in eng.resolved
Serves(f, k) == f.kind \in {"callback", "finally"} /\ f.cap = Cap(log.registered[k].derived)
Derived(k) ==
  LET g == log.registered[k]
      y == Cap(g.derived)
  IN /\ y \in Made(eng)
     /\ IF Settled(eng, g.on)
        THEN \/ Due(eng, g.on, Reaction(g, k))
             \/ /\ eng.promise[g.on].state \in g.sides => \E i \in DOMAIN log.ran : log.ran[i].id = k
                /\ y \in eng.resolved \/ \E i \in DOMAIN stack : Serves(stack[i], k)
        ELSE Due(eng, g.on, Reaction(g, k)) /\ y \notin eng.resolved
     /\ y \in eng.resolved /\ eng.promise[g.on].state \notin g.sides => Outcome(eng, g.derived) = Outcome(eng, g.on)
     /\ Quiet(k) => Restores(eng.follows[g.derived], g.on)

-----------------------------------------------------------------------------
Quiescent == eng.jobs = <<>> /\ stack = <<>>

(* One resolving function at a time can settle a promise: of all the pairs  *)
(* made for it only the last may be unresolved, and then it is pending and  *)
(* no job will make another; a promise whose pairs are all used is settled  *)
(* or has exactly one job.  So the guard of fulfill_or_reject_promise,      *)
(* "should never happen", never does.                                       *)
OneResolver == \A p \in Promise : Resolver(eng, p)

(* A settled promise keeps its state and its result whatever is called      *)
(* later, and is given no reaction that would wait for ever.                *)
SettledOnce ==
  [][\A p \in Promise : Settled(eng, p) =>
       Outcome(eng', p) = Outcome(eng, p) /\ eng'.promise[p].reactions = <<>>]_eng

(* A callback runs at most once, after the promise it was registered on has *)
(* settled, with the outcome of that promise, and the callbacks of a        *)
(* promise run in the order in which they were registered.                  *)
CallbacksInOrder ==
  \A i \in DOMAIN log.ran :
    LET r == log.ran[i]
        g == log.registered[r.id]
    IN /\ <<r.how, r.arg>> = Outcome(eng, g.on)
       /\ r.how \in g.sides
       /\ \A j \in 1 .. i - 1 : /\ log.ran[j].id # r.id
                               /\ log.registered[log.ran[j].id].on = g.on => log.ran[j].id < r.id

(* A promise that was resolved with another one ends like it; so does what  *)
(* then returns when there is no handler for the outcome, and what finally  *)
(* returns when its callback neither throws nor returns a thenable.         *)
OutcomesFollow ==
  /\ \A p \in Promise :
       eng.follows[p] # None /\ Settled(eng, p) => Outcome(eng, p) = Outcome(eng, eng.follows[p])
  /\ \A k \in DOMAIN log.registered :
       LET g == log.registered[k] IN
       /\ Settled(eng, g.derived)
       /\ eng.promise[g.on].state \notin g.sides \/ (g.fn = "finally" /\ k \notin log.odd)
       => Outcome(eng, g.derived) = Outcome(eng, g.on)

(* When no job is left, nothing that was to happen has been forgotten: a    *)
(* promise follows the settled one it was resolved with, every callback of  *)
(* a settled promise has run, and what then returned has been resolved.     *)
NothingForgotten ==
  Quiescent =>
    /\ \A p \in Promise :
         eng.follows[p] # None => (Settled(eng, p) <=> Settled(eng, eng.follows[p]))
    /\ \A k \in DOMAIN log.registered :
         LET g == log.registered[k] IN
         Settled(eng, g.on) =>
           /\ Cap(g.derived) \in eng.resolved
           /\ eng.promise[g.on].state \in g.sides => \E i \in DOMAIN log.ran : log.ran[i].id = k

=============================================================================
